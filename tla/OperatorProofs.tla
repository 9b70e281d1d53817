--------------------------- MODULE OperatorProofs ---------------------------
(***************************************************************************)
(* Proofs about the pure operations of TopicOps and Wire: every property   *)
(* that the runs of MCOperators check over bounded inputs, for inputs of   *)
(* every length, chunks of every kind and all widths and limits.           *)
(*                                                                         *)
(* A recursive function f[i \in S] == e is CHOOSE f : f = [i \in S |-> e]; *)
(* that there is such an f, and what it yields, is shown by least          *)
(* counterexample (Least).  Sequences of bytes are concatenated with Cat   *)
(* and looked at through IsCat, which the provers handle better than \o.   *)
(***************************************************************************)
EXTENDS MCOperators, SequenceTheorems, WellFoundedInduction, TLAPS

-----------------------------------------------------------------------------
(* The latency                                                             *)

(* Quotient and remainder.                                                 *)
LEMMA DivMod ==
    ASSUME NEW x \in Int, NEW d \in Nat \ {0}
    PROVE  /\ x \div d \in Int /\ x % d \in 0..(d - 1)
           /\ x = d * (x \div d) + (x % d)
  OBVIOUS

(* A quotient is below w exactly when the dividend is below d * w.         *)
LEMMA Below ==
    ASSUME NEW x \in Int, NEW d \in Nat \ {0}, NEW w \in Int
    PROVE  x < d * w <=> x \div d < w
<1> DEFINE q == x \div d
           r == x % d
<1>1. q \in Int /\ r \in Int /\ 0 <= r /\ r < d /\ x = d * q + r
  BY DivMod
<1> HIDE DEF q, r
<1>2. ASSUME q < w PROVE x < d * w
  <2>1. d * (q + 1) <= d * w BY <1>1, <1>2
  <2>2. d * (q + 1) = d * q + d BY <1>1
  <2>3. d * q \in Int /\ d * w \in Int BY <1>1
  <2> QED BY <1>1, <2>1, <2>2, <2>3
<1>3. ASSUME w <= q PROVE d * w <= x
  <2>1. d * w <= d * q BY <1>1, <1>3
  <2>3. d * q \in Int /\ d * w \in Int BY <1>1
  <2> QED BY <1>1, <2>1, <2>3
<1> QED BY <1>1, <1>2, <1>3 DEF q

(* The remainder of a number below the divisor is the number.              *)
LEMMA Small ==
    ASSUME NEW w \in Nat \ {0}, NEW x \in 0..(w - 1)
    PROVE  x % w = x
  OBVIOUS

(* latency_mks, for every two readings of the clock.                       *)
LEMMA LatencyExact ==
    ASSUME NEW n \in Nat, NEW s \in Nat
    PROVE  (latency_mks(n, s) = (n - s) \div Thousand)
             <=> (s <= n /\ n - s < Thousand * W32)
<1> DEFINE x == n - s
           y == x % W64
           l == (y \div Thousand) % W32
<1>1. /\ Thousand \in Nat \ {0} /\ W32 \in Nat \ {0} /\ W64 \in Nat \ {0}
      /\ Thousand * W32 \in Int /\ Thousand * W32 <= W64
  BY WidthAssumption
<1>2. x \in Int /\ y \in Int /\ 0 <= y /\ y < W64 BY <1>1, DivMod
<1>3. y \div Thousand \in Int /\ x \div Thousand \in Int BY <1>1, <1>2, DivMod
<1>4. l \in Int /\ 0 <= l /\ l < W32 BY <1>1, <1>3, DivMod
<1> HIDE DEF y, l
<1>5. x < Thousand * W32 <=> x \div Thousand < W32 BY <1>1, <1>2, Below
<1>6. x < 0 <=> x \div Thousand < 0
  <2>1. Thousand * 0 = 0 BY <1>1
  <2> QED BY <1>1, <1>2, <2>1, Below
<1>7. ASSUME 0 <= x, x < Thousand * W32 PROVE l = x \div Thousand
  <2>1. x \in 0..(W64 - 1) BY <1>1, <1>2, <1>7
  <2>2. y = x BY <1>1, <2>1, Small DEF y
  <2>3. x \div Thousand \in 0..(W32 - 1) BY <1>1, <1>2, <1>3, <1>5, <1>6, <1>7
  <2>4. (x \div Thousand) % W32 = x \div Thousand BY <1>1, <2>3, Small
  <2> QED BY <2>2, <2>4 DEF l
<1>8. latency_mks(n, s) = l BY DEF latency_mks, l, y
<1> QED BY <1>1, <1>2, <1>3, <1>4, <1>5, <1>6, <1>7, <1>8

-----------------------------------------------------------------------------
(* The loop of matches_split decides the meaning of the mask.              *)

(* A nonempty set of numbers has a least one: induction without an         *)
(* operator parameter.                                                     *)
LEMMA Least ==
    ASSUME NEW T \in SUBSET Nat, T # {}
    PROVE  \E x \in T : \A y \in T : x <= y
<1>1. IsWellFoundedOn(OpToRel(<, Nat), Nat) BY NatLessThanWellFounded
<1>2. PICK x \in T : \A y \in T : ~(<<y, x>> \in OpToRel(<, Nat))
  BY <1>1, WFMin
<1>3. \A y \in T : ~(y < x) BY <1>2 DEF OpToRel
<1> QED BY <1>3

\* round i of the loop, given the later rounds
Round(m, p, f, i) ==
    IF i > Len(p) THEN i > Len(m)
    ELSE /\ i <= Len(m)
         /\ \/ m[i] = "#"
            \/ m[i] \in {"+", p[i]} /\ f[i + 1]

IsLoop(m, p, f) == f = [i \in 1..(Len(p) + 1) |-> Round(m, p, f, i)]

Loop(m, p) == CHOOSE f : IsLoop(m, p, f)

(* MatchesChunks is the first entry of its recursive function.             *)
LEMMA MatchesIsLoop ==
    ASSUME NEW m, NEW p
    PROVE  MatchesChunks(m, p) = Loop(m, p)[1]
  BY DEF MatchesChunks, Loop, IsLoop, Round

\* what is left of the mask from chunk i on means a match with the rest
Left(m, p, i) ==
    \/ \E k \in i..Len(m) :
         /\ m[k] = "#" /\ \A j \in i..(k - 1) : m[j] # "#"
         /\ Len(p) >= k /\ \A j \in i..(k - 1) : m[j] \in {"+", p[j]}
    \/ /\ \A j \in i..Len(m) : m[j] # "#"
       /\ Len(p) = Len(m) /\ \A j \in i..Len(m) : m[j] \in {"+", p[j]}

\* past the mask the loop only looks at whether the path has ended
Meaning(m, p, i) ==
    \/ i > Len(m) /\ i > Len(p)
    \/ i <= Len(m) /\ Left(m, p, i)

(* The meaning at chunk i from the meaning at the next one: what a round   *)
(* of the loop computes.                                                   *)
LEMMA MeaningUnfolds ==
    ASSUME NEW S, NEW m \in Seq(S), NEW p \in Seq(S),
           NEW i \in 1..(Len(p) + 1),
           NEW f, i + 1 \in 1..(Len(p) + 1) => (f[i + 1] <=> Meaning(m, p, i + 1))
    PROVE  Meaning(m, p, i) <=> Round(m, p, f, i)
<1>1. Len(m) \in Nat /\ Len(p) \in Nat OBVIOUS
<1>2. CASE i > Len(p) \/ i > Len(m)
  BY <1>1, <1>2 DEF Meaning, Round, Left
<1>3. CASE i <= Len(p) /\ i <= Len(m)
  <2>1. CASE m[i] = "#"
    <3>1. Left(m, p, i) BY <1>1, <1>3, <2>1 DEF Left
    <3> QED BY <1>3, <2>1, <3>1 DEF Meaning, Round
  <2>2. CASE m[i] # "#"
    <3>1. f[i + 1] <=> Meaning(m, p, i + 1) BY <1>1, <1>3
    <3>2. Round(m, p, f, i) <=> m[i] \in {"+", p[i]} /\ Meaning(m, p, i + 1)
      BY <1>3, <2>2, <3>1 DEF Round
    <3>3. Meaning(m, p, i) <=> Left(m, p, i) BY <1>3 DEF Meaning
    <3>4. Left(m, p, i) <=> m[i] \in {"+", p[i]} /\ Meaning(m, p, i + 1)
      <4>1. CASE i = Len(m)
        BY <1>1, <1>3, <2>2, <4>1 DEF Left, Meaning
      <4>2. CASE i < Len(m)
        <5>1. Meaning(m, p, i + 1) <=> Left(m, p, i + 1) BY <1>1, <4>2 DEF Meaning
        <5>2. ASSUME Left(m, p, i) PROVE m[i] \in {"+", p[i]} /\ Left(m, p, i + 1)
          BY <1>1, <1>3, <2>2, <4>2, <5>2 DEF Left
        <5>3. ASSUME m[i] \in {"+", p[i]}, Left(m, p, i + 1) PROVE Left(m, p, i)
          BY <1>1, <1>3, <2>2, <4>2, <5>3 DEF Left
        <5> QED BY <5>1, <5>2, <5>3
      <4> QED BY <1>1, <1>3, <4>1, <4>2
    <3> QED BY <3>2, <3>3, <3>4
  <2> QED BY <2>1, <2>2
<1> QED BY <1>1, <1>2, <1>3

(* The recursive function of MatchesChunks exists.                         *)
LEMMA LoopExists ==
    ASSUME NEW S, NEW m \in Seq(S), NEW p \in Seq(S)
    PROVE  IsLoop(m, p, Loop(m, p))
<1> DEFINE g == [i \in 1..(Len(p) + 1) |-> Meaning(m, p, i)]
<1>1. \A i \in 1..(Len(p) + 1) : g[i] <=> Meaning(m, p, i) OBVIOUS
<1> HIDE DEF g
<1>2. \A i \in 1..(Len(p) + 1) : Meaning(m, p, i) <=> Round(m, p, g, i)
  BY <1>1, MeaningUnfolds
<1>3. ASSUME NEW i \in 1..(Len(p) + 1) PROVE Meaning(m, p, i) = Round(m, p, g, i)
  <2>1. (i > Len(m)) \in BOOLEAN OBVIOUS
  <2>2. Meaning(m, p, i) \in BOOLEAN BY Zenon DEF Meaning
  <2>3. Round(m, p, g, i) \in BOOLEAN BY <2>1, Zenon DEF Round
  <2> QED BY <1>2, <2>2, <2>3
<1>4. IsLoop(m, p, g) BY <1>3 DEF IsLoop, g
<1> QED BY <1>4 DEF Loop

(* Round by round, from the last to the first.                             *)
LEMMA LoopMeans ==
    ASSUME NEW S, NEW m \in Seq(S), NEW p \in Seq(S)
    PROVE  \A i \in 1..(Len(p) + 1) : Loop(m, p)[i] <=> Meaning(m, p, i)
<1> DEFINE f == Loop(m, p)
           At(n) == Len(p) + 1 - n
           T == {n \in 0..Len(p) : ~(f[At(n)] <=> Meaning(m, p, At(n)))}
<1>1. Len(p) \in Nat OBVIOUS
<1>2. \A i \in 1..(Len(p) + 1) : f[i] = Round(m, p, f, i)
  BY LoopExists DEF IsLoop
<1> HIDE DEF f
<1>3. ASSUME T # {} PROVE FALSE
  <2>1. T \in SUBSET Nat BY <1>1
  <2>2. PICK n \in T : \A k \in T : n <= k BY <1>3, <2>1, Least
  <2>3. At(n) \in 1..(Len(p) + 1) BY <1>1, <2>2
  <2>4. ASSUME At(n) + 1 \in 1..(Len(p) + 1)
        PROVE  f[At(n) + 1] <=> Meaning(m, p, At(n) + 1)
    <3>1. n - 1 \in 0..Len(p) /\ n - 1 \notin T /\ At(n - 1) = At(n) + 1
      BY <1>1, <2>2, <2>4, SMTT(30)
    <3> QED BY <3>1
  <2>5. Meaning(m, p, At(n)) <=> Round(m, p, f, At(n))
    BY <2>3, <2>4, MeaningUnfolds
  <2>6. f[At(n)] <=> Meaning(m, p, At(n)) BY <1>2, <2>3, <2>5
  <2> QED BY <2>2, <2>6
<1>4. ASSUME NEW i \in 1..(Len(p) + 1) PROVE f[i] <=> Meaning(m, p, i)
  <2>1. Len(p) + 1 - i \in 0..Len(p) /\ At(Len(p) + 1 - i) = i BY <1>1
  <2> QED BY <1>3, <2>1
<1> QED BY <1>4 DEF f

(* The loop decides the meaning of a nonempty list of chunks.              *)
LEMMA ChunksMeanMatch ==
    ASSUME NEW S, NEW m \in Seq(S), NEW p \in Seq(S), m # <<>>
    PROVE  MatchesChunks(m, p) <=> MeansMatch(m, p)
<1>1. Len(m) \in Nat /\ Len(m) >= 1 /\ Len(p) \in Nat /\ 1 \in 1..(Len(p) + 1)
  OBVIOUS
<1>2. MatchesChunks(m, p) <=> Meaning(m, p, 1)
  BY <1>1, LoopMeans, MatchesIsLoop
<1>3. Meaning(m, p, 1) <=> Left(m, p, 1) BY <1>1 DEF Meaning
<1>4. Left(m, p, 1) <=> MeansMatch(m, p)
  BY <1>1 DEF Left, MeansMatch, Agree
<1> QED BY <1>2, <1>3, <1>4

-----------------------------------------------------------------------------
(* Parsing cuts a mask behind its first "#", which does not change what it *)
(* means; printing and parsing it again changes nothing more.              *)

IsFirstAny(m, k) == m[k] = "#" /\ \A j \in 1..(k - 1) : m[j] # "#"

(* UpToAny cuts a mask behind its first wildcard "#".                      *)
LEMMA CutAtFirstAny ==
    ASSUME NEW S, NEW m \in Seq(S), NEW k \in 1..Len(m), IsFirstAny(m, k)
    PROVE  UpToAny(m) = SubSeq(m, 1, k)
<1>1. Len(m) \in Nat OBVIOUS
<1>2. ASSUME NEW i \in 1..Len(m), IsFirstAny(m, i) PROVE i = k
  BY <1>1, <1>2 DEF IsFirstAny
<1>3. k = CHOOSE i \in 1..Len(m) : m[i] = "#" /\ \A j \in 1..(i - 1) : m[j] # "#"
  BY <1>2 DEF IsFirstAny
<1>4. m[k] = "#" BY DEF IsFirstAny
<1> QED BY <1>3, <1>4 DEF UpToAny

(* A mask with a "#" has a first one.                                      *)
LEMMA FirstAny ==
    ASSUME NEW S, NEW m \in Seq(S), NEW i \in 1..Len(m), m[i] = "#"
    PROVE  \E k \in 1..Len(m) : IsFirstAny(m, k)
<1> DEFINE T == {k \in 1..Len(m) : m[k] = "#"}
<1>1. Len(m) \in Nat /\ T \in SUBSET Nat /\ T # {} OBVIOUS
<1>2. PICK k \in T : \A j \in T : k <= j BY <1>1, Least
<1>3. ASSUME NEW j \in 1..(k - 1) PROVE m[j] # "#" BY <1>1, <1>2
<1> QED BY <1>2, <1>3 DEF IsFirstAny

(* What follows the first "#" of a mask has no meaning.                    *)
LEMMA CutKeepsMeaning ==
    ASSUME NEW S, NEW m \in Seq(S), m # <<>>, NEW p \in Seq(S)
    PROVE  /\ UpToAny(m) \in Seq(S) /\ UpToAny(m) # <<>>
           /\ MeansMatch(UpToAny(m), p) <=> MeansMatch(m, p)
           /\ UpToAny(UpToAny(m)) = UpToAny(m)
<1>1. Len(m) \in Nat /\ Len(m) >= 1 OBVIOUS
<1>2. CASE \A i \in 1..Len(m) : m[i] # "#"
  <2>1. UpToAny(m) = m BY <1>2 DEF UpToAny
  <2> QED BY <2>1
<1>3. CASE \E i \in 1..Len(m) : m[i] = "#"
  <2>1. PICK k \in 1..Len(m) : IsFirstAny(m, k) BY <1>3, FirstAny
  <2> DEFINE u == SubSeq(m, 1, k)
  <2>2. UpToAny(m) = u BY <2>1, CutAtFirstAny
  <2>3. /\ u \in Seq(S) /\ Len(u) = k /\ k \in 1..Len(u) /\ u # <<>>
        /\ \A i \in 1..k : u[i] = m[i]
    BY <1>1
  <2>4. UpToAny(u) = u
    <3>1. IsFirstAny(u, k) BY <1>1, <2>1, <2>3 DEF IsFirstAny
    <3>2. UpToAny(u) = SubSeq(u, 1, k) BY <2>3, <3>1, CutAtFirstAny
    <3> QED BY <2>3, <3>2
  <2> HIDE DEF u
  <2>5. MeansMatch(u, p) <=> Len(p) >= k /\ Agree(m, p, k - 1)
    BY <1>1, <2>1, <2>3, SMTT(30) DEF MeansMatch, IsFirstAny, Agree
  <2>6. MeansMatch(m, p) <=> Len(p) >= k /\ Agree(m, p, k - 1)
    BY <1>1, <2>1 DEF MeansMatch, IsFirstAny, Agree
  <2> QED BY <2>2, <2>3, <2>4, <2>5, <2>6
<1> QED BY <1>2, <1>3

\* the mask "#" is kept as None, and matches every topic
LEMMA AnyMatchesAll ==
    ASSUME NEW S, NEW p \in Seq(S), p # <<>>
    PROVE  /\ MeansMatch(<<"#">>, p)
           /\ MatchesChunks(<<"#">>, p)
<1>1. Len(p) \in Nat /\ Len(p) >= 1 OBVIOUS
<1>2. MeansMatch(<<"#">>, p) BY <1>1 DEF MeansMatch, Agree
<1>3. <<"#">> \in Seq(S \union {"#"}) /\ p \in Seq(S \union {"#"}) /\ <<"#">> # <<>>
  OBVIOUS
<1>4. MatchesChunks(<<"#">>, p) BY <1>2, <1>3, ChunksMeanMatch
<1> QED BY <1>2, <1>4

(* matches_split on the parsed mask is the meaning of the mask.            *)
LEMMA ParsedMeansMatch ==
    ASSUME NEW S, NEW m \in Seq(S), m # <<>>, NEW p \in Seq(S), p # <<>>
    PROVE  matches_split(from_str(m), p) <=> MeansMatch(m, p)
<1>1. CASE m = <<"#">>
  BY <1>1, AnyMatchesAll DEF from_str, matches_split
<1>2. CASE m # <<"#">>
  <2>1. from_str(m) = UpToAny(m) BY <1>2 DEF from_str
  <2>2. UpToAny(m) \in Seq(S) /\ UpToAny(m) # <<>> BY CutKeepsMeaning
  <2>3. matches_split(UpToAny(m), p) <=> MatchesChunks(UpToAny(m), p)
    BY <2>2 DEF matches_split, AnyMask
  <2>4. MatchesChunks(UpToAny(m), p) <=> MeansMatch(UpToAny(m), p)
    BY <2>2, ChunksMeanMatch
  <2> QED BY <2>1, <2>3, <2>4, CutKeepsMeaning
<1> QED BY <1>1, <1>2

(* A parsed mask that is printed parses to one of the same meaning.        *)
LEMMA PrintedMatchesAlike ==
    ASSUME NEW S, NEW m \in Seq(S), m # <<>>, m # EmptyTopic,
           NEW p \in Seq(S), p # <<>>
    PROVE  /\ to_string(from_str(m)) # EmptyTopic
           /\ matches_split(from_str(to_string(from_str(m))), p)
                <=> matches_split(from_str(m), p)
<1>1. CASE m = <<"#">>
  <2>1. from_str(m) = AnyMask /\ to_string(AnyMask) = <<"#">> /\ <<"#">> # EmptyTopic
    BY <1>1 DEF from_str, to_string, EmptyTopic
  <2>2. from_str(<<"#">>) = AnyMask BY DEF from_str
  <2> QED BY <2>1, <2>2
<1>2. CASE m # <<"#">>
  <2> DEFINE u == UpToAny(m)
  <2>1. u \in Seq(S) /\ u # <<>> /\ UpToAny(u) = u BY CutKeepsMeaning
  <2>2. u # EmptyTopic
    <3>1. CASE \A i \in 1..Len(m) : m[i] # "#"
      BY <3>1 DEF UpToAny
    <3>2. CASE \E i \in 1..Len(m) : m[i] = "#"
      <4>1. PICK k \in 1..Len(m) : IsFirstAny(m, k) BY <3>2, FirstAny
      <4>2. u = SubSeq(m, 1, k) BY <4>1, CutAtFirstAny
      <4>3. Len(u) = k /\ u[k] = "#" BY <4>1, <4>2 DEF IsFirstAny
      <4>4. Len(EmptyTopic) = 1 /\ EmptyTopic[1] = "" BY DEF EmptyTopic
      <4> HIDE DEF u
      <4> QED BY <4>3, <4>4
    <3> QED BY <3>1, <3>2
  <2>3. from_str(m) = u /\ to_string(u) = u
    BY <1>2, <2>1 DEF from_str, to_string, AnyMask
  <2> HIDE DEF u
  <2>4. CASE u = <<"#">>
    <3>1. from_str(u) = AnyMask BY <2>4 DEF from_str
    <3> QED BY <2>2, <2>3, <2>4, <3>1, AnyMatchesAll DEF matches_split
  <2>5. CASE u # <<"#">>
    <3>1. from_str(u) = u BY <2>1, <2>5 DEF from_str
    <3> QED BY <2>2, <2>3, <3>1
  <2> QED BY <2>4, <2>5
<1> QED BY <1>1, <1>2

-----------------------------------------------------------------------------
(* What Named computes                                                     *)

\* entry i of the function that Named evaluates
Entry(t, f, i) ==
    IF i = 0 THEN <<>>
    ELSE IF NonEmpty(t[i]) THEN Append(f[i - 1], t[i]) ELSE f[i - 1]

IsKept(t, f) == f = [i \in 0..Len(t) |-> Entry(t, f, i)]

Kept(t) == CHOOSE f : IsKept(t, f)

(* Named is the last entry of its recursive function.                      *)
LEMMA NamedIsKept ==
    ASSUME NEW t
    PROVE  Named(t) = Kept(t)[Len(t)]
  BY DEF Named, Kept, IsKept, Entry

(* That function exists.                                                   *)
LEMMA KeptExists ==
    ASSUME NEW S, NEW t \in Seq(S)
    PROVE  IsKept(t, Kept(t))
<1> DEFINE Up(n) == \E f : f = [i \in 0..n |-> Entry(t, f, i)]
           T == {n \in 0..Len(t) : ~Up(n)}
<1>1. ASSUME T # {} PROVE FALSE
  <2>1. T \in SUBSET Nat OBVIOUS
  <2>2. PICK n \in T : \A k \in T : n <= k BY <1>1, <2>1, Least
  <2>3. CASE n = 0
    <3> DEFINE f == [i \in 0..0 |-> <<>>]
    <3>1. f = [i \in 0..0 |-> Entry(t, f, i)] BY DEF Entry
    <3> QED BY <2>2, <2>3, <3>1
  <2>4. CASE n # 0
    <3>1. n - 1 \in 0..Len(t) /\ n - 1 \notin T BY <2>2, <2>4
    <3>2. PICK f : f = [i \in 0..(n - 1) |-> Entry(t, f, i)] BY <3>1
    <3> DEFINE g == [i \in 0..n |-> IF i = n THEN Entry(t, f, n) ELSE f[i]]
    <3>3. ASSUME NEW i \in 0..n PROVE g[i] = Entry(t, g, i)
      <4>1. i # 0 => i - 1 \in 0..(n - 1) /\ g[i - 1] = f[i - 1] BY <2>4
      <4>2. Entry(t, g, i) = Entry(t, f, i) BY <4>1 DEF Entry
      <4>3. i # n => i \in 0..(n - 1) OBVIOUS
      <4>4. i # n => f[i] = Entry(t, f, i) BY <3>2, <4>3
      <4> QED BY <4>2, <4>4
    <3>4. g = [i \in 0..n |-> Entry(t, g, i)] BY <3>3
    <3> QED BY <2>2, <3>4
  <2> QED BY <2>3, <2>4
<1>2. Up(Len(t)) BY <1>1
<1> QED BY <1>2 DEF Kept, IsKept

(* One entry of that function from the one before.                         *)
LEMMA KeptSteps ==
    ASSUME NEW S, NEW t \in Seq(S)
    PROVE  /\ Kept(t)[0] = <<>>
           /\ \A i \in 1..Len(t) :
                Kept(t)[i] = IF NonEmpty(t[i]) THEN Append(Kept(t)[i - 1], t[i])
                             ELSE Kept(t)[i - 1]
<1>1. Len(t) \in Nat OBVIOUS
<1>2. \A i \in 0..Len(t) : Kept(t)[i] = Entry(t, Kept(t), i)
  BY KeptExists DEF IsKept
<1> QED BY <1>1, <1>2 DEF Entry

\* all chunks of t are named
Full(t) == \A i \in 1..Len(t) : NonEmpty(t[i])

(* Every entry is a sequence of named chunks.                              *)
LEMMA KeptTypes ==
    ASSUME NEW S, NEW t \in Seq(S)
    PROVE  \A i \in 0..Len(t) : Kept(t)[i] \in Seq(S) /\ Full(Kept(t)[i])
<1> DEFINE T == {i \in 0..Len(t) : ~(Kept(t)[i] \in Seq(S) /\ Full(Kept(t)[i]))}
<1>1. Len(t) \in Nat OBVIOUS
<1>2. ASSUME T # {} PROVE FALSE
  <2>1. T \in SUBSET Nat BY <1>1
  <2>2. PICK n \in T : \A k \in T : n <= k BY <1>2, <2>1, Least
  <2>3. CASE n = 0
    <3>1. Kept(t)[0] = <<>> /\ <<>> \in Seq(S) BY KeptSteps
    <3>2. Full(<<>>) BY DEF Full
    <3> QED BY <2>2, <2>3, <3>1, <3>2
  <2>4. CASE n # 0
    <3>1. n \in 1..Len(t) /\ n - 1 \in 0..Len(t) /\ n - 1 \notin T
      BY <1>1, <2>2, <2>4
    <3>2. Kept(t)[n - 1] \in Seq(S) /\ Full(Kept(t)[n - 1]) BY <3>1
    <3>3. Kept(t)[n] = IF NonEmpty(t[n]) THEN Append(Kept(t)[n - 1], t[n]) ELSE Kept(t)[n - 1]
      BY <3>1, KeptSteps
    <3>4. t[n] \in S BY <3>1
    <3>5. NonEmpty(t[n]) => Full(Append(Kept(t)[n - 1], t[n])) BY <3>2, <3>4 DEF Full
    <3>6. Append(Kept(t)[n - 1], t[n]) \in Seq(S) BY <3>2, <3>4
    <3>7. Kept(t)[n] \in Seq(S) /\ Full(Kept(t)[n]) BY <3>2, <3>3, <3>5, <3>6
    <3> QED BY <2>2, <3>7
  <2> QED BY <2>3, <2>4
<1> QED BY <1>2

(* So is the last one.                                                     *)
LEMMA NamedTypes ==
    ASSUME NEW S, NEW t \in Seq(S)
    PROVE  Named(t) \in Seq(S) /\ Full(Named(t))
<1>1. Len(t) \in 0..Len(t) OBVIOUS
<1> QED BY <1>1, KeptTypes, NamedIsKept

\* a topic without empty chunks is kept as it is
LEMMA NamedFull ==
    ASSUME NEW S, NEW t \in Seq(S), Full(t)
    PROVE  Named(t) = t
<1> DEFINE T == {i \in 0..Len(t) : Kept(t)[i] # SubSeq(t, 1, i)}
<1>1. Len(t) \in Nat OBVIOUS
<1>2. ASSUME T # {} PROVE FALSE
  <2>1. T \in SUBSET Nat BY <1>1
  <2>2. PICK n \in T : \A k \in T : n <= k BY <1>2, <2>1, Least
  <2>3. CASE n = 0
    <3>1. SubSeq(t, 1, 0) = <<>> OBVIOUS
    <3> QED BY <2>2, <2>3, <3>1, KeptSteps
  <2>4. CASE n # 0
    <3>1. n \in 1..Len(t) /\ n - 1 \in 0..Len(t) /\ n - 1 \notin T
      BY <1>1, <2>2, <2>4
    <3>2. Kept(t)[n - 1] = SubSeq(t, 1, n - 1) BY <3>1
    <3>3. Kept(t)[n] = Append(Kept(t)[n - 1], t[n])
      BY <3>1, KeptSteps DEF Full
    <3>4. Append(SubSeq(t, 1, n - 1), t[n]) = SubSeq(t, 1, n) BY <3>1
    <3> QED BY <2>2, <3>2, <3>3, <3>4
  <2> QED BY <2>3, <2>4
<1>3. Kept(t)[Len(t)] = SubSeq(t, 1, Len(t)) BY <1>1, <1>2
<1>4. SubSeq(t, 1, Len(t)) = t OBVIOUS
<1> QED BY <1>3, <1>4, NamedIsKept

(* The named chunks of a concatenation are those of its parts, in order.   *)
LEMMA NamedConcat ==
    ASSUME NEW S, NEW s \in Seq(S), NEW t \in Seq(S)
    PROVE  Named(s \o t) = Named(s) \o Named(t)
<1> DEFINE u == s \o t
           A == {i \in 0..Len(s) : Kept(u)[i] # Kept(s)[i]}
           B == {i \in 0..Len(t) : Kept(u)[Len(s) + i] # Named(s) \o Kept(t)[i]}
<1>1. /\ u \in Seq(S) /\ Len(s) \in Nat /\ Len(t) \in Nat
      /\ Len(u) = Len(s) + Len(t)
      /\ \A i \in 1..Len(s) : u[i] = s[i]
      /\ \A i \in 1..Len(t) : u[Len(s) + i] = t[i]
  OBVIOUS
<1> HIDE DEF u
<1>2. ASSUME A # {} PROVE FALSE
  <2>1. A \in SUBSET Nat BY <1>1
  <2>2. PICK n \in A : \A k \in A : n <= k BY <1>2, <2>1, Least
  <2>3. n # 0 BY <1>1, <2>2, KeptSteps
  <2>4. /\ n \in 1..Len(s) /\ n \in 1..Len(u)
        /\ n - 1 \in 0..Len(s) /\ n - 1 \notin A
    BY <1>1, <2>2, <2>3
  <2>5. Kept(u)[n - 1] = Kept(s)[n - 1] /\ u[n] = s[n] BY <1>1, <2>4
  <2>6. Kept(u)[n] = Kept(s)[n] BY <1>1, <2>4, <2>5, KeptSteps, SMTT(30)
  <2> QED BY <2>2, <2>6
<1>3. Kept(u)[Len(s)] = Named(s)
  <2>1. Len(s) \in 0..Len(s) BY <1>1
  <2> QED BY <1>2, <2>1, NamedIsKept
<1>4. Named(s) \in Seq(S) BY NamedTypes
<1>a. \A v, w \in Seq(S) : \A x \in S : Append(v \o w, x) = v \o Append(w, x)
  <2> SUFFICES ASSUME NEW v \in Seq(S), NEW w \in Seq(S), NEW x \in S
               PROVE  Append(v \o w, x) = v \o Append(w, x)
    OBVIOUS
  <2>1. /\ Append(w, x) = w \o <<x>> /\ <<x>> \in Seq(S)
        /\ Append(v \o w, x) = (v \o w) \o <<x>>
    OBVIOUS
  <2> QED BY <2>1, ConcatAssociative, SMTT(30)
<1>5. ASSUME B # {} PROVE FALSE
  <2>1. B \in SUBSET Nat BY <1>1
  <2>2. PICK n \in B : \A k \in B : n <= k BY <1>5, <2>1, Least
  <2>3. CASE n = 0
    <3>1. Named(s) \o <<>> = Named(s) BY <1>4
    <3>2. Kept(t)[0] = <<>> /\ Len(s) + 0 = Len(s) BY <1>1, KeptSteps
    <3> QED BY <1>3, <2>2, <2>3, <3>1, <3>2
  <2>4. CASE n # 0
    <3>1. /\ n \in 1..Len(t) /\ Len(s) + n \in 1..Len(u)
          /\ (Len(s) + n) - 1 = Len(s) + (n - 1)
          /\ n - 1 \in 0..Len(t) /\ n - 1 \notin B
      BY <1>1, <2>2, <2>4, SMTT(30)
    <3>2. Kept(u)[Len(s) + (n - 1)] = Named(s) \o Kept(t)[n - 1] BY <3>1
    <3>3. u[Len(s) + n] = t[n] /\ t[n] \in S BY <1>1, <3>1, SMTT(30)
    <3>4. Kept(u)[Len(s) + n] =
            IF NonEmpty(t[n]) THEN Append(Named(s) \o Kept(t)[n - 1], t[n])
            ELSE Named(s) \o Kept(t)[n - 1]
      <4>1. Kept(u)[Len(s) + n] =
              IF NonEmpty(u[Len(s) + n])
              THEN Append(Kept(u)[(Len(s) + n) - 1], u[Len(s) + n])
              ELSE Kept(u)[(Len(s) + n) - 1]
        BY <1>1, <3>1, KeptSteps
      <4> QED BY <3>1, <3>2, <3>3, <4>1
    <3>5. Kept(t)[n] = IF NonEmpty(t[n]) THEN Append(Kept(t)[n - 1], t[n]) ELSE Kept(t)[n - 1]
      BY <3>1, KeptSteps
    <3>6. Kept(t)[n - 1] \in Seq(S) BY <3>1, KeptTypes
    <3>7. Append(Named(s) \o Kept(t)[n - 1], t[n])
            = Named(s) \o Append(Kept(t)[n - 1], t[n])
      <4> DEFINE k == Kept(t)[n - 1]
                 v == Named(s)
                 x == t[n]
      <4>1. v \in Seq(S) /\ k \in Seq(S) /\ x \in S BY <1>4, <3>3, <3>6
      <4> HIDE DEF k, v, x
      <4>2. Append(v \o k, x) = v \o Append(k, x) BY <1>a, <4>1, Zenon
      <4> QED BY <4>2 DEF k, v, x
    <3> QED BY <2>2, <3>4, <3>5, <3>7
  <2> QED BY <2>3, <2>4
<1>6. Kept(u)[Len(s) + Len(t)] = Named(s) \o Kept(t)[Len(t)]
  <2>1. Len(t) \in 0..Len(t) BY <1>1
  <2> QED BY <1>5, <2>1
<1> QED BY <1>1, <1>6, NamedIsKept DEF u

-----------------------------------------------------------------------------
(* prepare_topic                                                           *)

(* The named chunks of a single chunk.                                     *)
LEMMA NamedOne ==
    ASSUME NEW S, NEW e \in S, ~NonEmpty(e)
    PROVE  Named(<<e>>) = <<>>
<1>1. <<e>> \in Seq(S) /\ Len(<<e>>) = 1 /\ <<e>>[1] = e OBVIOUS
<1>2. 1 \in 1..Len(<<e>>) /\ 1 - 1 = 0 BY <1>1
<1>3. Kept(<<e>>)[1] = Kept(<<e>>)[0] BY <1>1, <1>2, KeptSteps
<1>4. Kept(<<e>>)[0] = <<>> BY <1>1, KeptSteps
<1> QED BY <1>1, <1>3, <1>4, NamedIsKept

(* A topic of three chunks or more is its first chunk, the inner ones and  *)
(* the last.                                                               *)
LEMMA Framed ==
    ASSUME NEW S, NEW a \in S, NEW n \in Seq(S), NEW z \in S, NEW q,
           q = <<a>> \o n \o <<z>>
    PROVE  /\ q \in Seq(S) /\ Len(q) = Len(n) + 2
           /\ q[1] = a /\ q[Len(q)] = z
           /\ \A i \in 2..(Len(q) - 1) : q[i] = n[i - 1]
  OBVIOUS

\* the empty chunks inside are gone, the ends and the named chunks are kept
LEMMA Squeezed ==
    ASSUME NEW S, NEW t \in Seq(S), t # <<>>
    PROVE  /\ Squeeze(t) \in Seq(S) /\ Squeeze(t) # <<>>
           /\ Squeeze(t)[1] = t[1]
           /\ Squeeze(t)[Len(Squeeze(t))] = t[Len(t)]
           /\ Len(t) > 1 => Len(Squeeze(t)) > 1
           /\ \A i \in 2..(Len(Squeeze(t)) - 1) : NonEmpty(Squeeze(t)[i])
           /\ Named(Squeeze(t)) = Named(t)
<1>1. Len(t) \in Nat /\ Len(t) >= 1 OBVIOUS
<1>2. CASE Len(t) <= 2
  <2>1. Squeeze(t) = t BY <1>2 DEF Squeeze
  <2> QED BY <1>1, <1>2, <2>1
<1>3. CASE Len(t) > 2
  <2> DEFINE h == <<Head(t)>>
             b == SubSeq(t, 2, Len(t) - 1)
             l == <<t[Len(t)]>>
             n == Named(b)
             q == h \o n \o l
  <2>1. /\ h \in Seq(S) /\ b \in Seq(S) /\ l \in Seq(S)
        /\ Len(h) = 1 /\ h[1] = t[1] /\ Len(l) = 1 /\ l[1] = t[Len(t)]
    BY <1>1, <1>3
  <2>2. t = h \o b \o l BY <1>1, <1>3
  <2>3. Squeeze(t) = q BY <1>1, <1>3 DEF Squeeze
  <2> HIDE DEF h, b, l
  <2>4. n \in Seq(S) /\ Full(n) BY <2>1, NamedTypes
  <2> HIDE DEF n
  <2>5. /\ q \in Seq(S) /\ Len(n) \in Nat /\ Len(q) = Len(n) + 2
        /\ q[1] = t[1] /\ q[Len(q)] = t[Len(t)]
        /\ \A i \in 2..(Len(q) - 1) : q[i] = n[i - 1]
    <3> DEFINE a == Head(t)
               z == t[Len(t)]
    <3>1. a \in S /\ z \in S /\ a = t[1] BY <1>1
    <3>2. q = <<a>> \o n \o <<z>> BY DEF h, l
    <3> HIDE DEF q, a, z
    <3>3. Len(n) \in Nat BY <2>4
    <3> QED BY <2>4, <3>1, <3>2, <3>3, Framed DEF z
  <2> HIDE DEF q
  <2>6. ASSUME NEW i \in 2..(Len(q) - 1) PROVE NonEmpty(q[i])
    <3>1. i - 1 \in 1..Len(n) /\ q[i] = n[i - 1] BY <2>5
    <3> QED BY <2>4, <3>1 DEF Full
  <2>7. Named(q) = Named(t)
    <3>1. Named(n) = n BY <2>4, NamedFull
    <3>2. h \o n \in Seq(S) /\ h \o b \in Seq(S) BY <2>1, <2>4
    <3>3. Named(q) = Named(h \o n) \o Named(l)
      BY <2>1, <3>2, NamedConcat DEF q
    <3>4. Named(h \o n) = Named(h) \o Named(n) BY <2>1, <2>4, NamedConcat
    <3>5. Named(t) = Named(h \o b) \o Named(l) BY <2>1, <2>2, <3>2, NamedConcat
    <3>6. Named(h \o b) = Named(h) \o Named(b) BY <2>1, NamedConcat
    <3> QED BY <3>1, <3>3, <3>4, <3>5, <3>6 DEF n
  <2> QED BY <1>3, <2>3, <2>4, <2>5, <2>6, <2>7
<1> QED BY <1>1, <1>2, <1>3

\* only the last chunk of a canonical topic may be empty
Canonical(t) == \A i \in 1..(Len(t) - 1) : NonEmpty(t[i])

(* prepare_topic leaves a canonical topic as it is.                        *)
LEMMA CanonicalStays ==
    ASSUME NEW S, NEW t \in Seq(S), t # <<>>, Canonical(t)
    PROVE  prepare_topic(t) = t
<1>1. Len(t) \in Nat /\ Len(t) >= 1 OBVIOUS
<1>2. Squeeze(t) = t
  <2>1. CASE Len(t) <= 2 BY <2>1 DEF Squeeze
  <2>2. CASE Len(t) > 2
    <3> DEFINE b == SubSeq(t, 2, Len(t) - 1)
    <3>1. b \in Seq(S) /\ Full(b) BY <1>1, <2>2 DEF Canonical, Full
    <3>2. Named(b) = b BY <3>1, NamedFull
    <3>3. t = <<Head(t)>> \o b \o <<t[Len(t)]>> BY <1>1, <2>2
    <3> HIDE DEF b
    <3>4. Squeeze(t) = <<Head(t)>> \o Named(b) \o <<t[Len(t)]>>
      BY <1>1, <2>2 DEF Squeeze, b
    <3> QED BY <3>2, <3>3, <3>4
  <2> QED BY <1>1, <2>1, <2>2
<1>3. StripLeading(t) = t
  <2>1. CASE Len(t) > 1
    <3>1. NonEmpty(t[1]) /\ Head(t) = t[1] BY <1>1, <2>1 DEF Canonical
    <3> QED BY <3>1 DEF StripLeading
  <2>2. CASE ~(Len(t) > 1) BY <2>2 DEF StripLeading
  <2> QED BY <2>1, <2>2
<1> QED BY <1>2, <1>3 DEF prepare_topic

(* prepare_topic keeps the named chunks and the last chunk and yields a    *)
(* canonical topic.                                                        *)
LEMMA PreparedTopic ==
    ASSUME NEW S, NEW t \in Seq(S), t # <<>>
    PROVE  /\ prepare_topic(t) \in Seq(S) /\ prepare_topic(t) # <<>>
           /\ Canonical(prepare_topic(t))
           /\ Named(prepare_topic(t)) = Named(t)
           /\ prepare_topic(t)[Len(prepare_topic(t))] = t[Len(t)]
<1> DEFINE q == Squeeze(t)
           r == prepare_topic(t)
<1>1. /\ q \in Seq(S) /\ q # <<>> /\ q[Len(q)] = t[Len(t)]
      /\ \A i \in 2..(Len(q) - 1) : NonEmpty(q[i])
      /\ Named(q) = Named(t)
  BY Squeezed
<1>2. Len(q) \in Nat /\ Len(q) >= 1 /\ Head(q) = q[1] BY <1>1
<1>3. r = StripLeading(q) BY DEF prepare_topic
<1> HIDE DEF q, r
<1>4. CASE Len(q) > 1 /\ ~NonEmpty(Head(q))
  <2>1. r = Tail(q) BY <1>3, <1>4 DEF StripLeading
  <2>2. /\ r \in Seq(S) /\ Len(r) = Len(q) - 1 /\ r # <<>>
        /\ \A i \in 1..Len(r) : r[i] = q[i + 1]
    BY <1>1, <1>2, <1>4, <2>1
  <2>3. Canonical(r)
    <3> SUFFICES ASSUME NEW i \in 1..(Len(r) - 1) PROVE NonEmpty(r[i])
      BY Zenon DEF Canonical
    <3>1. i \in 1..Len(r) /\ i + 1 \in 2..(Len(q) - 1) BY <1>2, <2>2
    <3> QED BY <1>1, <2>2, <3>1, Zenon
  <2>4. r[Len(r)] = t[Len(t)] BY <1>1, <1>2, <1>4, <2>2
  <2>5. Named(r) = Named(q)
    <3> DEFINE e == Head(q)
    <3>1. e \in S /\ <<e>> \in Seq(S) BY <1>1
    <3>2. q = <<e>> \o r BY <1>1, <1>2, <1>4, <2>1
    <3> HIDE DEF e
    <3>3. Named(q) = Named(<<e>>) \o Named(r) BY <2>2, <3>1, <3>2, NamedConcat
    <3>4. Named(<<e>>) = <<>> BY <1>4, <3>1, NamedOne DEF e
    <3>5. Named(r) \in Seq(S) BY <2>2, NamedTypes
    <3>6. <<>> \o Named(r) = Named(r) BY <3>5
    <3> QED BY <3>3, <3>4, <3>6
  <2> QED BY <1>1, <2>2, <2>3, <2>4, <2>5 DEF r
<1>5. CASE ~(Len(q) > 1 /\ ~NonEmpty(Head(q)))
  <2>1. r = q BY <1>3, <1>5 DEF StripLeading
  <2>2. Canonical(q)
    <3>1. Len(q) > 1 => NonEmpty(q[1]) BY <1>2, <1>5
    <3> QED BY <1>1, <1>2, <3>1 DEF Canonical
  <2> QED BY <1>1, <2>1, <2>2 DEF r
<1> QED BY <1>4, <1>5

-----------------------------------------------------------------------------
(* What a reader takes from a stream                                       *)

(* A part of a sequence that agrees with b is b.                           *)
LEMMA PartOfSeq ==
    ASSUME NEW q \in Seq(Nat), NEW b \in Seq(Nat), NEW k \in Nat,
           k + Len(b) <= Len(q), \A i \in 1..Len(b) : q[k + i] = b[i]
    PROVE  SubSeq(q, k + 1, k + Len(b)) = b
<1> DEFINE n == k + Len(b)
           p == SubSeq(q, k + 1, n)
<1>1. Len(q) \in Nat /\ Len(b) \in Nat OBVIOUS
<1>2. \A i \in (k + 1)..n : q[i] \in Nat BY <1>1
<1>3. k + 1 \in Int /\ n \in Int BY <1>1
<1>4. /\ p \in Seq(Nat)
      /\ Len(p) = IF k + 1 <= n THEN n - (k + 1) + 1 ELSE 0
      /\ \A i \in 1..(n - (k + 1) + 1) : p[i] = q[(k + 1) + i - 1]
  BY <1>2, <1>3, SubSeqProperties
<1> HIDE DEF p
<1>5. Len(p) = Len(b) BY <1>1, <1>4
<1>6. ASSUME NEW i \in 1..Len(p) PROVE p[i] = b[i]
  <2>1. i \in 1..Len(b) /\ i \in 1..(n - (k + 1) + 1) /\ (k + 1) + i - 1 = k + i
    BY <1>1, <1>5
  <2> QED BY <1>4, <2>1
<1>7. p = b BY <1>4, <1>5, <1>6, SeqEqual
<1> QED BY <1>7 DEF p

\* concatenation as an operator the provers do not look into
Bytes == Seq(Nat)
Cat(a, b) == a \o b
Zero == <<0>>

IsCat(q, a, b) ==
    /\ q \in Bytes
    /\ Len(a) \in Nat /\ Len(b) \in Nat /\ Len(q) = Len(a) + Len(b)
    /\ \A i \in 1..Len(a) : q[i] = a[i]
    /\ \A i \in 1..Len(b) : q[Len(a) + i] = b[i]

(* A concatenation has the elements of its parts.                          *)
LEMMA CatProperties == \A a, b \in Bytes : IsCat(Cat(a, b), a, b)
  BY DEF Bytes, Cat, IsCat

(* Concatenation is associative.                                           *)
LEMMA CatAssociative ==
    \A a, b, c \in Bytes : Cat(Cat(a, b), c) = Cat(a, Cat(b, c))
<1> SUFFICES ASSUME NEW a \in Bytes, NEW b \in Bytes, NEW c \in Bytes
             PROVE  Cat(Cat(a, b), c) = Cat(a, Cat(b, c))
  OBVIOUS
<1>1. (a \o b) \o c = a \o (b \o c) BY ConcatAssociative, SMTT(30) DEF Bytes
<1> QED BY <1>1 DEF Cat

(* Bytes followed by bytes are bytes.                                      *)
LEMMA CatTypes == \A a, b \in Bytes : Cat(a, b) \in Bytes
  BY CatProperties DEF IsCat

(* What follows the first part of a concatenation is the second.           *)
LEMMA FromCat == \A a, b \in Bytes : From(Cat(a, b), Len(a) + 1) = b
<1> SUFFICES ASSUME NEW a \in Bytes, NEW b \in Bytes
             PROVE  From(Cat(a, b), Len(a) + 1) = b
  OBVIOUS
<1> DEFINE q == Cat(a, b)
<1>1. /\ q \in Seq(Nat) /\ b \in Seq(Nat) /\ Len(a) \in Nat /\ Len(b) \in Nat
      /\ Len(q) = Len(a) + Len(b)
      /\ \A i \in 1..Len(b) : q[Len(a) + i] = b[i]
  BY CatProperties DEF Bytes, IsCat
<1> HIDE DEF q
<1>2. Len(a) + Len(b) <= Len(q) BY <1>1
<1>3. SubSeq(q, Len(a) + 1, Len(a) + Len(b)) = b BY <1>1, <1>2, PartOfSeq, Zenon
<1> QED BY <1>1, <1>3 DEF From, q

\* a text has no zero byte
IsText(t) == \A i \in 1..Len(t) : t[i] # 0

(* The zero byte.                                                          *)
LEMMA ZeroTypes == Zero \in Bytes /\ Len(Zero) = 1 /\ Zero[1] = 0
  BY DEF Zero, Bytes

(* A buffer is split behind the text that begins it.                       *)
LEMMA SplitAtText ==
    ASSUME NEW t \in Bytes, IsText(t), NEW d \in Bytes
    PROVE  /\ Zeros(Cat(Cat(t, Zero), d)) # {}
           /\ Before(Cat(Cat(t, Zero), d)) = t
           /\ After(Cat(Cat(t, Zero), d)) = d
<1> DEFINE a == Cat(t, Zero)
           q == Cat(a, d)
           z == Len(t) + 1
<1>0. IsCat(a, t, Zero) BY ZeroTypes, CatProperties, Zenon
<1> HIDE DEF a
<1>1. /\ a \in Bytes /\ Len(t) \in Nat /\ Len(a) = z
      /\ \A i \in 1..Len(t) : a[i] = t[i]
  BY <1>0, ZeroTypes DEF IsCat
<1>2. a[z] = 0
  <2>1. 1 \in 1..Len(Zero) BY ZeroTypes
  <2> QED BY <1>0, <2>1, ZeroTypes DEF IsCat
<1>i. IsCat(q, a, d) BY <1>1, CatProperties, Zenon
<1>3. /\ q \in Bytes /\ Len(q) \in Nat /\ Len(q) >= z
      /\ \A i \in 1..z : q[i] = a[i]
  <2> HIDE DEF q
  <2> QED BY <1>1, <1>i DEF IsCat
<1>4. From(q, z + 1) = d BY <1>1, FromCat
<1> HIDE DEF q
<1>5. z \in Zeros(q) /\ \A i \in Zeros(q) : z <= i
  <2>1. z \in 1..Len(q) /\ q[z] = 0 BY <1>1, <1>2, <1>3
  <2>2. ASSUME NEW i \in 1..Len(q), q[i] = 0 PROVE z <= i
    <3>1. Len(t) \in Nat /\ Len(q) \in Nat BY <1>1, <1>3
    <3>2. ASSUME i < z PROVE FALSE
      <4>1. i \in 1..Len(t) /\ i \in 1..z BY <3>1, <3>2
      <4>2. q[i] = a[i] /\ a[i] = t[i] BY <1>1, <1>3, <4>1
      <4> QED BY <2>2, <4>1, <4>2 DEF IsText
    <3> QED BY <3>1, <3>2
  <2> QED BY <2>1, <2>2 DEF Zeros
<1>6. FirstZero(q) = z
  <2>1. ASSUME NEW i \in Zeros(q), \A j \in Zeros(q) : i <= j PROVE i = z
    <3>1. i \in Nat /\ z \in Nat BY <1>1, <1>3 DEF Zeros
    <3>2. i <= z /\ z <= i BY <1>5, <2>1
    <3> QED BY <3>1, <3>2
  <2> QED BY <1>5, <2>1 DEF FirstZero
<1>7. Before(q) = SubSeq(q, 1, z - 1) BY <1>5, <1>6 DEF Before
<1>8. SubSeq(q, 1, z - 1) = t
  <2>1. q \in Seq(Nat) /\ t \in Seq(Nat) BY <1>3 DEF Bytes
  <2>2. ASSUME NEW i \in 1..Len(t) PROVE q[0 + i] = t[i]
    <3>1. i \in 1..z /\ 0 + i = i BY <1>1
    <3>2. q[i] = a[i] /\ a[i] = t[i] BY <1>1, <1>3, <3>1
    <3> QED BY <3>1, <3>2
  <2>3. 0 \in Nat /\ 0 + Len(t) <= Len(q) BY <1>1, <1>3
  <2>4. SubSeq(q, 0 + 1, 0 + Len(t)) = t BY <2>1, <2>2, <2>3, PartOfSeq, Zenon
  <2>5. 0 + 1 = 1 /\ 0 + Len(t) = z - 1 BY <1>1
  <2> QED BY <2>4, <2>5
<1>9. After(q) = From(q, z + 1) BY <1>6 DEF After
<1> QED BY <1>4, <1>5, <1>7, <1>8, <1>9 DEF q, a

(* A buffer that ends with its first zero byte.                            *)
LEMMA TextBeforeZero ==
    ASSUME NEW t \in Bytes, IsText(t)
    PROVE  Zeros(Cat(t, Zero)) # {} /\ Before(Cat(t, Zero)) = t
<1> DEFINE e == Cat(t, Zero)
<1>1. e \in Bytes BY ZeroTypes, CatTypes, Zenon
<1>2. <<>> \in Bytes /\ \A a \in Bytes : Cat(a, <<>>) = a BY DEF Bytes, Cat
<1>3. Zeros(Cat(e, <<>>)) # {} /\ Before(Cat(e, <<>>)) = t
  BY <1>2, SplitAtText, Zenon
<1> QED BY <1>1, <1>2, <1>3, Zenon

(* A frame within the limit is read to its last byte, and not beyond.      *)
LEMMA FrameReadBack ==
    ASSUME NEW b \in Bytes, NEW tail \in Bytes, NEW max \in Nat,
           Len(b) <= max
    PROVE  read_frame(Cat(Cat(<<Len(b)>>, b), tail), max) = <<b, tail>>
<1> DEFINE l == <<Len(b)>>
           h == Cat(l, b)
           q == Cat(h, tail)
<1>1. l \in Bytes /\ Len(l) = 1 /\ l[1] = Len(b) BY DEF Bytes
<1> HIDE DEF l
<1>i. IsCat(h, l, b) BY <1>1, CatProperties, Zenon
<1> HIDE DEF h
<1>2. /\ h \in Bytes /\ Len(b) \in Nat /\ Len(h) = 1 + Len(b)
      /\ h[1] = Len(b) /\ \A i \in 1..Len(b) : h[1 + i] = b[i]
  BY <1>1, <1>i DEF IsCat
<1>3. /\ q \in Bytes /\ Len(tail) \in Nat /\ Len(q) = Len(h) + Len(tail)
      /\ \A i \in 1..Len(h) : q[i] = h[i]
  BY <1>2, CatProperties, Zenon DEF IsCat
<1>4. From(q, 2 + Len(b)) = tail
  <2>1. From(q, Len(h) + 1) = tail BY <1>2, FromCat
  <2>2. Len(h) + 1 = 2 + Len(b) BY <1>2
  <2> QED BY <2>1, <2>2
<1> HIDE DEF q
<1>5. q[1] = Len(b) /\ Len(q) >= 1 + Len(b) BY <1>2, <1>3
<1>6. SubSeq(q, 2, 1 + Len(b)) = b
  <2>1. q \in Seq(Nat) /\ b \in Seq(Nat) BY <1>3 DEF Bytes
  <2>2. ASSUME NEW i \in 1..Len(b) PROVE q[1 + i] = b[i]
    <3>1. 1 + i \in 1..Len(h) BY <1>2
    <3> QED BY <1>2, <1>3, <3>1
  <2>3. 1 \in Nat /\ 1 + Len(b) <= Len(q) /\ 1 + 1 = 2 BY <1>2, <1>3, <1>5
  <2>4. SubSeq(q, 1 + 1, 1 + Len(b)) = b BY <2>1, <2>2, <2>3, PartOfSeq, Zenon
  <2> QED BY <2>3, <2>4
<1>7. ~(q = <<>> \/ q[1] > max \/ Len(q) < 1 + q[1])
  <2>1. q # <<>> BY <1>2, <1>5
  <2>2. ~(q[1] > max) /\ ~(Len(q) < 1 + q[1]) BY <1>2, <1>3, <1>5
  <2> QED BY <2>1, <2>2
<1>8. read_frame(q, max) = <<SubSeq(q, 2, 1 + q[1]), From(q, 2 + q[1])>>
  BY <1>7, Zenon DEF read_frame
<1> QED BY <1>4, <1>5, <1>6, <1>8 DEF q, h, l

\* s is two bytes and what follows them
IsHeaded(s, x, y, f) ==
    /\ s \in Bytes /\ Len(f) \in Nat /\ Len(s) = 2 + Len(f)
    /\ Head(s) = x /\ s[1] = x /\ s[2] = y
    /\ From(s, 3) = f

(* Two bytes before a buffer.                                              *)
LEMMA AfterTwoBytes ==
    ASSUME NEW x \in Nat, NEW y \in Nat, NEW f \in Bytes
    PROVE  IsHeaded(Cat(<<x, y>>, f), x, y, f)
<1> DEFINE h == <<x, y>>
           s == Cat(h, f)
<1>1. h \in Bytes /\ Len(h) = 2 /\ h[1] = x /\ h[2] = y BY DEF Bytes
<1> HIDE DEF h
<1>i. IsCat(s, h, f) BY <1>1, CatProperties, Zenon
<1>3. From(s, 3) = f
  <2>1. From(s, Len(h) + 1) = f BY <1>1, FromCat, Zenon
  <2>2. Len(h) + 1 = 3 BY <1>1
  <2> QED BY <2>1, <2>2, Zenon
<1> HIDE DEF s
<1>2. /\ s \in Bytes /\ Len(f) \in Nat /\ Len(s) = 2 + Len(f)
      /\ \A i \in 1..2 : s[i] = h[i]
  BY <1>1, <1>i DEF IsCat
<1>4. s[1] = x /\ s[2] = y BY <1>1, <1>2
<1>5. Head(s) = s[1] BY <1>2 DEF Bytes
<1> QED BY <1>2, <1>3, <1>4, <1>5 DEF IsHeaded, s, h


\* the parts of a frame, taken as its reader takes them
LEMMA Regrouped ==
    ASSUME NEW h \in Bytes, NEW l \in Bytes, NEW t \in Bytes, NEW z \in Bytes,
           NEW d \in Bytes, NEW tail \in Bytes
    PROVE  Cat(Cat(Cat(Cat(Cat(h, l), t), z), d), tail)
             = Cat(h, Cat(Cat(l, Cat(Cat(t, z), d)), tail))
<1> DEFINE g == Cat(h, l)
           e == Cat(t, z)
           b == Cat(e, d)
           f == Cat(l, b)
<1>1. g \in Bytes /\ e \in Bytes BY CatTypes, Zenon
<1>2. Cat(Cat(g, t), z) = Cat(g, e)
  <2> HIDE DEF g
  <2> QED BY <1>1, CatAssociative
<1> HIDE DEF e
<1>3. b \in Bytes BY <1>1, CatTypes, Zenon
<1>4. Cat(Cat(g, e), d) = Cat(g, b)
  <2> HIDE DEF g
  <2> QED BY <1>1, CatAssociative
<1> HIDE DEF b
<1>5. Cat(g, b) = Cat(h, f) BY <1>3, CatAssociative
<1>6. f \in Bytes BY <1>3, CatTypes, Zenon
<1> HIDE DEF f
<1>7. Cat(Cat(h, f), tail) = Cat(h, Cat(f, tail)) BY <1>6, CatAssociative
<1> QED BY <1>2, <1>4, <1>5, <1>7, Zenon DEF g, e, b, f

\* the head of a frame: two bytes and the length
LEMMA ThreeBytes ==
    ASSUME NEW x \in Nat, NEW y \in Nat, NEW n \in Nat
    PROVE  /\ <<x, y>> \in Bytes /\ <<n>> \in Bytes
           /\ <<x, y, n>> = Cat(<<x, y>>, <<n>>)
  BY DEF Bytes, Cat

\* a topic and a payload, as they stand in a frame
Buffer(t, d) == Cat(Cat(t, Zero), d)

(* The length of a topic and a payload in a frame.                         *)
LEMMA BufferTypes ==
    ASSUME NEW t \in Bytes, NEW d \in Bytes
    PROVE  /\ Buffer(t, d) \in Bytes /\ Len(t) \in Nat /\ Len(d) \in Nat
           /\ Len(Buffer(t, d)) = Len(t) + Len(d) + 1
<1>1. IsCat(Cat(t, Zero), t, Zero) BY CatProperties, ZeroTypes, Zenon
<1>2. Cat(t, Zero) \in Bytes /\ Len(Cat(t, Zero)) = Len(t) + 1 /\ Len(t) \in Nat
  BY <1>1, ZeroTypes DEF IsCat
<1>3. IsCat(Buffer(t, d), Cat(t, Zero), d) BY <1>2, CatProperties, Zenon DEF Buffer
<1> QED BY <1>2, <1>3 DEF IsCat

(* A frame of a topic and a payload, with the two bytes before it: what    *)
(* as_bytes and push_to_subscribers write.                                 *)
LEMMA BufferFramed ==
    ASSUME NEW x \in Nat, NEW y \in Nat, NEW t \in Bytes, NEW d \in Bytes,
           NEW tail \in Bytes, NEW n, n = Len(Buffer(t, d))
    PROVE  LET f == Cat(Cat(<<n>>, Buffer(t, d)), tail)
               s == <<x, y, n>> \o t \o <<0>> \o d \o tail
           IN  f \in Bytes /\ n < Len(f) /\ IsHeaded(s, x, y, f)
<1> DEFINE b == Buffer(t, d)
           h == <<x, y>>
           l == <<n>>
           f == Cat(Cat(l, b), tail)
           s == <<x, y, n>> \o t \o <<0>> \o d \o tail
<1>1. b \in Bytes /\ n \in Nat BY BufferTypes
<1>2. h \in Bytes /\ l \in Bytes /\ <<x, y, n>> = Cat(h, l) BY <1>1, ThreeBytes
<1>3. Len(l) = 1 OBVIOUS
<1>4. s = Cat(Cat(Cat(Cat(<<x, y, n>>, t), Zero), d), tail) BY Zenon DEF Cat, Zero
<1> HIDE DEF h, l
<1>5. s = Cat(h, f)
  <2>1. h \in Bytes /\ l \in Bytes /\ Zero \in Bytes BY <1>2, ZeroTypes
  <2>2. Cat(Cat(Cat(Cat(Cat(h, l), t), Zero), d), tail) = Cat(h, f)
    BY <2>1, Regrouped DEF Buffer
  <2> HIDE DEF s, f
  <2> QED BY <1>2, <1>4, <2>2, Zenon
<1> HIDE DEF b, s
<1>6. IsCat(Cat(l, b), l, b) /\ Cat(l, b) \in Bytes
  BY <1>1, <1>2, CatProperties, CatTypes, Zenon
<1>7. IsCat(f, Cat(l, b), tail) BY <1>6, CatProperties, Zenon
<1> HIDE DEF f
<1>8. f \in Bytes /\ n < Len(f)
  <2>1. Len(b) = n BY DEF b
  <2> QED BY <1>1, <1>3, <1>6, <1>7, <2>1 DEF IsCat
<1>9. IsHeaded(s, x, y, f) BY <1>5, <1>8, AfterTwoBytes, Zenon DEF h
<1> QED BY <1>8, <1>9, Zenon DEF f, s, l, b

(* A message is read back as it was pushed.                                *)
LEMMA MessageReadBack ==
    ASSUME NEW prio \in Nat, NEW t \in Bytes, IsText(t), NEW d \in Bytes,
           NEW tail \in Bytes
    PROVE  LET m == [prio |-> prio, topic |-> t, data |-> d] IN
           read_message(message_frame(m) \o tail) = <<<<m>>, tail>>
<1> DEFINE m == [prio |-> prio, topic |-> t, data |-> d]
           b == Buffer(t, d)
           n == Len(t) + Len(d) + 1
           f == Cat(Cat(<<n>>, b), tail)
           s == message_frame(m) \o tail
           r == read_frame(From(s, 3), Len(s))
<1>1. b \in Bytes /\ n = Len(b) /\ n \in Nat BY BufferTypes
<1>2. Zeros(b) # {} /\ Before(b) = t /\ After(b) = d BY SplitAtText, Zenon DEF Buffer
<1>3. s = <<RESPONSE_OK, prio, n>> \o t \o <<0>> \o d \o tail BY DEF message_frame
<1> HIDE DEF n, m, s
<1>4. f \in Bytes /\ n < Len(f) /\ IsHeaded(s, RESPONSE_OK, prio, f)
  <2>1. RESPONSE_OK \in Nat BY DEF RESPONSE_OK
  <2> HIDE DEF b
  <2> QED BY <1>1, <1>3, <2>1, BufferFramed, Zenon DEF b
<1> HIDE DEF b
<1>5. r = <<b, tail>>
  <2>1. Len(s) \in Nat /\ Len(b) <= Len(s) BY <1>1, <1>4 DEF IsHeaded
  <2>2. read_frame(f, Len(s)) = <<b, tail>> BY <1>1, <2>1, FrameReadBack, Zenon
  <2> HIDE DEF f
  <2> QED BY <1>4, <2>2, Zenon DEF IsHeaded
<1> HIDE DEF f, r
<1>6. r # Fail /\ r[1] = b /\ r[2] = tail BY <1>5 DEF Fail
<1>7. from_buf(b, prio) = m BY <1>2 DEF from_buf, m
<1>8. Head(s) # OP_NOP BY <1>4 DEF IsHeaded, OP_NOP, RESPONSE_OK
<1>9. read_message(s)
        = <<IF Zeros(r[1]) = {} THEN <<>> ELSE <<from_buf(r[1], s[2])>>, r[2]>>
  BY <1>4, <1>6, <1>8, Zenon DEF IsHeaded, read_message, r
<1> QED BY <1>2, <1>4, <1>6, <1>7, <1>9, Zenon DEF IsHeaded, m, s

-----------------------------------------------------------------------------
(* What is left of a packet that is cut                                    *)

Cut(q, n) == SubSeq(q, 1, n)

IsCut(c, q, n) ==
    /\ c \in Bytes /\ n \in Nat /\ Len(c) = n
    /\ \A i \in 1..n : c[i] = q[i]

(* A cut has the first elements of what was cut.                           *)
LEMMA CutProperties ==
    ASSUME NEW q \in Bytes, NEW n \in 0..Len(q)
    PROVE  IsCut(Cut(q, n), q, n)
<1>1. Len(q) \in Nat /\ n \in Nat /\ n <= Len(q) BY DEF Bytes
<1>2. \A i \in 1..n : q[i] \in Nat BY <1>1 DEF Bytes
<1> DEFINE c == SubSeq(q, 1, n)
<1>3. /\ c \in Seq(Nat) /\ Len(c) = IF 1 <= n THEN n - 1 + 1 ELSE 0
      /\ \A i \in 1..(n - 1 + 1) : c[i] = q[1 + i - 1]
  <2>1. 1 \in Int /\ n \in Int BY <1>1
  <2> QED BY <1>2, <2>1, SubSeqProperties
<1> HIDE DEF c
<1>4. \A i \in 1..n : 1 + i - 1 = i BY <1>1
<1>5. n - 1 + 1 = n /\ (~(1 <= n) => n = 0) BY <1>1
<1>6. IsCut(c, q, n) BY <1>1, <1>3, <1>4, <1>5 DEF IsCut, Bytes
<1> QED BY <1>6 DEF c, Cut

(* What has the first elements is the cut.                                 *)
LEMMA CutIs ==
    ASSUME NEW q \in Bytes, NEW n \in 0..Len(q), NEW c, IsCut(c, q, n)
    PROVE  Cut(q, n) = c
<1>1. IsCut(Cut(q, n), q, n) BY CutProperties
<1> DEFINE d == Cut(q, n)
<1> HIDE DEF d
<1>2. d \in Seq(Nat) /\ c \in Seq(Nat) /\ Len(d) = Len(c)
      /\ \A i \in 1..Len(d) : d[i] = c[i]
  BY <1>1 DEF IsCut, Bytes, d
<1>3. d = c BY <1>2, SeqEqual
<1> QED BY <1>3 DEF d

(* Cut at its end, everything is left.                                     *)
LEMMA CutNothing ==
    ASSUME NEW q \in Bytes
    PROVE  Cut(q, Len(q)) = q
<1>1. Len(q) \in Nat /\ Len(q) \in 0..Len(q) BY DEF Bytes
<1>2. IsCut(q, q, Len(q)) BY <1>1 DEF IsCut
<1> QED BY <1>1, <1>2, CutIs

(* A concatenation is cut in its first part or in its second.              *)
LEMMA CutCat ==
    ASSUME NEW a \in Bytes, NEW b \in Bytes, NEW n \in 0..(Len(a) + Len(b))
    PROVE  /\ n <= Len(a) => Cut(Cat(a, b), n) = Cut(a, n)
           /\ n >= Len(a) => Cut(Cat(a, b), n) = Cat(a, Cut(b, n - Len(a)))
<1> DEFINE q == Cat(a, b)
<1>1. IsCat(q, a, b) BY CatProperties, Zenon
<1> HIDE DEF q
<1>2. /\ q \in Bytes /\ Len(a) \in Nat /\ Len(b) \in Nat /\ n \in Nat
      /\ Len(q) = Len(a) + Len(b) /\ n \in 0..Len(q)
  BY <1>1 DEF IsCat
<1>3. ASSUME n <= Len(a) PROVE Cut(q, n) = Cut(a, n)
  <2> DEFINE c == Cut(a, n)
  <2>1. IsCut(c, a, n) BY <1>2, <1>3, CutProperties
  <2> HIDE DEF c
  <2>2. IsCut(c, q, n) BY <1>1, <1>2, <1>3, <2>1 DEF IsCut, IsCat
  <2> QED BY <1>2, <2>2, CutIs DEF c
<1>4. ASSUME n >= Len(a) PROVE Cut(q, n) = Cat(a, Cut(b, n - Len(a)))
  <2> DEFINE k == n - Len(a)
             d == Cut(b, k)
             c == Cat(a, d)
  <2>1. k \in Nat /\ k \in 0..Len(b) BY <1>2, <1>4
  <2>2. IsCut(d, b, k) BY <2>1, CutProperties, Zenon
  <2>3. d \in Bytes /\ Len(d) = k BY <2>2 DEF IsCut
  <2> HIDE DEF d
  <2>4. IsCat(c, a, d) BY <2>3, CatProperties, Zenon
  <2> HIDE DEF c
  <2>5. c \in Bytes /\ Len(c) = n BY <1>2, <2>1, <2>3, <2>4 DEF IsCat
  <2>6. ASSUME NEW i \in 1..n PROVE c[i] = q[i]
    <3>1. CASE i <= Len(a)
      <4>1. i \in 1..Len(a) BY <1>2, <3>1
      <4> QED BY <1>1, <2>4, <4>1 DEF IsCat
    <3>2. CASE i > Len(a)
      <4> DEFINE j == i - Len(a)
      <4>1. j \in 1..k /\ j \in 1..Len(b) /\ Len(a) + j = i BY <1>2, <2>1, <3>2
      <4> HIDE DEF j
      <4>2. c[Len(a) + j] = d[j] BY <2>3, <2>4, <4>1 DEF IsCat
      <4>3. d[j] = b[j] BY <2>2, <4>1 DEF IsCut
      <4>4. q[Len(a) + j] = b[j] BY <1>1, <4>1 DEF IsCat
      <4> QED BY <4>1, <4>2, <4>3, <4>4
    <3> QED BY <1>2, <3>1, <3>2
  <2>7. IsCut(c, q, n) BY <1>2, <2>5, <2>6 DEF IsCut
  <2> QED BY <1>2, <2>7, CutIs DEF c, d
<1> QED BY <1>3, <1>4 DEF q

(* A cut buffer has lost its first zero byte, or is split where the whole  *)
(* one is.                                                                 *)
LEMMA SplitCut ==
    ASSUME NEW a \in Bytes, IsText(a), NEW r \in Bytes,
           NEW k \in 0..(Len(a) + 1 + Len(r))
    PROVE  LET q == Cut(Cat(Cat(a, Zero), r), k) IN
           /\ k <= Len(a) => q = Cut(a, k) /\ Zeros(q) = {}
           /\ k > Len(a) => /\ Zeros(q) # {} /\ Before(q) = a
                            /\ After(q) = Cut(r, k - Len(a) - 1)
<1> DEFINE e == Cat(a, Zero)
           q == Cut(Cat(e, r), k)
<1>1. IsCat(e, a, Zero) BY ZeroTypes, CatProperties, Zenon
<1> HIDE DEF e
<1>2. /\ e \in Bytes /\ Len(a) \in Nat /\ Len(r) \in Nat /\ Len(e) = Len(a) + 1
      /\ k \in Nat /\ k \in 0..(Len(e) + Len(r))
  BY <1>1, ZeroTypes DEF IsCat, Bytes
<1>3. ASSUME k <= Len(a) PROVE q = Cut(a, k) /\ Zeros(q) = {}
  <2>1. q = Cut(e, k)
    <3>1. k <= Len(e) BY <1>2, <1>3
    <3> QED BY <1>2, <3>1, CutCat
  <2>2. Cut(e, k) = Cut(a, k)
    <3>1. k \in 0..(Len(a) + Len(Zero)) BY <1>2, <1>3, ZeroTypes
    <3> QED BY <1>3, <3>1, ZeroTypes, CutCat DEF e
  <2>3. IsCut(Cut(a, k), a, k) BY <1>2, <1>3, CutProperties
  <2> DEFINE c == Cut(a, k)
  <2> HIDE DEF c
  <2>4. Len(c) = k /\ \A i \in 1..k : c[i] # 0 BY <1>2, <1>3, <2>3 DEF IsCut, IsText, c
  <2>5. Zeros(c) = {} BY <2>4 DEF Zeros
  <2> QED BY <2>1, <2>2, <2>5 DEF c
<1>4. ASSUME k > Len(a)
      PROVE  /\ Zeros(q) # {} /\ Before(q) = a /\ After(q) = Cut(r, k - Len(a) - 1)
  <2> DEFINE d == Cut(r, k - Len(e))
  <2>1. k >= Len(e) /\ k - Len(e) \in 0..Len(r) /\ k - Len(e) = k - Len(a) - 1
    BY <1>2, <1>4
  <2>2. q = Cat(e, d) BY <1>2, <2>1, CutCat
  <2>3. d \in Bytes BY <2>1, CutProperties DEF IsCut
  <2> HIDE DEF d, q
  <2>4. /\ Zeros(Cat(e, d)) # {} /\ Before(Cat(e, d)) = a /\ After(Cat(e, d)) = d
    BY <2>3, SplitAtText, Zenon DEF e
  <2> QED BY <2>1, <2>2, <2>4 DEF d
<1> QED BY <1>3, <1>4 DEF q, e

-----------------------------------------------------------------------------
(* UDP packets                                                             *)

UdpOps == {OP_PUBLISH, OP_PUBLISH_NO_ACK}

\* what the first m bytes of a block are taken for
BlockOf(op, prio, t, d, m) ==
    IF m < 3 \/ op \notin UdpOps THEN Refused(FALSE)
    ELSE IF m < 3 + Len(t) THEN Refused(op = OP_PUBLISH)
    ELSE [op |-> op, prio |-> prio, topic |-> t, data |-> Cut(d, m - 3 - Len(t))]

(* The four outcomes of reading a block.                                   *)
LEMMA BlockCases ==
    ASSUME NEW s
    PROVE  /\ Len(Before(s)) < 3 => read_block(s) = Refused(FALSE)
           /\ Before(s)[1] \notin UdpOps => read_block(s) = Refused(FALSE)
           /\ ~(Len(Before(s)) < 3) /\ Before(s)[1] \in UdpOps /\ Zeros(s) = {}
                => read_block(s) = Refused(Before(s)[1] = OP_PUBLISH)
           /\ ~(Len(Before(s)) < 3) /\ Before(s)[1] \in UdpOps /\ Zeros(s) # {}
                => read_block(s) = [op |-> Before(s)[1], prio |-> Before(s)[2],
                                    topic |-> From(Before(s), 3), data |-> After(s)]
<1> DEFINE h == Before(s)
           short == Len(h) < 3
           foreign == h[1] \notin UdpOps
           bare == Zeros(s) = {}
           ack == Refused(h[1] = OP_PUBLISH)
           block == [op |-> h[1], prio |-> h[2], topic |-> From(h, 3), data |-> After(s)]
<1>1. read_block(s) = IF short \/ foreign THEN Refused(FALSE) ELSE IF bare THEN ack ELSE block
  BY Zenon DEF read_block, UdpOps
<1>2. foreign <=> ~(h[1] \in UdpOps) OBVIOUS
<1> HIDE DEF short, foreign, bare, ack, block
<1>3. /\ short => read_block(s) = Refused(FALSE)
      /\ foreign => read_block(s) = Refused(FALSE)
      /\ ~short /\ ~foreign /\ bare => read_block(s) = ack
      /\ ~short /\ ~foreign /\ ~bare => read_block(s) = block
  BY <1>1, Zenon
<1> QED BY <1>2, <1>3, Zenon DEF short, foreign, bare, ack, block

(* A block is read as far as it goes.                                      *)
LEMMA BlockRead ==
    ASSUME NEW op \in Nat \ {0}, NEW prio \in Nat \ {0},
           NEW t \in Bytes, IsText(t), Len(t) > 0, NEW d \in Bytes,
           NEW m \in 0..(3 + Len(t) + Len(d))
    PROVE  read_block(Cut(Cat(Cat(Cat(<<op, prio>>, t), Zero), d), m))
             = BlockOf(op, prio, t, d, m)
<1> DEFINE u == Cat(<<op, prio>>, t)
           s == Cut(Cat(Cat(u, Zero), d), m)
<1> SUFFICES read_block(s) = BlockOf(op, prio, t, d, m) OBVIOUS
<1>1. IsHeaded(u, op, prio, t)
  <2>1. op \in Nat /\ prio \in Nat OBVIOUS
  <2> QED BY <2>1, AfterTwoBytes, Zenon
<1> HIDE DEF u
<1>2. /\ u \in Bytes /\ Len(t) \in Nat /\ Len(d) \in Nat /\ Len(u) = 2 + Len(t)
      /\ m \in Nat /\ m \in 0..(Len(u) + 1 + Len(d))
  BY <1>1 DEF IsHeaded, Bytes
<1>3. IsText(u)
  <2> SUFFICES ASSUME NEW i \in 1..Len(u) PROVE u[i] # 0 BY DEF IsText
  <2>1. CASE i \in 1..2 BY <1>1, <2>1 DEF IsHeaded
  <2>2. CASE ~(i \in 1..2)
    <3>1. i - 2 \in 1..Len(t) BY <1>1, <2>2 DEF IsHeaded
    <3>2. u[i] = t[i - 2]
      <4>1. From(u, 3)[i - 2] = u[i] BY <1>1, <1>2, <3>1 DEF IsHeaded, From, Bytes
      <4> QED BY <1>1, <4>1 DEF IsHeaded
    <3> QED BY <3>1, <3>2 DEF IsText
  <2> QED BY <2>1, <2>2
<1>4. /\ m <= Len(u) => s = Cut(u, m) /\ Zeros(s) = {}
      /\ m > Len(u) => /\ Zeros(s) # {} /\ Before(s) = u
                       /\ After(s) = Cut(d, m - Len(u) - 1)
  BY <1>2, <1>3, SplitCut, Zenon
<1> HIDE DEF s
<1>5. CASE m <= Len(u)
  <2>1. s = Cut(u, m) /\ Zeros(s) = {} /\ Before(s) = s BY <1>4, <1>5 DEF Before
  <2>2. IsCut(s, u, m) BY <1>2, <1>5, <2>1, CutProperties
  <2>3. Len(Before(s)) = m /\ (m >= 3 => Before(s)[1] = op)
    BY <1>1, <1>2, <2>1, <2>2 DEF IsCut, IsHeaded
  <2>4. m < 3 + Len(t) BY <1>2, <1>5
  <2>5. CASE m < 3
    <3>1. Len(Before(s)) < 3 BY <2>3, <2>5, Zenon
    <3>2. read_block(s) = Refused(FALSE) BY <3>1, BlockCases, Zenon
    <3>3. BlockOf(op, prio, t, d, m) = Refused(FALSE) BY <2>5, Zenon DEF BlockOf
    <3> QED BY <3>2, <3>3, Zenon
  <2>6. CASE ~(m < 3)
    <3>1. Before(s)[1] = op /\ ~(Len(Before(s)) < 3) BY <1>2, <2>3, <2>6
    <3>2. CASE op \notin UdpOps
      <4>1. read_block(s) = Refused(FALSE) BY <3>1, <3>2, BlockCases, Zenon
      <4>2. BlockOf(op, prio, t, d, m) = Refused(FALSE) BY <3>2, Zenon DEF BlockOf
      <4> QED BY <4>1, <4>2, Zenon
    <3>3. CASE op \in UdpOps
      <4>1. Before(s)[1] \in UdpOps BY <3>1, <3>3, Zenon
      <4>2. read_block(s) = Refused(Before(s)[1] = OP_PUBLISH)
        BY <2>1, <3>1, <4>1, BlockCases, Zenon
      <4>3. BlockOf(op, prio, t, d, m) = Refused(op = OP_PUBLISH)
        BY <2>4, <2>6, <3>3, Zenon DEF BlockOf
      <4> QED BY <3>1, <4>2, <4>3, Zenon
    <3> QED BY <3>2, <3>3, Zenon
  <2> QED BY <2>5, <2>6, Zenon
<1>6. CASE m > Len(u)
  <2>1. Zeros(s) # {} /\ Before(s) = u /\ After(s) = Cut(d, m - Len(u) - 1)
    BY <1>4, <1>6
  <2>2. u[1] = op /\ u[2] = prio /\ From(u, 3) = t BY <1>1 DEF IsHeaded
  <2>3. ~(m < 3) /\ ~(m < 3 + Len(t)) /\ m - Len(u) - 1 = m - 3 - Len(t)
    BY <1>2, <1>6
  <2>4. ~(Len(u) < 3) BY <1>2
  <2>5. Cut(d, m - Len(u) - 1) = Cut(d, m - 3 - Len(t)) BY <2>3, Zenon
  <2> DEFINE whole == [op |-> op, prio |-> prio, topic |-> t,
                       data |-> Cut(d, m - 3 - Len(t))]
  <2>6. BlockOf(op, prio, t, d, m) = IF op \notin UdpOps THEN Refused(FALSE) ELSE whole
    BY <2>3, Zenon DEF BlockOf
  <2>7. CASE op \notin UdpOps
    <3>1. Before(s)[1] \notin UdpOps BY <2>1, <2>2, <2>7, Zenon
    <3>2. read_block(s) = Refused(FALSE) BY <3>1, BlockCases, Zenon
    <3>3. BlockOf(op, prio, t, d, m) = Refused(FALSE) BY <2>6, <2>7, Zenon
    <3> QED BY <3>2, <3>3, Zenon
  <2>8. CASE op \in UdpOps
    <3>1. ~(Len(Before(s)) < 3) /\ Before(s)[1] \in UdpOps
      BY <2>1, <2>2, <2>4, <2>8, Zenon
    <3>2. read_block(s) = [op |-> Before(s)[1], prio |-> Before(s)[2],
                           topic |-> From(Before(s), 3), data |-> After(s)]
      BY <2>1, <3>1, BlockCases, Zenon
    <3>3. read_block(s) = whole BY <2>1, <2>2, <2>5, <3>2, Zenon
    <3>4. BlockOf(op, prio, t, d, m) = whole BY <2>6, <2>8, Zenon
    <3> QED BY <3>3, <3>4, Zenon
  <2> QED BY <2>7, <2>8, Zenon
<1> QED BY <1>2, <1>5, <1>6

(* A text that is ended by a zero byte and followed by more.               *)
LEMMA Ended ==
    ASSUME NEW a \in Bytes, NEW b \in Bytes
    PROVE  /\ Cat(Cat(a, Zero), b) \in Bytes
           /\ Len(Cat(Cat(a, Zero), b)) = Len(a) + 1 + Len(b)
<1> DEFINE e == Cat(a, Zero)
<1>1. IsCat(e, a, Zero) BY ZeroTypes, CatProperties, Zenon
<1> HIDE DEF e
<1>2. e \in Bytes /\ Len(e) = Len(a) + 1 /\ Len(a) \in Nat
  BY <1>1, ZeroTypes DEF IsCat
<1>3. IsCat(Cat(e, b), e, b) BY <1>2, CatProperties, Zenon
<1> DEFINE q == Cat(e, b)
<1> HIDE DEF q
<1>4. q \in Bytes /\ Len(q) = Len(a) + 1 + Len(b) BY <1>2, <1>3 DEF IsCat, q
<1> QED BY <1>4 DEF q, e

(* The preamble is five bytes, and valid as far as it goes.                *)
LEMMA PreambleIs ==
    ASSUME NEW auth \in {AUTH_LOGIN_PASS, AUTH_KEY_AES256_GCM}
    PROVE  LET h == preamble(auth) IN
           /\ h \in Bytes /\ Len(h) = 5 /\ h[5] = auth
           /\ <<h[1], h[2]>> = CONTROL_HEADER /\ <<h[3], h[4]>> = PROTOCOL_VERSION
<1>1. auth \in Nat BY DEF AUTH_LOGIN_PASS, AUTH_KEY_AES256_GCM
<1> DEFINE a == <<238, 170>>
           b == <<1, 0>>
           c == <<auth>>
           d == Cat(a, b)
           h == Cat(d, c)
<1>2. /\ a \in Bytes /\ Len(a) = 2 /\ a[1] = 238 /\ a[2] = 170
      /\ b \in Bytes /\ Len(b) = 2 /\ b[1] = 1 /\ b[2] = 0
      /\ c \in Bytes /\ Len(c) = 1 /\ c[1] = auth
  BY <1>1 DEF Bytes
<1>3. preamble(auth) = h
  BY Zenon DEF preamble, Cat, CONTROL_HEADER, PROTOCOL_VERSION
<1>4. CONTROL_HEADER = <<238, 170>> /\ PROTOCOL_VERSION = <<1, 0>>
  BY Zenon DEF CONTROL_HEADER, PROTOCOL_VERSION
<1> HIDE DEF a, b, c
<1>5. IsCat(d, a, b) BY <1>2, CatProperties, Zenon
<1> HIDE DEF d
<1>6. d \in Bytes /\ Len(d) = 4 /\ d[1] = 238 /\ d[2] = 170 /\ d[3] = 1 /\ d[4] = 0
  BY <1>2, <1>5 DEF IsCat
<1>7. IsCat(h, d, c) BY <1>2, <1>6, CatProperties, Zenon
<1> HIDE DEF h
<1>8. /\ h \in Bytes /\ Len(h) = 5 /\ h[5] = auth
      /\ h[1] = 238 /\ h[2] = 170 /\ h[3] = 1 /\ h[4] = 0
  BY <1>2, <1>6, <1>7 DEF IsCat
<1>9. <<h[1], h[2]>> = <<238, 170>> /\ <<h[3], h[4]>> = <<1, 0>> BY <1>8, Zenon
<1> QED BY <1>3, <1>4, <1>8, <1>9, Zenon

(* What stands behind the preamble of a packet that is cut.                *)
LEMMA PreambleCut ==
    ASSUME NEW auth \in {AUTH_LOGIN_PASS, AUTH_KEY_AES256_GCM}, NEW r \in Bytes,
           NEW n \in 0..(5 + Len(r))
    PROVE  LET c == Cut(Cat(preamble(auth), r), n) IN
           /\ n < 5 => ~ValidPreamble(c)
           /\ n >= 5 => /\ ValidPreamble(c) /\ c[5] = auth
                        /\ From(c, 6) = Cut(r, n - 5)
<1> DEFINE h == preamble(auth)
           q == Cat(h, r)
           c == Cut(q, n)
<1>1. /\ h \in Bytes /\ Len(h) = 5 /\ h[5] = auth
      /\ <<h[1], h[2]>> = CONTROL_HEADER /\ <<h[3], h[4]>> = PROTOCOL_VERSION
  BY PreambleIs
<1> HIDE DEF h
<1>2. Len(r) \in Nat /\ n \in Nat /\ n \in 0..(Len(h) + Len(r)) BY <1>1 DEF Bytes
<1>3. q \in Bytes /\ Len(q) = Len(h) + Len(r)
  BY <1>1, CatProperties, Zenon DEF IsCat
<1>4. IsCut(c, q, n)
  <2> HIDE DEF q
  <2> QED BY <1>2, <1>3, CutProperties
<1>5. ASSUME n < 5 PROVE ~ValidPreamble(c)
  <2> HIDE DEF c
  <2> QED BY <1>2, <1>4, <1>5 DEF IsCut, ValidPreamble
<1>6. ASSUME n >= 5
      PROVE  ValidPreamble(c) /\ c[5] = auth /\ From(c, 6) = Cut(r, n - 5)
  <2> DEFINE d == Cut(r, n - 5)
  <2>1. n - 5 \in 0..Len(r) /\ n >= Len(h) /\ n - Len(h) = n - 5 BY <1>1, <1>2, <1>6
  <2>2. c = Cat(h, d) BY <1>1, <1>2, <2>1, CutCat
  <2>3. d \in Bytes BY <2>1, CutProperties DEF IsCut
  <2> HIDE DEF d, c
  <2>4. IsCat(c, h, d) BY <1>1, <2>2, <2>3, CatProperties, Zenon
  <2>5. Len(c) >= 5 /\ \A i \in 1..5 : c[i] = h[i] BY <1>1, <2>4 DEF IsCat
  <2>6. From(c, 6) = d
    <3>1. From(c, Len(h) + 1) = d BY <1>1, <2>2, <2>3, FromCat, Zenon
    <3>2. Len(h) + 1 = 6 BY <1>1
    <3> QED BY <3>1, <3>2, Zenon
  <2>7. c[1] = h[1] /\ c[2] = h[2] /\ c[3] = h[3] /\ c[4] = h[4] /\ c[5] = h[5]
    BY <2>5
  <2>8. ValidPreamble(c) BY <1>1, <2>5, <2>7, Zenon DEF ValidPreamble
  <2> QED BY <1>1, <2>6, <2>7, <2>8 DEF d
<1> QED BY <1>5, <1>6 DEF c, q, h

\* what a packet is taken for, given who sends it and its block
Read(who, block) ==
    IF block \in {Refused(TRUE), Refused(FALSE)} THEN block
    ELSE [who |-> who, block |-> block]

\* what a block, and a packet, of op, a topic and a payload should be taken for
Content(op, t, d) == [op |-> op, prio |-> DEFAULT_PRIORITY, topic |-> t, data |-> d]

Whole(op, who, t, d) == [who |-> who, block |-> Content(op, t, d)]

(* A block that was read is no error.                                      *)
LEMMA NotRefused ==
    ASSUME NEW who, NEW op, NEW t, NEW d
    PROVE  Read(who, Content(op, t, d)) = Whole(op, who, t, d)
<1> DEFINE block == Content(op, t, d)
<1>1. ASSUME NEW b PROVE block # Refused(b)
  <2>1. "op" \in DOMAIN block /\ "op" \notin DOMAIN Refused(b) BY DEF Refused, Content
  <2> QED BY <2>1
<1>2. block \notin {Refused(TRUE), Refused(FALSE)} BY <1>1, Zenon
<1>3. Read(who, block) = [who |-> who, block |-> block] BY <1>2, Zenon DEF Read
<1> QED BY <1>3, Zenon DEF Whole

(* An error stays one.                                                     *)
LEMMA RefusedStays ==
    ASSUME NEW who, NEW b \in BOOLEAN
    PROVE  Read(who, Refused(b)) = Refused(b)
<1>1. Refused(b) \in {Refused(TRUE), Refused(FALSE)}
  <2>1. b = TRUE \/ b = FALSE BY Zenon
  <2> QED BY <2>1, Zenon
<1> QED BY <1>1, Zenon DEF Read

\* what the first n bytes of a plain packet are taken for
PlainOf(op, login, secret, t, d, n) ==
    LET m == n - 7 - Len(login) - Len(secret) IN
    IF m < 0 THEN Refused(FALSE)
    ELSE Read(<<login, secret>>, BlockOf(op, DEFAULT_PRIORITY, t, d, m))

\* a block, as a packet holds it
Block(op, t, d) == Cat(Cat(Cat(<<op, DEFAULT_PRIORITY>>, t), Zero), d)

\* a packet without a seal
Unsealed(clear) == [clear |-> clear, sealed |-> <<>>]

\* a plain packet, and its size
Plain(op, login, secret, t, d) ==
    Cat(preamble(AUTH_LOGIN_PASS),
        Cat(Cat(login, Zero), Cat(Cat(secret, Zero), Block(op, t, d))))

PlainSize(login, secret, t, d) == 10 + Len(login) + Len(secret) + Len(t) + Len(d)

\* what a packet is made of
UdpTexts(op, login, secret, t, d) ==
    /\ op \in Nat \ {0}
    /\ login \in Bytes /\ IsText(login) /\ secret \in Bytes /\ IsText(secret)
    /\ t \in Bytes /\ IsText(t) /\ Len(t) > 0 /\ d \in Bytes

\* the first n bytes of a plain packet are taken for what they are
ReadAsFar(op, login, secret, t, d, n, key) ==
    /\ Plain(op, login, secret, t, d) \in Bytes
    /\ Len(Plain(op, login, secret, t, d)) = PlainSize(login, secret, t, d)
    /\ read_packet(Unsealed(Cut(Plain(op, login, secret, t, d), n)), key)
         = PlainOf(op, login, secret, t, d, n)

(* A plain packet is read as far as it goes.                               *)
LEMMA PlainRead ==
    ASSUME NEW op, NEW login, NEW secret, NEW t, NEW d,
           UdpTexts(op, login, secret, t, d),
           NEW n \in 0..PlainSize(login, secret, t, d), NEW key
    PROVE  ReadAsFar(op, login, secret, t, d, n, key)
<1> USE DEF UdpTexts
<1> DEFINE s == Cat(Cat(Cat(<<op, DEFAULT_PRIORITY>>, t), Zero), d)
           y == Cat(Cat(secret, Zero), s)
           x == Cat(Cat(login, Zero), y)
           h == preamble(AUTH_LOGIN_PASS)
           c == Cat(h, x)
           f == [clear |-> Cut(c, n), sealed |-> <<>>]
<1> SUFFICES /\ c \in Bytes
             /\ Len(c) = 10 + Len(login) + Len(secret) + Len(t) + Len(d)
             /\ read_packet(f, key) = PlainOf(op, login, secret, t, d, n)
  BY Zenon DEF ReadAsFar, Plain, PlainSize, Block, Unsealed
<1>0. n \in 0..(10 + Len(login) + Len(secret) + Len(t) + Len(d)) BY DEF PlainSize
<1> USE <1>0
<1>1. /\ Len(login) \in Nat /\ Len(secret) \in Nat /\ Len(t) \in Nat
      /\ Len(d) \in Nat /\ n \in Nat
  BY DEF Bytes
<1>2. DEFAULT_PRIORITY \in Nat \ {0} BY DEF DEFAULT_PRIORITY
<1>3. s \in Bytes /\ Len(s) = 3 + Len(t) + Len(d)
  <2> DEFINE u == Cat(<<op, DEFAULT_PRIORITY>>, t)
  <2>1. op \in Nat /\ DEFAULT_PRIORITY \in Nat BY <1>2
  <2>2. u \in Bytes /\ Len(u) = 2 + Len(t)
    BY <2>1, AfterTwoBytes, Zenon DEF IsHeaded
  <2> HIDE DEF u
  <2>3. s \in Bytes /\ Len(s) = Len(u) + 1 + Len(d) BY <2>2, Ended, Zenon DEF u
  <2> HIDE DEF s
  <2> QED BY <1>1, <2>2, <2>3
<1>4. \A m \in 0..(3 + Len(t) + Len(d)) :
        read_block(Cut(s, m)) = BlockOf(op, DEFAULT_PRIORITY, t, d, m)
  BY <1>2, BlockRead, Zenon
<1> HIDE DEF s
<1>5. y \in Bytes /\ Len(y) = Len(secret) + 4 + Len(t) + Len(d)
  <2>1. y \in Bytes /\ Len(y) = Len(secret) + 1 + Len(s) BY <1>3, Ended, Zenon
  <2> HIDE DEF y
  <2> QED BY <1>1, <1>3, <2>1
<1>6. \A k \in 0..(Len(secret) + 1 + Len(s)) :
        /\ k <= Len(secret) => Zeros(Cut(y, k)) = {}
        /\ k > Len(secret) => /\ Zeros(Cut(y, k)) # {} /\ Before(Cut(y, k)) = secret
                              /\ After(Cut(y, k)) = Cut(s, k - Len(secret) - 1)
  BY <1>3, SplitCut, Zenon
<1> HIDE DEF y
<1>7. x \in Bytes /\ Len(x) = Len(login) + 1 + Len(y) BY <1>5, Ended, Zenon
<1>8. \A k \in 0..(Len(login) + 1 + Len(y)) :
        /\ k <= Len(login) => Zeros(Cut(x, k)) = {}
        /\ k > Len(login) => /\ Zeros(Cut(x, k)) # {} /\ Before(Cut(x, k)) = login
                             /\ After(Cut(x, k)) = Cut(y, k - Len(login) - 1)
  BY <1>5, SplitCut, Zenon
<1> HIDE DEF x
<1>9. h \in Bytes /\ Len(h) = 5 BY PreambleIs
<1>10. c \in Bytes /\ Len(c) = 10 + Len(login) + Len(secret) + Len(t) + Len(d)
  <2>1. IsCat(c, h, x) BY <1>7, <1>9, CatProperties, Zenon
  <2> HIDE DEF c
  <2> QED BY <1>1, <1>5, <1>7, <1>9, <2>1 DEF IsCat
<1>11. /\ n < 5 => ~ValidPreamble(Cut(c, n))
       /\ n >= 5 => /\ ValidPreamble(Cut(c, n)) /\ Cut(c, n)[5] = AUTH_LOGIN_PASS
                    /\ From(Cut(c, n), 6) = Cut(x, n - 5)
  <2>1. n \in 0..(5 + Len(x)) BY <1>1, <1>5, <1>7
  <2>2. AUTH_LOGIN_PASS \in {AUTH_LOGIN_PASS, AUTH_KEY_AES256_GCM} OBVIOUS
  <2> QED BY <1>7, <2>1, <2>2, PreambleCut, Zenon
<1> HIDE DEF c, h
<1>12. f.clear = Cut(c, n) OBVIOUS
<1> HIDE DEF f
<1> DEFINE m == n - 7 - Len(login) - Len(secret)
<1>13. ASSUME m < 0 PROVE read_packet(f, key) = Refused(FALSE)
  <2>1. CASE n < 5 BY <1>11, <1>12, <2>1, Zenon DEF read_packet
  <2>2. CASE n >= 5 /\ n - 5 <= Len(login)
    <3>1. n - 5 \in 0..(Len(login) + 1 + Len(y)) BY <1>1, <1>5, <2>2
    <3>2. Zeros(From(f.clear, 6)) = {} BY <1>8, <1>11, <1>12, <2>2, <3>1
    <3> QED BY <3>2, Zenon DEF read_packet
  <2>3. CASE n >= 5 /\ n - 5 > Len(login)
    <3> DEFINE k == n - 5 - Len(login) - 1
    <3>1. /\ n - 5 \in 0..(Len(login) + 1 + Len(y)) /\ k <= Len(secret)
          /\ k \in 0..(Len(secret) + 1 + Len(s))
      BY <1>1, <1>3, <1>5, <1>13, <2>3
    <3>2. /\ Zeros(From(f.clear, 6)) # {} /\ After(From(f.clear, 6)) = Cut(y, k)
      BY <1>8, <1>11, <1>12, <2>3, <3>1
    <3>3. Zeros(Cut(y, k)) = {} BY <1>6, <3>1
    <3>4. f.clear[5] = AUTH_LOGIN_PASS BY <1>11, <1>12, <2>3
    <3> QED BY <3>2, <3>3, <3>4, Zenon DEF read_packet
  <2>4. n < 5 \/ (n >= 5 /\ n - 5 <= Len(login)) \/ (n >= 5 /\ n - 5 > Len(login))
    BY <1>1
  <2> QED BY <2>1, <2>2, <2>3, <2>4, Zenon
<1>14. ASSUME ~(m < 0)
       PROVE  read_packet(f, key)
                = Read(<<login, secret>>, BlockOf(op, DEFAULT_PRIORITY, t, d, m))
  <2> DEFINE k == n - 5 - Len(login) - 1
  <2>1. /\ n >= 5 /\ n - 5 \in 0..(Len(login) + 1 + Len(y)) /\ n - 5 > Len(login)
        /\ k > Len(secret) /\ k \in 0..(Len(secret) + 1 + Len(s))
        /\ k - Len(secret) - 1 = m /\ m \in 0..(3 + Len(t) + Len(d))
    BY <1>1, <1>3, <1>5, <1>14
  <2>2. /\ ValidPreamble(f.clear) /\ f.clear[5] = AUTH_LOGIN_PASS
        /\ From(f.clear, 6) = Cut(x, n - 5)
    BY <1>11, <1>12, <2>1
  <2>3. /\ Zeros(From(f.clear, 6)) # {} /\ Before(From(f.clear, 6)) = login
        /\ After(From(f.clear, 6)) = Cut(y, k)
    BY <1>8, <2>1, <2>2
  <2>4. Zeros(Cut(y, k)) # {} /\ Before(Cut(y, k)) = secret /\ After(Cut(y, k)) = Cut(s, m)
    BY <1>6, <2>1
  <2>5. read_block(Cut(s, m)) = BlockOf(op, DEFAULT_PRIORITY, t, d, m) BY <1>4, <2>1
  <2> HIDE DEF m, k
  <2> QED BY <2>2, <2>3, <2>4, <2>5, Zenon DEF read_packet, Read
<1>15. read_packet(f, key) = PlainOf(op, login, secret, t, d, n)
  BY <1>13, <1>14, Zenon DEF PlainOf
<1> QED BY <1>10, <1>15, Zenon

-----------------------------------------------------------------------------
(* Lists of topics                                                         *)

\* what parse_topics keeps of the piece that begins at i
Piece(s, i) == IF EndOf(s, i) = i THEN <<>> ELSE <<SubSeq(s, i, EndOf(s, i) - 1)>>

\* entry i of the function that parse_topics evaluates
Rest(s, f, i) == IF i > Len(s) THEN <<>> ELSE Piece(s, i) \o f[EndOf(s, i) + 1]

IsSplit(s, f) == f = [i \in 1..(Len(s) + 2) |-> Rest(s, f, i)]

Split(s) == CHOOSE f : IsSplit(s, f)

(* parse_topics is the first entry of its recursive function.              *)
LEMMA ParsedIsSplit ==
    ASSUME NEW s
    PROVE  parse_topics(s) = Split(s)[1]
  BY DEF parse_topics, Split, IsSplit, Rest, Piece

IsEnd(s, i, e) ==
    /\ e = Len(s) + 1 \/ s[e] = 0
    /\ \A j \in i..(e - 1) : s[j] # 0

(* The end of a piece is where one looks for it.                           *)
LEMMA EndIs ==
    ASSUME NEW s \in Bytes, NEW i \in 1..(Len(s) + 1), NEW e \in i..(Len(s) + 1),
           IsEnd(s, i, e)
    PROVE  EndOf(s, i) = e
<1>1. Len(s) \in Nat BY DEF Bytes
<1>2. ASSUME NEW x \in i..(Len(s) + 1), IsEnd(s, i, x) PROVE x = e
  <2>1. ASSUME x < e PROVE FALSE
    <3>1. x \in i..(e - 1) /\ x # Len(s) + 1 BY <1>1, <2>1
    <3> QED BY <1>2, <3>1 DEF IsEnd
  <2>2. ASSUME e < x PROVE FALSE
    <3>1. e \in i..(x - 1) /\ e # Len(s) + 1 BY <1>1, <2>2
    <3> QED BY <1>2, <3>1 DEF IsEnd
  <2> QED BY <1>1, <2>1, <2>2
<1> QED BY <1>2 DEF EndOf, IsEnd

(* Every piece has an end.                                                 *)
LEMMA EndExists ==
    ASSUME NEW s \in Bytes, NEW i \in 1..(Len(s) + 1)
    PROVE  EndOf(s, i) \in i..(Len(s) + 1)
<1> DEFINE T == {e \in i..(Len(s) + 1) : e = Len(s) + 1 \/ s[e] = 0}
<1>1. Len(s) \in Nat BY DEF Bytes
<1>2. T \in SUBSET Nat /\ Len(s) + 1 \in T BY <1>1
<1>3. PICK e \in T : \A y \in T : e <= y BY <1>2, Least
<1>4. ASSUME NEW j \in i..(e - 1) PROVE s[j] # 0
  <2>1. j \in i..(Len(s) + 1) /\ ~(e <= j) BY <1>1, <1>3
  <2> QED BY <1>3, <2>1
<1>5. e \in i..(Len(s) + 1) /\ IsEnd(s, i, e) BY <1>3, <1>4 DEF IsEnd
<1> QED BY <1>5, EndIs

SplitsFrom(s, a) == \E f : f = [i \in a..(Len(s) + 2) |-> Rest(s, f, i)]

(* The function exists beyond the end of the buffer.                       *)
LEMMA SplitsFromEnd ==
    ASSUME NEW s \in Bytes
    PROVE  SplitsFrom(s, Len(s) + 2)
<1> DEFINE L == Len(s) + 2
           f == [i \in L..L |-> <<>>]
<1>1. ASSUME NEW i \in L..L PROVE i > Len(s)
  BY DEF Bytes
<1>2. \A i \in L..L : Rest(s, f, i) = <<>> BY <1>1, Zenon DEF Rest
<1>3. f = [i \in L..L |-> Rest(s, f, i)] BY <1>2
<1> QED BY <1>3 DEF SplitsFrom

(* It exists one position earlier.                                         *)
LEMMA SplitsFromBefore ==
    ASSUME NEW s \in Bytes, NEW a \in 1..(Len(s) + 1), SplitsFrom(s, a + 1)
    PROVE  SplitsFrom(s, a)
<1> DEFINE L == Len(s) + 2
<1>1. Len(s) \in Nat BY DEF Bytes
<1>2. PICK f : f = [i \in (a + 1)..L |-> Rest(s, f, i)] BY DEF SplitsFrom
<1> DEFINE g == [i \in a..L |-> IF i = a THEN Rest(s, f, a) ELSE f[i]]
<1>3. ASSUME NEW i \in a..L PROVE g[i] = Rest(s, g, i)
  <2>1. i <= Len(s) => EndOf(s, i) + 1 \in (a + 1)..L
    <3> SUFFICES ASSUME i <= Len(s) PROVE EndOf(s, i) + 1 \in (a + 1)..L OBVIOUS
    <3>1. i \in 1..(Len(s) + 1) BY <1>1
    <3>2. EndOf(s, i) \in i..(Len(s) + 1) BY <3>1, EndExists
    <3> QED BY <1>1, <3>2
  <2>2. i <= Len(s) => g[EndOf(s, i) + 1] = f[EndOf(s, i) + 1] BY <1>1, <2>1
  <2>3. Rest(s, g, i) = Rest(s, f, i)
    <3> HIDE DEF g
    <3> QED BY <1>1, <2>2 DEF Rest
  <2>4. i # a => i \in (a + 1)..L BY <1>1
  <2>5. i # a => f[i] = Rest(s, f, i) BY <1>2, <2>4
  <2> QED BY <2>3, <2>5
<1>4. g = [i \in a..L |-> Rest(s, g, i)] BY <1>3
<1> QED BY <1>4 DEF SplitsFrom

(* The recursive function of parse_topics exists.                          *)
LEMMA SplitExists ==
    ASSUME NEW s \in Bytes
    PROVE  IsSplit(s, Split(s))
<1> DEFINE L == Len(s) + 2
           T == {n \in 0..(Len(s) + 1) : ~SplitsFrom(s, L - n)}
<1>0. Len(s) \in Nat BY DEF Bytes
<1>1. ASSUME T # {} PROVE FALSE
  <2>1. T \in SUBSET Nat BY <1>0
  <2>2. PICK n \in T : \A k \in T : n <= k BY <1>1, <2>1, Least
  <2>3. CASE n = 0
    <3>1. L - n = L BY <1>0, <2>3
    <3> QED BY <2>2, <3>1, SplitsFromEnd
  <2>4. CASE n # 0
    <3>1. /\ n - 1 \in 0..(Len(s) + 1) /\ ~(n <= n - 1)
          /\ L - (n - 1) = (L - n) + 1 /\ L - n \in 1..(Len(s) + 1)
      BY <1>0, <2>2, <2>4
    <3>2. SplitsFrom(s, L - (n - 1)) BY <2>2, <3>1
    <3>3. SplitsFrom(s, L - n) BY <3>1, <3>2, SplitsFromBefore
    <3> QED BY <2>2, <3>3
  <2> QED BY <2>3, <2>4
<1>2. Len(s) + 1 \in 0..(Len(s) + 1) /\ L - (Len(s) + 1) = 1 BY <1>0
<1>3. SplitsFrom(s, 1) BY <1>1, <1>2
<1> QED BY <1>3 DEF SplitsFrom, Split, IsSplit

(* One entry of that function from a later one.                            *)
LEMMA SplitSteps ==
    ASSUME NEW s \in Bytes
    PROVE  \A i \in 1..(Len(s) + 2) : Split(s)[i] = Rest(s, Split(s), i)
  BY SplitExists DEF IsSplit

\* the list of one topic, or none when it is empty
Given(t) == IF t = <<>> THEN <<>> ELSE <<t>>

\* t stands in s from i on and is followed by a zero byte, or ends s
StandsAt(s, i, t) ==
    /\ i + Len(t) \in i..(Len(s) + 1)
    /\ \A j \in 1..Len(t) : s[i - 1 + j] = t[j]
    /\ i + Len(t) = Len(s) + 1 \/ s[i + Len(t)] = 0

(* A text that stands in the buffer is taken as one topic, unless it is    *)
(* empty.                                                                  *)
LEMMA SplitPiece ==
    ASSUME NEW s \in Bytes, NEW i \in 1..(Len(s) + 1), NEW t \in Bytes, IsText(t),
           StandsAt(s, i, t)
    PROVE  /\ i <= Len(s) => Split(s)[i] = Given(t) \o Split(s)[i + Len(t) + 1]
           /\ i > Len(s) => Split(s)[i] = <<>> /\ Given(t) = <<>>
<1> DEFINE e == i + Len(t)
<1>1. Len(s) \in Nat /\ Len(t) \in Nat BY DEF Bytes
<1>2. ASSUME NEW j \in i..(e - 1) PROVE s[j] # 0
  <2>1. j - i + 1 \in 1..Len(t) /\ i - 1 + (j - i + 1) = j BY <1>1
  <2>2. s[j] = t[j - i + 1] BY <2>1 DEF StandsAt
  <2> QED BY <2>1, <2>2 DEF IsText
<1>3. e \in i..(Len(s) + 1) /\ IsEnd(s, i, e) BY <1>2 DEF StandsAt, IsEnd
<1>4. EndOf(s, i) = e BY <1>3, EndIs
<1>5. Split(s)[i] = Rest(s, Split(s), i)
  <2>1. i \in 1..(Len(s) + 2) BY <1>1
  <2> QED BY <2>1, SplitSteps
<1>6. t = <<>> <=> Len(t) = 0 BY DEF Bytes
<1>7. SubSeq(s, i, e - 1) = t
  <2>1. s \in Seq(Nat) /\ t \in Seq(Nat) BY DEF Bytes
  <2>2. i - 1 \in Nat /\ (i - 1) + Len(t) <= Len(s) BY <1>1, <1>3
  <2>3. \A j \in 1..Len(t) : s[(i - 1) + j] = t[j] BY DEF StandsAt
  <2>4. SubSeq(s, (i - 1) + 1, (i - 1) + Len(t)) = t
    BY <2>1, <2>2, <2>3, PartOfSeq, Zenon
  <2>5. (i - 1) + 1 = i /\ (i - 1) + Len(t) = e - 1 BY <1>1
  <2> QED BY <2>4, <2>5
<1>8. Piece(s, i) = Given(t)
  <2>1. e = i <=> Len(t) = 0 BY <1>1
  <2>2. CASE Len(t) = 0 BY <1>4, <1>6, <2>1, <2>2, Zenon DEF Piece, Given
  <2>3. CASE Len(t) # 0 BY <1>4, <1>6, <1>7, <2>1, <2>3, Zenon DEF Piece, Given
  <2> QED BY <2>2, <2>3
<1>9. ASSUME i <= Len(s) PROVE Split(s)[i] = Given(t) \o Split(s)[i + Len(t) + 1]
  <2>1. ~(i > Len(s)) BY <1>1, <1>9
  <2> QED BY <1>4, <1>5, <1>8, <2>1, Zenon DEF Rest
<1>10. ASSUME i > Len(s) PROVE Split(s)[i] = <<>> /\ Given(t) = <<>>
  <2>1. t = <<>> BY <1>1, <1>3, <1>6, <1>10
  <2> QED BY <1>5, <1>10, <2>1, Zenon DEF Rest, Given
<1> QED BY <1>9, <1>10

(* No topic is found beyond the end.                                       *)
LEMMA SplitEnd ==
    ASSUME NEW s \in Bytes, NEW i \in 1..(Len(s) + 2), i > Len(s)
    PROVE  Split(s)[i] = <<>>
<1>1. Split(s)[i] = Rest(s, Split(s), i) BY SplitSteps
<1> QED BY <1>1, Zenon DEF Rest

(* One topic or none is a list.                                            *)
LEMMA GivenTypes ==
    ASSUME NEW t \in Bytes
    PROVE  Given(t) \in Seq(Bytes) /\ Given(t) \o <<>> = Given(t)
<1>1. Given(t) \in Seq(Bytes) BY DEF Given
<1> QED BY <1>1

(* A single topic, as it stands or as a list of one.                       *)
LEMMA ParsedOne ==
    ASSUME NEW t \in Bytes, IsText(t)
    PROVE  parse_topics(t) = Given(t) /\ parse_topics(Cat(t, Zero)) = Given(t)
<1>0. Len(t) \in Nat BY DEF Bytes
<1>1. ASSUME NEW s \in Bytes, Len(s) \in Nat, Len(s) \in {Len(t), Len(t) + 1},
             \A j \in 1..Len(t) : s[j] = t[j],
             Len(s) = Len(t) + 1 => s[Len(s)] = 0
      PROVE  parse_topics(s) = Given(t)
  <2>1. StandsAt(s, 1, t)
    <3>1. \A j \in 1..Len(t) : 1 - 1 + j = j BY <1>0
    <3>2. 1 + Len(t) \in 1..(Len(s) + 1) BY <1>0, <1>1
    <3>3. 1 + Len(t) = Len(s) + 1 \/ s[1 + Len(t)] = 0 BY <1>0, <1>1
    <3> QED BY <1>1, <3>1, <3>2, <3>3 DEF StandsAt
  <2>2. 1 \in 1..(Len(s) + 1) BY <1>1
  <2>3. CASE 1 <= Len(s)
    <3>1. Split(s)[1] = Given(t) \o Split(s)[1 + Len(t) + 1]
      BY <2>1, <2>2, <2>3, SplitPiece
    <3>2. 1 + Len(t) + 1 \in 1..(Len(s) + 2) /\ 1 + Len(t) + 1 > Len(s)
      BY <1>0, <1>1
    <3>3. Split(s)[1 + Len(t) + 1] = <<>> BY <3>2, SplitEnd
    <3> QED BY <3>1, <3>3, ParsedIsSplit, GivenTypes, Zenon
  <2>4. CASE 1 > Len(s)
    <3>1. Split(s)[1] = <<>> /\ Given(t) = <<>> BY <2>1, <2>2, <2>4, SplitPiece
    <3> QED BY <3>1, ParsedIsSplit, Zenon
  <2> QED BY <1>1, <2>3, <2>4
<1>2. parse_topics(t) = Given(t) BY <1>0, <1>1
<1>3. parse_topics(Cat(t, Zero)) = Given(t)
  <2> DEFINE s == Cat(t, Zero)
  <2>1. IsCat(s, t, Zero) BY ZeroTypes, CatProperties, Zenon
  <2> HIDE DEF s
  <2>2. /\ s \in Bytes /\ Len(s) \in Nat /\ Len(s) = Len(t) + 1
        /\ \A j \in 1..Len(t) : s[j] = t[j]
    BY <1>0, <2>1, ZeroTypes DEF IsCat
  <2>3. 1 \in 1..Len(Zero) BY ZeroTypes
  <2>4. s[Len(t) + 1] = 0 BY <2>1, <2>3, ZeroTypes DEF IsCat
  <2> QED BY <1>1, <2>2, <2>4 DEF s
<1> QED BY <1>2, <1>3

(* A list of two topics.                                                   *)
LEMMA ParsedTwo ==
    ASSUME NEW t \in Bytes, IsText(t), NEW o \in Bytes, IsText(o)
    PROVE  parse_topics(Cat(Cat(t, Zero), Cat(o, Zero))) = Given(t) \o Given(o)
<1> DEFINE a == Cat(t, Zero)
           b == Cat(o, Zero)
           s == Cat(a, b)
<1>1. IsCat(a, t, Zero) /\ IsCat(b, o, Zero) BY ZeroTypes, CatProperties, Zenon
<1> HIDE DEF a, b
<1>2. 1 \in 1..Len(Zero) BY ZeroTypes
<1>3. /\ a \in Bytes /\ Len(a) = Len(t) + 1 /\ Len(t) \in Nat
      /\ \A j \in 1..Len(t) : a[j] = t[j]
      /\ a[Len(t) + 1] = 0
  BY <1>1, <1>2, ZeroTypes DEF IsCat
<1>4. /\ b \in Bytes /\ Len(b) = Len(o) + 1 /\ Len(o) \in Nat
      /\ \A j \in 1..Len(o) : b[j] = o[j]
      /\ b[Len(o) + 1] = 0
  BY <1>1, <1>2, ZeroTypes DEF IsCat
<1>5. IsCat(s, a, b) BY <1>3, <1>4, CatProperties, Zenon
<1> HIDE DEF s
<1> DEFINE i == 1 + Len(t) + 1
           e == i + Len(o) + 1
<1>6. s \in Bytes /\ Len(s) \in Nat /\ Len(s) = i + Len(o)
  BY <1>3, <1>4, <1>5 DEF IsCat
<1>7. StandsAt(s, 1, t)
  <2>1. ASSUME NEW j \in 1..Len(t) PROVE s[1 - 1 + j] = t[j]
    <3>1. 1 - 1 + j = j /\ j \in 1..Len(a) BY <1>3
    <3> QED BY <1>3, <1>5, <3>1 DEF IsCat
  <2>2. s[1 + Len(t)] = 0
    <3>1. 1 + Len(t) \in 1..Len(a) /\ 1 + Len(t) = Len(t) + 1 BY <1>3
    <3> QED BY <1>3, <1>5, <3>1 DEF IsCat
  <2>3. 1 + Len(t) \in 1..(Len(s) + 1) BY <1>3, <1>4, <1>6
  <2> QED BY <2>1, <2>2, <2>3 DEF StandsAt
<1>8. StandsAt(s, i, o)
  <2>1. ASSUME NEW j \in 1..Len(o) PROVE s[i - 1 + j] = o[j]
    <3>1. i - 1 + j = Len(a) + j /\ j \in 1..Len(b) BY <1>3, <1>4
    <3> QED BY <1>4, <1>5, <3>1 DEF IsCat
  <2>2. s[i + Len(o)] = 0
    <3>1. i + Len(o) = Len(a) + (Len(o) + 1) /\ Len(o) + 1 \in 1..Len(b)
      BY <1>3, <1>4
    <3> QED BY <1>4, <1>5, <3>1 DEF IsCat
  <2>3. i + Len(o) \in i..(Len(s) + 1) BY <1>3, <1>4, <1>6
  <2> QED BY <2>1, <2>2, <2>3 DEF StandsAt
<1>9. Split(s)[1] = Given(t) \o Split(s)[i]
  <2>1. 1 \in 1..(Len(s) + 1) /\ 1 <= Len(s) BY <1>3, <1>4, <1>6
  <2> QED BY <1>6, <1>7, <2>1, SplitPiece
<1>10. Split(s)[i] = Given(o) \o Split(s)[e]
  <2>1. i \in 1..(Len(s) + 1) /\ i <= Len(s) BY <1>3, <1>4, <1>6
  <2> HIDE DEF i
  <2> QED BY <1>6, <1>8, <2>1, SplitPiece
<1>11. Split(s)[e] = <<>>
  <2>1. e \in 1..(Len(s) + 2) /\ e > Len(s) BY <1>3, <1>4, <1>6
  <2> QED BY <1>6, <2>1, SplitEnd
<1> HIDE DEF i, e
<1>12. Split(s)[1] = Given(t) \o Given(o) BY <1>9, <1>10, <1>11, GivenTypes, Zenon
<1> QED BY <1>12, ParsedIsSplit, Zenon DEF s, a, b

\* the function that FlattenSeq evaluates
IsFlat(q, f) == f = [i \in 1..Len(q) |-> IF i = 1 THEN q[i] ELSE f[i - 1] \o q[i]]

(* FlattenSeq of one or two sequences.                                     *)
LEMMA Flattened ==
    ASSUME NEW q, Len(q) = 1 \/ Len(q) = 2
    PROVE  /\ Len(q) = 1 => FlattenSeq(q) = q[1]
           /\ Len(q) = 2 => FlattenSeq(q) = q[1] \o q[2]
<1> DEFINE f == CHOOSE f : IsFlat(q, f)
           g == [i \in 1..Len(q) |-> IF i = 1 THEN q[1] ELSE q[1] \o q[2]]
<1>1. IsFlat(q, g)
  <2>1. ASSUME NEW i \in 1..Len(q)
        PROVE  g[i] = IF i = 1 THEN q[i] ELSE g[i - 1] \o q[i]
    <3>0. i \in Int /\ 1 <= i /\ i <= Len(q) OBVIOUS
    <3>1. i = 1 \/ i = 2
      <4>1. CASE Len(q) = 1 BY <3>0, <4>1
      <4>2. CASE Len(q) = 2 BY <3>0, <4>2
      <4> QED BY <4>1, <4>2
    <3>2. i = 2 => i - 1 = 1 /\ 1 \in 1..Len(q) OBVIOUS
    <3>3. CASE i = 1 BY <3>3
    <3>4. CASE i = 2
      <4>1. g[1] = q[1] BY <3>2, <3>4
      <4> QED BY <3>2, <3>4, <4>1
    <3> QED BY <3>1, <3>3, <3>4
  <2>2. g = [i \in 1..Len(q) |-> g[i]] OBVIOUS
  <2> HIDE DEF g
  <2> QED BY <2>1, <2>2 DEF IsFlat
<1>2. IsFlat(q, f) BY <1>1
<1>3. FlattenSeq(q) = f[Len(q)]
  BY SMTT(30) DEF FlattenSeq, IsFlat
<1> HIDE DEF f
<1>4. \A i \in 1..Len(q) : f[i] = IF i = 1 THEN q[i] ELSE f[i - 1] \o q[i]
  BY <1>2 DEF IsFlat
<1>5. CASE Len(q) = 1 BY <1>3, <1>4, <1>5
<1>6. CASE Len(q) = 2
  <2>1. f[1] = q[1] BY <1>4, <1>6
  <2>2. f[2] = f[2 - 1] \o q[2] BY <1>4, <1>6
  <2>3. 2 - 1 = 1 OBVIOUS
  <2> QED BY <1>3, <1>6, <2>1, <2>2, <2>3
<1> QED BY <1>5, <1>6

(* FlattenSeq of one sequence.                                             *)
LEMMA FlattenOne ==
    ASSUME NEW q, Len(q) = 1
    PROVE  FlattenSeq(q) = q[1]
  BY Flattened, Zenon

(* FlattenSeq of two sequences.                                            *)
LEMMA FlattenTwo ==
    ASSUME NEW q, Len(q) = 2
    PROVE  FlattenSeq(q) = q[1] \o q[2]
  BY Flattened, Zenon

(* A text followed by a zero byte.                                         *)
LEMMA AppendZero ==
    ASSUME NEW t \in Bytes
    PROVE  Append(t, 0) = Cat(t, Zero)
  BY DEF Cat, Zero, Bytes

(* A list of one topic as it is written, its length, and what should be    *)
(* read.                                                                   *)
LEMMA OneText ==
    ASSUME NEW ts, NEW t \in Bytes, ts = <<t>>
    PROVE  /\ Joined(ts) = Cat(t, Zero) /\ FlattenSeq(ts) = t
           /\ FlattenSeq([k \in 1..Len(ts) |-> Given(ts[k])]) = Given(t)
<1>1. Len(ts) = 1 /\ ts[1] = t OBVIOUS
<1>2. FlattenSeq(ts) = t BY <1>1, FlattenOne
<1>3. Joined(ts) = Cat(t, Zero)
  <2> DEFINE q == [k \in 1..Len(ts) |-> Append(ts[k], 0)]
  <2>1. Len(q) = 1 /\ q[1] = Append(t, 0) BY <1>1
  <2> HIDE DEF q
  <2>2. FlattenSeq(q) = Append(t, 0) BY <2>1, FlattenOne
  <2>3. Append(t, 0) = Cat(t, Zero) BY AppendZero
  <2> QED BY <2>2, <2>3, Zenon DEF Joined, q
<1>4. FlattenSeq([k \in 1..Len(ts) |-> Given(ts[k])]) = Given(t)
  <2> DEFINE q == [k \in 1..Len(ts) |-> Given(ts[k])]
  <2>1. Len(q) = 1 /\ q[1] = Given(t) BY <1>1
  <2> HIDE DEF q
  <2>2. FlattenSeq(q) = Given(t) BY <2>1, FlattenOne
  <2> QED BY <2>2, Zenon DEF q
<1> QED BY <1>2, <1>3, <1>4

(* The same for a list of two.                                             *)
LEMMA TwoTexts ==
    ASSUME NEW ts, NEW t \in Bytes, NEW o \in Bytes, ts = <<t, o>>
    PROVE  /\ Joined(ts) = Cat(Cat(t, Zero), Cat(o, Zero))
           /\ FlattenSeq(ts) = Cat(t, o)
           /\ FlattenSeq([k \in 1..Len(ts) |-> Given(ts[k])]) = Given(t) \o Given(o)
<1>1. Len(ts) = 2 /\ ts[1] = t /\ ts[2] = o OBVIOUS
<1>2. FlattenSeq(ts) = Cat(t, o) BY <1>1, FlattenTwo DEF Cat
<1>3. Joined(ts) = Cat(Cat(t, Zero), Cat(o, Zero))
  <2> DEFINE q == [k \in 1..Len(ts) |-> Append(ts[k], 0)]
  <2>1. Len(q) = 2 /\ q[1] = Append(t, 0) /\ q[2] = Append(o, 0) BY <1>1
  <2> HIDE DEF q
  <2>2. FlattenSeq(q) = q[1] \o q[2] BY <2>1, FlattenTwo
  <2>3. Append(t, 0) = Cat(t, Zero) /\ Append(o, 0) = Cat(o, Zero)
    BY AppendZero, Zenon
  <2>4. FlattenSeq(q) = Cat(q[1], q[2]) BY <2>2, Zenon DEF Cat
  <2> QED BY <2>1, <2>3, <2>4, Zenon DEF Joined, q
<1>4. FlattenSeq([k \in 1..Len(ts) |-> Given(ts[k])]) = Given(t) \o Given(o)
  <2> DEFINE q == [k \in 1..Len(ts) |-> Given(ts[k])]
  <2>1. Len(q) = 2 /\ q[1] = Given(t) /\ q[2] = Given(o) BY <1>1
  <2> HIDE DEF q
  <2>2. FlattenSeq(q) = q[1] \o q[2] BY <2>1, FlattenTwo
  <2> QED BY <2>1, <2>2, Zenon DEF q
<1> QED BY <1>2, <1>3, <1>4

-----------------------------------------------------------------------------
(* Commands                                                                *)

(* A frame beyond the limit is refused, whatever follows.                  *)
LEMMA FrameRead ==
    ASSUME NEW b \in Bytes, NEW tail \in Bytes, NEW max \in Nat
    PROVE  read_frame(Cat(Cat(<<Len(b)>>, b), tail), max)
             = IF Len(b) <= max THEN <<b, tail>> ELSE Fail
<1> DEFINE l == <<Len(b)>>
           h == Cat(l, b)
           q == Cat(h, tail)
<1>1. CASE Len(b) <= max BY <1>1, FrameReadBack
<1>2. CASE ~(Len(b) <= max)
  <2>1. l \in Bytes /\ Len(l) = 1 /\ l[1] = Len(b) /\ Len(b) \in Nat BY DEF Bytes
  <2> HIDE DEF l
  <2>2. IsCat(h, l, b) BY <2>1, CatProperties, Zenon
  <2> HIDE DEF h
  <2>3. h \in Bytes /\ Len(h) \in Nat /\ Len(h) >= 1 /\ h[1] = Len(b)
    BY <2>1, <2>2 DEF IsCat
  <2>4. IsCat(q, h, tail) BY <2>3, CatProperties, Zenon
  <2> HIDE DEF q
  <2>5. q[1] = Len(b) BY <2>3, <2>4 DEF IsCat
  <2>6. q[1] > max BY <1>2, <2>1, <2>5
  <2>7. read_frame(q, max) = Fail BY <2>6, Zenon DEF read_frame
  <2> QED BY <1>2, <2>7, Zenon DEF q, h, l
<1> QED BY <1>1, <1>2

(* One byte before a buffer.                                               *)
LEMMA AfterByte ==
    ASSUME NEW x \in Nat, NEW f \in Bytes
    PROVE  LET s == Cat(<<x>>, f) IN
           s \in Bytes /\ Head(s) = x /\ Tail(s) = f /\ From(s, 2) = f
<1> DEFINE h == <<x>>
           s == Cat(h, f)
<1>1. h \in Bytes /\ Len(h) = 1 BY DEF Bytes
<1>2. Head(s) = x /\ Tail(s) = f BY DEF Cat, Bytes
<1> HIDE DEF h
<1>3. From(s, Len(h) + 1) = f BY <1>1, FromCat, Zenon
<1>4. Len(h) + 1 = 2 BY <1>1
<1>5. s \in Bytes BY <1>1, CatTypes, Zenon
<1>6. From(s, 2) = f BY <1>3, <1>4, Zenon
<1> QED BY <1>2, <1>5, <1>6, Zenon DEF h

\* a command with a frame of b
Framing(op, b, tail) == Cat(<<op>>, Cat(Cat(<<Len(b)>>, b), tail))

(* A command with one frame is read to the end of the frame, or refused.   *)
LEMMA FramedCommand ==
    ASSUME NEW op \in {OP_SUBSCRIBE, OP_UNSUBSCRIBE, OP_PUBLISH_REPL},
           NEW b \in Bytes, NEW tail \in Bytes
    PROVE  read_command(Framing(op, b, tail))
             = IF Len(b) <= MAX_TOPIC_LENGTH
               THEN IF op = OP_PUBLISH_REPL THEN <<[op |-> op, topic |-> b], tail>>
                    ELSE <<[op |-> op, topics |-> parse_topics(b)], tail>>
               ELSE Fail
<1> DEFINE g == Cat(Cat(<<Len(b)>>, b), tail)
           s == Framing(op, b, tail)
           r == read_frame(From(s, 2), MAX_TOPIC_LENGTH)
           f == IF Head(s) = OP_PUBLISH THEN read_frame(From(s, 3), MAX_PUB_SIZE) ELSE r
<1>1. /\ op \in Nat /\ op \notin {OP_NOP, OP_BYE} /\ op # OP_PUBLISH
      /\ op # OP_PUBLISH_REPL => op \in {OP_SUBSCRIBE, OP_UNSUBSCRIBE}
      /\ op = OP_PUBLISH_REPL => op \notin {OP_SUBSCRIBE, OP_UNSUBSCRIBE}
  BY DEF OP_NOP, OP_BYE, OP_PUBLISH, OP_SUBSCRIBE, OP_UNSUBSCRIBE, OP_PUBLISH_REPL
<1>2. g \in Bytes
  <2>1. <<Len(b)>> \in Bytes BY DEF Bytes
  <2> QED BY <2>1, CatTypes, Zenon
<1>3. Head(s) = op /\ From(s, 2) = g
  <2> HIDE DEF g
  <2>1. Head(Cat(<<op>>, g)) = op /\ From(Cat(<<op>>, g), 2) = g
    BY <1>1, <1>2, AfterByte, Zenon
  <2> QED BY <2>1, Zenon DEF Framing, g
<1>4. r = IF Len(b) <= MAX_TOPIC_LENGTH THEN <<b, tail>> ELSE Fail
  <2>1. MAX_TOPIC_LENGTH \in Nat BY LimitAssumption
  <2>2. read_frame(g, MAX_TOPIC_LENGTH)
          = IF Len(b) <= MAX_TOPIC_LENGTH THEN <<b, tail>> ELSE Fail
    BY <2>1, FrameRead
  <2> HIDE DEF g, s
  <2> QED BY <1>3, <2>2, Zenon
<1> HIDE DEF g, s
<1>5. f = r BY <1>1, <1>3, Zenon
<1>6. CASE Len(b) <= MAX_TOPIC_LENGTH
  <2>1. f # Fail /\ f[1] = b /\ f[2] = tail
    <3>1. r = <<b, tail>> BY <1>4, <1>6, Zenon
    <3> HIDE DEF r, f
    <3> QED BY <1>5, <3>1 DEF Fail
  <2>2. CASE op = OP_PUBLISH_REPL
    <3>1. read_command(s) = <<[op |-> op, topic |-> f[1]], f[2]>>
      <4> HIDE DEF f
      <4> QED BY <1>1, <1>3, <2>1, <2>2, Zenon DEF read_command, f
    <3> HIDE DEF f
    <3> QED BY <1>6, <2>1, <2>2, <3>1, Zenon DEF s
  <2>3. CASE op # OP_PUBLISH_REPL
    <3>1. read_command(s) = <<[op |-> op, topics |-> parse_topics(f[1])], f[2]>>
      <4> HIDE DEF f
      <4> QED BY <1>1, <1>3, <2>1, <2>3, Zenon DEF read_command, f
    <3> HIDE DEF f
    <3> QED BY <1>6, <2>1, <2>3, <3>1, Zenon DEF s
  <2> QED BY <2>2, <2>3
<1>7. CASE ~(Len(b) <= MAX_TOPIC_LENGTH)
  <2>1. f = Fail BY <1>4, <1>5, <1>7, Zenon
  <2>2. read_command(s) = Fail
    <3> HIDE DEF f
    <3> QED BY <1>1, <1>3, <2>1, Zenon DEF read_command, f
  <2> QED BY <1>7, <2>2, Zenon DEF s
<1> QED BY <1>6, <1>7

(* Subscribe and Unsubscribe, with the frame b.                            *)
LEMMA TopicsRead ==
    ASSUME NEW c, c.op \in {OP_SUBSCRIBE, OP_UNSUBSCRIBE}, NEW b \in Bytes,
           b = IF c.bulk THEN Joined(c.topics) ELSE c.topics[1], NEW tail \in Bytes
    PROVE  read_command(as_bytes(c) \o tail)
             = IF Len(b) <= MAX_TOPIC_LENGTH
               THEN <<[op |-> c.op, topics |-> parse_topics(b)], tail>>
               ELSE Fail
<1> DEFINE h == <<c.op>>
           g == Cat(<<Len(b)>>, b)
<1>1. /\ c.op \in Nat /\ c.op \notin {OP_NOP, OP_BYE, OP_PUBLISH, OP_PUBLISH_REPL}
      /\ c.op \in {OP_SUBSCRIBE, OP_UNSUBSCRIBE, OP_PUBLISH_REPL}
  BY DEF OP_NOP, OP_BYE, OP_PUBLISH, OP_SUBSCRIBE, OP_UNSUBSCRIBE, OP_PUBLISH_REPL
<1>2. as_bytes(c) = h \o TopicsBytes(c) BY <1>1, Zenon DEF as_bytes
<1>3. TopicsBytes(c) = <<Len(b)>> \o b BY Zenon DEF TopicsBytes, WithLength
<1>4. as_bytes(c) \o tail = Cat(Cat(h, g), tail) BY <1>2, <1>3, Zenon DEF Cat
<1>5. h \in Bytes /\ g \in Bytes
  <2>1. h \in Bytes /\ <<Len(b)>> \in Bytes BY <1>1 DEF Bytes
  <2> HIDE DEF h
  <2> QED BY <2>1, CatTypes, Zenon
<1>6. Cat(Cat(h, g), tail) = Cat(h, Cat(g, tail))
  <2> HIDE DEF h, g
  <2> QED BY <1>5, CatAssociative
<1>7. as_bytes(c) \o tail = Framing(c.op, b, tail)
  BY <1>4, <1>6, Zenon DEF Framing
<1>8. read_command(Framing(c.op, b, tail))
        = IF Len(b) <= MAX_TOPIC_LENGTH
          THEN IF c.op = OP_PUBLISH_REPL THEN <<[op |-> c.op, topic |-> b], tail>>
               ELSE <<[op |-> c.op, topics |-> parse_topics(b)], tail>>
          ELSE Fail
  BY <1>1, FramedCommand
<1> QED BY <1>1, <1>7, <1>8, Zenon

(* PublishRepl, which offers a topic.                                      *)
LEMMA OfferRead ==
    ASSUME NEW t \in Bytes, NEW tail \in Bytes
    PROVE  LET c == [op |-> OP_PUBLISH_REPL, topic |-> t] IN
           read_command(as_bytes(c) \o tail)
             = IF Len(t) <= MAX_TOPIC_LENGTH THEN <<c, tail>> ELSE Fail
<1> DEFINE c == [op |-> OP_PUBLISH_REPL, topic |-> t]
           h == <<OP_PUBLISH_REPL>>
           g == Cat(<<Len(t)>>, t)
<1>1. /\ c.op = OP_PUBLISH_REPL /\ c.topic = t
      /\ OP_PUBLISH_REPL \notin {OP_NOP, OP_BYE} /\ OP_PUBLISH_REPL # OP_PUBLISH
      /\ OP_PUBLISH_REPL \notin {OP_SUBSCRIBE, OP_UNSUBSCRIBE}
      /\ OP_PUBLISH_REPL \in Nat
      /\ OP_PUBLISH_REPL \in {OP_SUBSCRIBE, OP_UNSUBSCRIBE, OP_PUBLISH_REPL}
  BY DEF OP_NOP, OP_BYE, OP_PUBLISH, OP_SUBSCRIBE, OP_UNSUBSCRIBE, OP_PUBLISH_REPL
<1> HIDE DEF c
<1>2. as_bytes(c) = h \o (<<Len(t)>> \o t)
  BY <1>1, Zenon DEF as_bytes, WithLength
<1>4. as_bytes(c) \o tail = Cat(Cat(h, g), tail) BY <1>2, Zenon DEF Cat
<1>5. h \in Bytes /\ g \in Bytes
  <2>1. h \in Bytes /\ <<Len(t)>> \in Bytes BY <1>1 DEF Bytes
  <2> HIDE DEF h
  <2> QED BY <2>1, CatTypes, Zenon
<1>6. Cat(Cat(h, g), tail) = Cat(h, Cat(g, tail))
  <2> HIDE DEF h, g
  <2> QED BY <1>5, CatAssociative
<1>7. as_bytes(c) \o tail = Framing(OP_PUBLISH_REPL, t, tail)
  BY <1>4, <1>6, Zenon DEF Framing
<1>8. read_command(Framing(OP_PUBLISH_REPL, t, tail))
        = IF Len(t) <= MAX_TOPIC_LENGTH
          THEN IF OP_PUBLISH_REPL = OP_PUBLISH_REPL
               THEN <<[op |-> OP_PUBLISH_REPL, topic |-> t], tail>>
               ELSE <<[op |-> OP_PUBLISH_REPL, topics |-> parse_topics(t)], tail>>
          ELSE Fail
  BY <1>1, FramedCommand
<1> QED BY <1>7, <1>8, Zenon DEF c

(* Publish: the topic, a zero byte, the payload.                           *)
LEMMA PublishRead ==
    ASSUME NEW prio \in Nat, NEW t \in Bytes, IsText(t), t # <<>>, NEW d \in Bytes,
           NEW tail \in Bytes
    PROVE  LET c == [op |-> OP_PUBLISH, prio |-> prio, topic |-> t, data |-> d] IN
           read_command(as_bytes(c) \o tail)
             = IF Len(t) + Len(d) < MAX_PUB_SIZE THEN <<c, tail>> ELSE Fail
<1> DEFINE c == [op |-> OP_PUBLISH, prio |-> prio, topic |-> t, data |-> d]
           b == Buffer(t, d)
           n == Len(t) + 1 + Len(d)
           f == Cat(Cat(<<n>>, b), tail)
           s == as_bytes(c) \o tail
           r == read_frame(From(s, 3), MAX_PUB_SIZE)
           g == IF Head(s) = OP_PUBLISH THEN r
                ELSE read_frame(From(s, 2), MAX_TOPIC_LENGTH)
<1>1. /\ b \in Bytes /\ n = Len(b) /\ n \in Nat /\ MAX_PUB_SIZE \in Nat
      /\ Len(t) + Len(d) < MAX_PUB_SIZE <=> n <= MAX_PUB_SIZE
  <2>1. /\ b \in Bytes /\ Len(t) \in Nat /\ Len(d) \in Nat
        /\ Len(b) = Len(t) + Len(d) + 1
    BY BufferTypes
  <2>2. MAX_PUB_SIZE \in Nat BY LimitAssumption
  <2> HIDE DEF b
  <2> QED BY <2>1, <2>2
<1>2. Zeros(b) # {} /\ Before(b) = t /\ After(b) = d BY SplitAtText, Zenon DEF Buffer
<1>3. /\ OP_PUBLISH \in Nat /\ OP_PUBLISH \notin {OP_NOP, OP_BYE}
      /\ OP_PUBLISH \notin {OP_SUBSCRIBE, OP_UNSUBSCRIBE}
      /\ OP_PUBLISH # OP_PUBLISH_REPL
  BY DEF OP_NOP, OP_BYE, OP_PUBLISH, OP_SUBSCRIBE, OP_UNSUBSCRIBE, OP_PUBLISH_REPL
<1>4. s = <<OP_PUBLISH, prio, n>> \o t \o <<0>> \o d \o tail
  <2>1. c.op = OP_PUBLISH /\ c.prio = prio /\ c.topic = t /\ c.data = d OBVIOUS
  <2> HIDE DEF c
  <2>2. as_bytes(c) = <<c.op, c.prio, Len(c.topic) + 1 + Len(c.data)>> \o c.topic
                        \o <<0>> \o c.data
    BY <1>3, <2>1, Zenon DEF as_bytes
  <2> QED BY <2>1, <2>2, Zenon
<1> HIDE DEF n, c, s
<1>5. f \in Bytes /\ IsHeaded(s, OP_PUBLISH, prio, f)
  <2> HIDE DEF b
  <2> QED BY <1>1, <1>3, <1>4, BufferFramed, Zenon DEF b
<1> HIDE DEF b
<1>6. r = IF Len(b) <= MAX_PUB_SIZE THEN <<b, tail>> ELSE Fail
  <2>1. read_frame(Cat(Cat(<<Len(b)>>, b), tail), MAX_PUB_SIZE)
          = IF Len(b) <= MAX_PUB_SIZE THEN <<b, tail>> ELSE Fail
    BY <1>1, FrameRead
  <2> QED BY <1>1, <1>5, <2>1, Zenon DEF IsHeaded
<1> HIDE DEF f, r
<1>7. g = r BY <1>5, Zenon DEF IsHeaded
<1> HIDE DEF g
<1>8. CASE n <= MAX_PUB_SIZE
  <2>1. r = <<b, tail>> BY <1>1, <1>6, <1>8
  <2>2. g # Fail /\ g[1] = b /\ g[2] = tail BY <1>7, <2>1 DEF Fail
  <2>3. read_command(s)
          = IF Zeros(g[1]) = {} \/ Before(g[1]) = <<>> THEN Fail
            ELSE <<[op |-> OP_PUBLISH, prio |-> s[2], topic |-> Before(g[1]),
                    data |-> After(g[1])], g[2]>>
    BY <1>3, <1>5, <2>2, Zenon DEF IsHeaded, read_command, g, r
  <2>4. read_command(s) = <<c, tail>>
    BY <1>2, <1>5, <2>2, <2>3, Zenon DEF IsHeaded, c
  <2> QED BY <1>1, <1>8, <2>4, Zenon DEF s, c
<1>9. CASE ~(n <= MAX_PUB_SIZE)
  <2>1. g = Fail BY <1>1, <1>6, <1>7, <1>9
  <2>2. read_command(s) = Fail
    BY <1>3, <1>5, <2>1, Zenon DEF IsHeaded, read_command, g, r
  <2> QED BY <1>1, <1>9, <2>2, Zenon DEF s, c
<1> QED BY <1>8, <1>9

(* Nop and Bye are their codes.                                            *)
LEMMA BareRead ==
    ASSUME NEW op \in {OP_NOP, OP_BYE}, NEW tail \in Bytes
    PROVE  LET c == [op |-> op] IN read_command(as_bytes(c) \o tail) = <<c, tail>>
<1> DEFINE c == [op |-> op]
           s == Cat(<<op>>, tail)
<1>1. op \in Nat /\ c.op = op BY DEF OP_NOP, OP_BYE
<1>2. Head(s) = op /\ Tail(s) = tail BY <1>1, AfterByte, Zenon
<1> HIDE DEF c
<1>3. op \notin {OP_SUBSCRIBE, OP_UNSUBSCRIBE} /\ op # OP_PUBLISH /\ op # OP_PUBLISH_REPL
  BY DEF OP_NOP, OP_BYE, OP_PUBLISH, OP_SUBSCRIBE, OP_UNSUBSCRIBE, OP_PUBLISH_REPL
<1>4. as_bytes(c) = <<op>> BY <1>1, <1>3, Zenon DEF as_bytes
<1>5. as_bytes(c) \o tail = s BY <1>4, Zenon DEF Cat
<1> HIDE DEF s
<1>6. read_command(s) = <<[op |-> op], Tail(s)>>
  BY <1>2, <1>3, Zenon DEF read_command
<1> QED BY <1>2, <1>5, <1>6, Zenon DEF c

(* The body of a replicated message.                                       *)
LEMMA BodyRead ==
    ASSUME NEW prio \in Nat, NEW time \in Nat, NEW d \in Bytes, NEW tail \in Bytes
    PROVE  LET m == [prio |-> prio, time |-> time, data |-> d] IN
           read_repl_body(repl_body(m) \o tail)
             = IF Len(d) <= MAX_PUB_SIZE THEN <<m, tail>> ELSE Fail
<1> DEFINE m == [prio |-> prio, time |-> time, data |-> d]
           h == <<prio, time>>
           g == Cat(<<Len(d)>>, d)
           f == Cat(g, tail)
           s == Cat(h, f)
           r == read_frame(From(s, 3), MAX_PUB_SIZE)
<1>1. repl_body(m) = h \o (<<Len(d)>> \o d) BY DEF repl_body, WithLength
<1>2. repl_body(m) \o tail = Cat(Cat(h, g), tail)
  <2> HIDE DEF m
  <2> QED BY <1>1, Zenon DEF Cat
<1>3. h \in Bytes /\ g \in Bytes /\ f \in Bytes
  <2>1. h \in Bytes /\ <<Len(d)>> \in Bytes BY DEF Bytes
  <2> HIDE DEF h
  <2> QED BY <2>1, CatTypes, Zenon
<1>4. Cat(Cat(h, g), tail) = s
  <2> HIDE DEF h, g
  <2> QED BY <1>3, CatAssociative
<1>5. IsHeaded(s, prio, time, f)
  <2> HIDE DEF f
  <2> QED BY <1>3, AfterTwoBytes, Zenon
<1>6. r = IF Len(d) <= MAX_PUB_SIZE THEN <<d, tail>> ELSE Fail
  <2>1. MAX_PUB_SIZE \in Nat BY LimitAssumption
  <2>2. read_frame(f, MAX_PUB_SIZE)
          = IF Len(d) <= MAX_PUB_SIZE THEN <<d, tail>> ELSE Fail
    BY <2>1, FrameRead
  <2> HIDE DEF f, s
  <2> QED BY <1>5, <2>2, Zenon DEF IsHeaded
<1> HIDE DEF s, f, m
<1>7. CASE Len(d) <= MAX_PUB_SIZE
  <2>1. r # Fail /\ r[1] = d /\ r[2] = tail
    <3>1. r = <<d, tail>> BY <1>6, <1>7, Zenon
    <3> HIDE DEF r
    <3> QED BY <3>1 DEF Fail
  <2>2. read_repl_body(s) = <<[prio |-> s[1], time |-> s[2], data |-> r[1]], r[2]>>
    <3> HIDE DEF r
    <3> QED BY <2>1, Zenon DEF read_repl_body, r
  <2> HIDE DEF r
  <2> QED BY <1>2, <1>4, <1>5, <1>7, <2>1, <2>2, Zenon DEF IsHeaded, m
<1>8. CASE ~(Len(d) <= MAX_PUB_SIZE)
  <2>1. r = Fail BY <1>6, <1>8, Zenon
  <2>2. read_repl_body(s) = Fail
    <3> HIDE DEF r
    <3> QED BY <2>1, Zenon DEF read_repl_body, r
  <2> QED BY <1>2, <1>4, <1>8, <2>2, Zenon DEF m
<1> QED BY <1>7, <1>8

-----------------------------------------------------------------------------
(* The inputs that are compared                                            *)

Chunk == Chunks \union {""}

Inputs ==
    /\ topic \in Seq(Chunk) /\ topic # <<>>
    /\ mask \in Seq(Chunk) /\ mask # <<>>
    /\ text \in Seq({1, 2}) /\ other \in Seq({1}) /\ data \in Seq({0, 1})
    /\ now \in Nat /\ sent \in Nat

(* A sequence that grew keeps its type and is not empty.                   *)
LEMMA Grown ==
    ASSUME NEW S, NEW T \in SUBSET S, NEW s \in Seq(S), NEW n,
           NEW r \in Grow(s, T, n)
    PROVE  r \in Seq(S) /\ r # <<>>
<1>1. PICK x \in T : r = Append(s, x) BY DEF Grow
<1> QED BY <1>1

(* The inputs keep their types.                                            *)
THEOREM InputTypes == Spec => []Inputs
<1>1. Init => Inputs
  <2> SUFFICES ASSUME Init PROVE Inputs OBVIOUS
  <2>1. PICK c \in Chunks, k \in Chunks : topic = <<c>> /\ mask = <<k>> BY DEF Init
  <2>2. c \in Chunk /\ k \in Chunk BY DEF Chunk
  <2> QED BY <2>1, <2>2 DEF Init, Inputs
<1>2. Inputs /\ [Next]_vars => Inputs'
  <2> SUFFICES ASSUME Inputs, [Next]_vars PROVE Inputs' OBVIOUS
  <2>1. Chunks \in SUBSET Chunk BY DEF Chunk
  <2>2. CASE GrowTopic /\ UNCHANGED <<text, other, data, now, sent>>
    <3>1. topic' \in Seq(Chunk) /\ topic' # <<>>
      BY <2>1, <2>2, Grown DEF GrowTopic, Inputs
    <3> QED BY <2>2, <3>1 DEF GrowTopic, Inputs
  <2>3. CASE GrowMask /\ UNCHANGED <<text, other, data, now, sent>>
    <3>1. mask' \in Seq(Chunk) /\ mask' # <<>>
      BY <2>1, <2>3, Grown DEF GrowMask, Inputs
    <3> QED BY <2>3, <3>1 DEF GrowMask, Inputs
  <2>4. CASE GrowText /\ UNCHANGED <<topic, mask, now, sent>>
    <3>1. text' \in Seq({1, 2}) BY <2>4, Grown DEF GrowText, Inputs
    <3> QED BY <2>4, <3>1 DEF GrowText, Inputs
  <2>5. CASE GrowOther /\ UNCHANGED <<topic, mask, now, sent>>
    <3>1. other' \in Seq({1}) BY <2>5, Grown DEF GrowOther, Inputs
    <3> QED BY <2>5, <3>1 DEF GrowOther, Inputs
  <2>6. CASE GrowData /\ UNCHANGED <<topic, mask, now, sent>>
    <3>1. data' \in Seq({0, 1}) BY <2>6, Grown DEF GrowData, Inputs
    <3> QED BY <2>6, <3>1 DEF GrowData, Inputs
  <2>7. CASE /\ now' \in 0..MaxTime /\ sent' \in 0..MaxTime
             /\ UNCHANGED <<topic, mask, text, other, data>>
    <3>1. now' \in Nat /\ sent' \in Nat BY <2>7, BoundAssumption
    <3> QED BY <2>7, <3>1 DEF Inputs
  <2>8. CASE UNCHANGED vars BY <2>8 DEF vars, Inputs
  <2> QED BY <2>2, <2>3, <2>4, <2>5, <2>6, <2>7, <2>8 DEF Next
<1> QED BY <1>1, <1>2, PTL DEF Spec

(* prepare_topic yields the canonical spelling of every topic and changes  *)
(* nothing when it is applied again.                                       *)
THEOREM PreparedOnce == Spec => []PreparedIsCanonical
<1>1. Inputs => PreparedIsCanonical
  <2> SUFFICES ASSUME Inputs PROVE PreparedIsCanonical OBVIOUS
  <2> DEFINE r == prepare_topic(topic)
  <2>1. topic \in Seq(Chunk) /\ topic # <<>> BY DEF Inputs
  <2>2. /\ r \in Seq(Chunk) /\ r # <<>> /\ Canonical(r)
        /\ Named(r) = Named(topic) /\ r[Len(r)] = topic[Len(topic)]
    BY <2>1, PreparedTopic
  <2>3. prepare_topic(r) = r BY <2>2, CanonicalStays
  <2> HIDE DEF r
  <2>4. ASSUME NEW i \in 1..(Len(r) - 1) PROVE r[i] # ""
    <3>1. NonEmpty(r[i]) BY <2>2 DEF Canonical
    <3> QED BY <3>1, Zenon DEF NonEmpty
  <2>5. (r[Len(r)] = "") = (topic[Len(topic)] = "") BY <2>2, Zenon
  <2> QED BY <2>2, <2>3, <2>4, <2>5, Zenon DEF PreparedIsCanonical, r
<1> QED BY <1>1, InputTypes, PTL

(* PathMask::matches_split on a parsed mask decides what the mask means.   *)
THEOREM MasksDecide == Spec => []MaskMatchesMeaning
<1>1. Inputs => MaskMatchesMeaning
  <2> SUFFICES ASSUME Inputs PROVE MaskMatchesMeaning OBVIOUS
  <2>1. matches_split(from_str(mask), topic) <=> MeansMatch(mask, topic)
    BY ParsedMeansMatch DEF Inputs
  <2>2. matches_split(from_str(mask), topic) = MeansMatch(mask, topic)
    BY <2>1, Zenon DEF matches_split, MeansMatch
  <2> QED BY <2>2 DEF MaskMatchesMeaning
<1> QED BY <1>1, InputTypes, PTL

(* A mask that is printed and parsed again matches the same topics.        *)
THEOREM MasksSurvivePrinting == Spec => []MaskRoundTripKeepsMeaning
<1>1. Inputs => MaskRoundTripKeepsMeaning
  <2> SUFFICES ASSUME Inputs, MaskParses(mask) PROVE MaskRoundTripKeepsMeaning
    BY DEF MaskRoundTripKeepsMeaning
  <2> DEFINE parsed  == from_str(mask)
             written == to_string(parsed)
  <2>1. /\ written # EmptyTopic
        /\ matches_split(from_str(written), topic) <=> matches_split(parsed, topic)
    BY PrintedMatchesAlike DEF Inputs, MaskParses
  <2>2. matches_split(from_str(written), topic) = matches_split(parsed, topic)
    BY <2>1, Zenon DEF matches_split
  <2> QED BY <2>1, <2>2 DEF MaskRoundTripKeepsMeaning, MaskParses
<1> QED BY <1>1, InputTypes, PTL

(* Texts and payloads are bytes; a text has no zero byte.                  *)
LEMMA InputBytes ==
    Inputs => /\ text \in Bytes /\ IsText(text) /\ other \in Bytes /\ IsText(other)
              /\ data \in Bytes
  BY DEF Inputs, Bytes, IsText

(* What may follow is bytes.                                               *)
LEMMA TailTypes == Tails \subseteq Bytes
<1>1. message_frame([prio |-> 0, topic |-> <<1>>, data |-> <<0>>]) \in Bytes
  <2> DEFINE h == <<RESPONSE_OK, 0, 3>>
             t == <<1>>
  <2>1. h \in Bytes /\ t \in Bytes BY DEF Bytes, RESPONSE_OK
  <2>2. message_frame([prio |-> 0, topic |-> <<1>>, data |-> <<0>>])
          = h \o t \o <<0>> \o <<0>>
    BY DEF message_frame
  <2> HIDE DEF h, t
  <2>3. Cat(Cat(Cat(h, t), Zero), Zero) \in Bytes BY <2>1, ZeroTypes, CatTypes, Zenon
  <2> QED BY <2>2, <2>3, Zenon DEF Cat, Zero
<1>2. <<>> \in Bytes /\ <<OP_NOP>> \in Bytes /\ <<OP_BYE>> \in Bytes
  BY DEF Bytes, OP_NOP, OP_BYE
<1> QED BY <1>1, <1>2, Zenon DEF Tails

(* process_control reads what as_bytes and run_control_stream wrote, or    *)
(* refuses the command as a whole when it is beyond the limits.            *)
THEOREM CommandsArrive == Spec => []CommandsReadBack
<1> DEFINE Want(c, tail) == IF Fits(c[1]) THEN <<c[2], tail>> ELSE Fail
           Back(c, tail) == read_command(as_bytes(c[1]) \o tail) = Want(c, tail)
           Topics(op, ts, bulk) ==
             <<[op |-> op, topics |-> ts, bulk |-> bulk],
               [op |-> op, topics |-> FlattenSeq([k \in 1..Len(ts) |-> Given(ts[k])])]>>
           publish == [op |-> OP_PUBLISH, prio |-> 0, topic |-> text, data |-> data]
           offer   == [op |-> OP_PUBLISH_REPL, topic |-> text]
<1>1. ASSUME Inputs, NEW tail \in Bytes, NEW op \in {OP_NOP, OP_BYE}
      PROVE  Back(<<[op |-> op], [op |-> op]>>, tail)
  <2> DEFINE c == [op |-> op]
  <2>1. read_command(as_bytes(c) \o tail) = <<c, tail>> BY <1>1, BareRead
  <2>2. /\ c.op = op /\ op \notin {OP_SUBSCRIBE, OP_UNSUBSCRIBE}
        /\ op # OP_PUBLISH /\ op # OP_PUBLISH_REPL
    BY <1>1 DEF OP_NOP, OP_BYE, OP_PUBLISH, OP_SUBSCRIBE, OP_UNSUBSCRIBE, OP_PUBLISH_REPL
  <2> HIDE DEF c
  <2>3. Fits(c) BY <2>2, Zenon DEF Fits
  <2>4. <<c, c>>[1] = c /\ <<c, c>>[2] = c OBVIOUS
  <2> QED BY <2>1, <2>3, <2>4, Zenon DEF c
<1>2. ASSUME Inputs, NEW tail \in Bytes,
             NEW op \in {OP_SUBSCRIBE, OP_UNSUBSCRIBE}, NEW ts, NEW bulk \in BOOLEAN,
             NEW b \in Bytes, b = IF bulk THEN Joined(ts) ELSE ts[1],
             (IF bulk THEN Len(FlattenSeq(ts)) + Len(ts) ELSE Len(ts[1])) = Len(b),
             parse_topics(b) = FlattenSeq([k \in 1..Len(ts) |-> Given(ts[k])])
      PROVE  Back(Topics(op, ts, bulk), tail)
  <2> DEFINE c == [op |-> op, topics |-> ts, bulk |-> bulk]
             w == [op |-> op, topics |-> FlattenSeq([k \in 1..Len(ts) |-> Given(ts[k])])]
  <2>1. c.op = op /\ c.topics = ts /\ (c.bulk <=> bulk) OBVIOUS
  <2> HIDE DEF c
  <2>2. /\ c.op \in {OP_SUBSCRIBE, OP_UNSUBSCRIBE}
        /\ b = IF c.bulk THEN Joined(c.topics) ELSE c.topics[1]
    BY <1>2, <2>1, Zenon
  <2>3. read_command(as_bytes(c) \o tail)
          = IF Len(b) <= MAX_TOPIC_LENGTH
            THEN <<[op |-> c.op, topics |-> parse_topics(b)], tail>>
            ELSE Fail
    BY <1>2, <2>2, TopicsRead
  <2>4. op \notin {OP_PUBLISH, OP_PUBLISH_REPL}
    BY <1>2 DEF OP_PUBLISH, OP_SUBSCRIBE, OP_UNSUBSCRIBE, OP_PUBLISH_REPL
  <2>5. Fits(c) <=> Len(b) <= MAX_TOPIC_LENGTH
    <3>1. Fits(c) <=> (IF c.bulk THEN Len(FlattenSeq(c.topics)) + Len(c.topics)
                       ELSE Len(c.topics[1])) <= MAX_TOPIC_LENGTH
      BY <2>1, <2>2, <2>4, Zenon DEF Fits
    <3> QED BY <1>2, <2>1, <3>1, Zenon
  <2>6. <<c, w>>[1] = c /\ <<c, w>>[2] = w
    <3> HIDE DEF w
    <3> QED OBVIOUS
  <2>7. w = [op |-> c.op, topics |-> parse_topics(b)] BY <1>2, <2>1, Zenon
  <2> HIDE DEF w
  <2>8. Back(<<c, w>>, tail) BY <2>3, <2>5, <2>6, <2>7, Zenon
  <2> QED BY <2>8, Zenon DEF c, w
<1>3. ASSUME Inputs, NEW tail \in Bytes,
             NEW op \in {OP_SUBSCRIBE, OP_UNSUBSCRIBE}, NEW bulk \in BOOLEAN
      PROVE  Back(Topics(op, <<text>>, bulk), tail)
  <2> DEFINE ts == <<text>>
             b == IF bulk THEN Cat(text, Zero) ELSE text
  <2>1. text \in Bytes /\ IsText(text) BY <1>3, InputBytes
  <2>2. Len(ts) = 1 /\ ts[1] = text OBVIOUS
  <2>3. Joined(ts) = Cat(text, Zero) /\ FlattenSeq(ts) = text
        /\ FlattenSeq([k \in 1..Len(ts) |-> Given(ts[k])]) = Given(text)
    BY <2>1, <2>2, OneText
  <2>4. b \in Bytes BY <2>1, ZeroTypes, CatTypes, Zenon
  <2>5. (IF bulk THEN Len(FlattenSeq(ts)) + Len(ts) ELSE Len(ts[1])) = Len(b)
    <3>1. Len(Cat(text, Zero)) = Len(text) + 1
      <4>1. IsCat(Cat(text, Zero), text, Zero) BY <2>1, ZeroTypes, CatProperties, Zenon
      <4> QED BY <4>1, ZeroTypes DEF IsCat
    <3> HIDE DEF ts
    <3> QED BY <2>2, <2>3, <3>1, Zenon
  <2>6. parse_topics(b) = Given(text) BY <2>1, ParsedOne, Zenon
  <2>7. b = IF bulk THEN Joined(ts) ELSE ts[1]
    <3> HIDE DEF ts
    <3> QED BY <2>2, <2>3, Zenon
  <2>8. parse_topics(b) = FlattenSeq([k \in 1..Len(ts) |-> Given(ts[k])])
    <3> HIDE DEF b
    <3> QED BY <2>3, <2>6, Zenon
  <2> HIDE DEF ts, b, Back, Topics
  <2>9. Back(Topics(op, ts, bulk), tail)
    BY <1>2, <1>3, <2>4, <2>5, <2>7, <2>8, Zenon
  <2> QED BY <2>9, Zenon DEF ts
<1>4. ASSUME Inputs, NEW tail \in Bytes, NEW op \in {OP_SUBSCRIBE, OP_UNSUBSCRIBE}
      PROVE  Back(Topics(op, <<text, other>>, TRUE), tail)
  <2> DEFINE ts == <<text, other>>
             b == Cat(Cat(text, Zero), Cat(other, Zero))
  <2>1. text \in Bytes /\ IsText(text) /\ other \in Bytes /\ IsText(other)
    BY <1>4, InputBytes
  <2>2. Len(ts) = 2 OBVIOUS
  <2>3. /\ Joined(ts) = b /\ FlattenSeq(ts) = Cat(text, other)
        /\ FlattenSeq([k \in 1..Len(ts) |-> Given(ts[k])]) = Given(text) \o Given(other)
    BY <2>1, TwoTexts
  <2>4. b \in Bytes BY <2>1, ZeroTypes, CatTypes, Zenon
  <2>5. Len(FlattenSeq(ts)) + Len(ts) = Len(b)
    <3>1. /\ IsCat(Cat(text, Zero), text, Zero) /\ IsCat(Cat(other, Zero), other, Zero)
          /\ IsCat(Cat(text, other), text, other)
      BY <2>1, ZeroTypes, CatProperties, Zenon
    <3>2. IsCat(b, Cat(text, Zero), Cat(other, Zero))
      BY <2>1, ZeroTypes, CatTypes, CatProperties, Zenon
    <3> HIDE DEF ts, b
    <3> QED BY <2>2, <2>3, <3>1, <3>2, ZeroTypes DEF IsCat
  <2>6. parse_topics(b) = Given(text) \o Given(other) BY <2>1, ParsedTwo, Zenon
  <2> HIDE DEF ts, b
  <2>7. b = IF TRUE THEN Joined(ts) ELSE ts[1] BY <2>3, Zenon
  <2>8. parse_topics(b) = FlattenSeq([k \in 1..Len(ts) |-> Given(ts[k])])
    BY <2>3, <2>6, Zenon
  <2>9. (IF TRUE THEN Len(FlattenSeq(ts)) + Len(ts) ELSE Len(ts[1])) = Len(b)
    BY <2>5, Zenon
  <2> HIDE DEF Back, Topics
  <2>10. Back(Topics(op, ts, TRUE), tail)
    BY <1>2, <1>4, <2>4, <2>7, <2>8, <2>9, Zenon
  <2> QED BY <2>10, Zenon DEF ts
<1>5. ASSUME Inputs, NEW tail \in Bytes PROVE Back(<<offer, offer>>, tail)
  <2>1. read_command(as_bytes(offer) \o tail)
          = IF Len(text) <= MAX_TOPIC_LENGTH THEN <<offer, tail>> ELSE Fail
    BY <1>5, InputBytes, OfferRead
  <2>2. /\ offer.op = OP_PUBLISH_REPL /\ offer.topic = text
        /\ OP_PUBLISH_REPL \notin {OP_SUBSCRIBE, OP_UNSUBSCRIBE, OP_PUBLISH}
    BY DEF OP_PUBLISH, OP_SUBSCRIBE, OP_UNSUBSCRIBE, OP_PUBLISH_REPL
  <2> HIDE DEF offer
  <2>3. Fits(offer) <=> Len(text) <= MAX_TOPIC_LENGTH BY <2>2, Zenon DEF Fits
  <2>4. <<offer, offer>>[1] = offer /\ <<offer, offer>>[2] = offer OBVIOUS
  <2> QED BY <2>1, <2>3, <2>4, Zenon
<1>6. ASSUME Inputs, NEW tail \in Bytes, text # <<>>
      PROVE  Back(<<publish, publish>>, tail)
  <2>1. read_command(as_bytes(publish) \o tail)
          = IF Len(text) + Len(data) < MAX_PUB_SIZE THEN <<publish, tail>> ELSE Fail
    <3>1. 0 \in Nat OBVIOUS
    <3> QED BY <1>6, <3>1, InputBytes, PublishRead, Zenon
  <2>2. /\ publish.op = OP_PUBLISH /\ publish.topic = text /\ publish.data = data
        /\ OP_PUBLISH \notin {OP_SUBSCRIBE, OP_UNSUBSCRIBE, OP_PUBLISH_REPL}
    BY DEF OP_PUBLISH, OP_SUBSCRIBE, OP_UNSUBSCRIBE, OP_PUBLISH_REPL
  <2> HIDE DEF publish
  <2>3. Fits(publish) <=> Len(text) + Len(data) < MAX_PUB_SIZE BY <2>2, Zenon DEF Fits
  <2>4. <<publish, publish>>[1] = publish /\ <<publish, publish>>[2] = publish OBVIOUS
  <2> QED BY <2>1, <2>3, <2>4, Zenon
<1>7. Inputs => CommandsReadBack
  <2> SUFFICES ASSUME Inputs, NEW tail \in Tails
               PROVE  /\ \A c \in Commands : Back(c, tail)
                      /\ LET m == [prio |-> 1, time |-> 7, data |-> data] IN
                         read_repl_body(repl_body(m) \o tail)
                           = IF Len(data) <= MAX_PUB_SIZE THEN <<m, tail>> ELSE Fail
    BY Zenon DEF CommandsReadBack
  <2>1. tail \in Bytes BY TailTypes
  <2>2. ASSUME NEW c \in Commands PROVE Back(c, tail)
    <3> DEFINE N(op) == <<[op |-> op], [op |-> op]>>
               A(op) == Topics(op, <<text>>, FALSE)
               B(op) == Topics(op, <<text>>, TRUE)
               C(op) == Topics(op, <<text, other>>, TRUE)
               o == <<offer, offer>>
               p == <<publish, publish>>
    <3>1. Commands = {N(op) : op \in {OP_NOP, OP_BYE}}
                     \union (UNION {{A(op), B(op), C(op)} :
                                      op \in {OP_SUBSCRIBE, OP_UNSUBSCRIBE}})
                     \union {o}
                     \union (IF text = <<>> THEN {} ELSE {p})
      BY Zenon DEF Commands, Given
    <3> HIDE DEF N, A, B, C, o, p
    <3>2. \/ \E op \in {OP_NOP, OP_BYE} : c = N(op)
          \/ \E op \in {OP_SUBSCRIBE, OP_UNSUBSCRIBE} : c \in {A(op), B(op), C(op)}
          \/ c = o
          \/ text # <<>> /\ c = p
      BY <2>2, <3>1
    <3>3. TRUE \in BOOLEAN /\ FALSE \in BOOLEAN OBVIOUS
    <3> HIDE DEF Back, Topics, publish, offer
    <3>4. CASE \E op \in {OP_NOP, OP_BYE} : c = N(op)
      BY <1>1, <2>1, <3>4, Zenon DEF N
    <3>5. CASE \E op \in {OP_SUBSCRIBE, OP_UNSUBSCRIBE} : c \in {A(op), B(op), C(op)}
      BY <1>3, <1>4, <2>1, <3>3, <3>5, Zenon DEF A, B, C
    <3>6. CASE c = o BY <1>5, <2>1, <3>6, Zenon DEF o
    <3>7. CASE text # <<>> /\ c = p BY <1>6, <2>1, <3>7, Zenon DEF p
    <3> QED BY <3>2, <3>4, <3>5, <3>6, <3>7, Zenon
  <2>3. LET m == [prio |-> 1, time |-> 7, data |-> data] IN
        read_repl_body(repl_body(m) \o tail)
          = IF Len(data) <= MAX_PUB_SIZE THEN <<m, tail>> ELSE Fail
    <3>1. 1 \in Nat /\ 7 \in Nat BY SMT
    <3> QED BY <2>1, <3>1, InputBytes, BodyRead, Zenon
  <2> HIDE DEF Back
  <2> QED BY <2>2, <2>3, Zenon
<1> QED BY <1>7, InputTypes, PTL

(* run_data_stream reads what push_to_subscribers wrote, whatever follows, *)
(* and leaves what follows.                                                *)
THEOREM MessagesArrive == Spec => []MessagesReadBack
<1>1. Inputs => MessagesReadBack
  <2> SUFFICES ASSUME Inputs, NEW tail \in Tails
               PROVE  LET m == [prio |-> 0, topic |-> text, data |-> data] IN
                      /\ read_message(message_frame(m) \o tail) = <<<<m>>, tail>>
                      /\ read_message(<<OP_NOP>> \o tail) = <<<<>>, tail>>
    BY Zenon DEF MessagesReadBack
  <2>1. tail \in Bytes BY TailTypes
  <2>2. 0 \in Nat OBVIOUS
  <2>3. LET m == [prio |-> 0, topic |-> text, data |-> data] IN
        read_message(message_frame(m) \o tail) = <<<<m>>, tail>>
    BY <2>1, <2>2, InputBytes, MessageReadBack, ZenonT(60)
  <2> DEFINE s == <<OP_NOP>> \o tail
  <2>4. Head(s) = OP_NOP /\ Tail(s) = tail BY <2>1 DEF Bytes
  <2> HIDE DEF s
  <2>5. read_message(s) = <<<<>>, tail>>
    <3>1. RESPONSE_OK # OP_NOP BY DEF RESPONSE_OK, OP_NOP
    <3> QED BY <2>4, <3>1, Zenon DEF read_message
  <2> QED BY <2>3, <2>5, Zenon DEF s
<1> QED BY <1>1, InputTypes, PTL

PlainAs(op, who, t, d, excess) ==
    IF op \notin UdpOps THEN Refused(FALSE)
    ELSE IF excess <= 0 THEN Whole(op, who, t, d)
    ELSE IF excess - Len(d) <= 0 THEN Whole(op, who, t, Cut(d, -(excess - Len(d))))
    ELSE Refused(op = OP_PUBLISH /\ excess - Len(d) <= Len(t))

SealedAs(op, who, t, d, excess) ==
    IF op \notin UdpOps THEN Refused(FALSE)
    ELSE IF excess <= 0 THEN Whole(op, who, t, d)
    ELSE Refused(FALSE)

\* how much of a packet of w bytes the buffer holds
Held(w) == IF w <= UDP_FRAME_SIZE THEN w ELSE UDP_FRAME_SIZE

(* What fits the buffer of a plain packet is taken for what it should be.  *)
LEMMA PlainFits ==
    ASSUME NEW op, NEW login, NEW secret, NEW t, NEW d,
           UdpTexts(op, login, secret, t, d)
    PROVE  PlainOf(op, login, secret, t, d, Held(PlainSize(login, secret, t, d)))
             = PlainAs(op, <<login, secret>>, t, d,
                       PlainSize(login, secret, t, d) - UDP_FRAME_SIZE)
<1> DEFINE whole == PlainSize(login, secret, t, d)
           n == Held(whole)
<1>0. /\ login \in Bytes /\ secret \in Bytes /\ t \in Bytes /\ Len(t) > 0
      /\ d \in Bytes /\ whole = 10 + Len(login) + Len(secret) + Len(t) + Len(d)
      /\ n = IF whole <= UDP_FRAME_SIZE THEN whole ELSE UDP_FRAME_SIZE
  BY Zenon DEF UdpTexts, PlainSize, Held
<1> HIDE DEF whole, n
<1> SUFFICES PlainOf(op, login, secret, t, d, n)
               = PlainAs(op, <<login, secret>>, t, d, whole - UDP_FRAME_SIZE)
  BY Zenon DEF whole, n
<1> USE <1>0
<1> DEFINE lt == Len(t)
           ld == Len(d)
           m == n - 7 - Len(login) - Len(secret)
           excess == whole - UDP_FRAME_SIZE
           short == excess - ld
           block == BlockOf(op, DEFAULT_PRIORITY, t, d, m)
           who == <<login, secret>>
           plain == PlainOf(op, login, secret, t, d, n)
           as == PlainAs(op, who, t, d, excess)
<1>1. /\ Len(login) \in Nat /\ Len(secret) \in Nat /\ lt \in Nat /\ lt > 0
      /\ ld \in Nat /\ UDP_FRAME_SIZE \in Nat
  BY LimitAssumption DEF Bytes
<1>2. /\ m \in Int /\ short \in Int /\ excess \in Int /\ short = excess - ld
      /\ excess <= 0 => m = 3 + lt + ld
      /\ excess > 0 => m = 3 + lt - short
  BY <1>1
<1>3. /\ m < 0 => plain = Refused(FALSE)
      /\ ~(m < 0) => plain = Read(who, block)
  BY Zenon DEF PlainOf
<1>4. as = IF op \notin UdpOps THEN Refused(FALSE)
           ELSE IF excess <= 0 THEN Whole(op, who, t, d)
           ELSE IF short <= 0 THEN Whole(op, who, t, Cut(d, -short))
           ELSE Refused(op = OP_PUBLISH /\ short <= lt)
  BY Zenon DEF PlainAs
<1>5. block = IF m < 3 \/ op \notin UdpOps THEN Refused(FALSE)
              ELSE IF m < 3 + lt THEN Refused(op = OP_PUBLISH)
              ELSE [op |-> op, prio |-> DEFAULT_PRIORITY, topic |-> t,
                    data |-> Cut(d, m - 3 - lt)]
  BY Zenon DEF BlockOf
<1>6. ld = Len(d) OBVIOUS
<1> HIDE DEF m, short, excess, plain, as, who, block, lt, ld
<1>7. CASE op \notin UdpOps
  <2>1. block = Refused(FALSE) BY <1>5, <1>7, Zenon
  <2>2. Read(who, block) = Refused(FALSE) BY <2>1, RefusedStays, Zenon
  <2>3. as = Refused(FALSE) BY <1>4, <1>7, Zenon
  <2> QED BY <1>3, <2>2, <2>3, Zenon DEF plain, as, excess, who
<1>8. CASE op \in UdpOps /\ ~(m < 3 + lt)
  <2> DEFINE cut == Cut(d, m - 3 - lt)
  <2>1. ~(m < 0) /\ ~(m < 3) BY <1>1, <1>2, <1>8
  <2>2. block = Content(op, t, cut) BY <1>5, <1>8, <2>1, Zenon DEF Content
  <2> HIDE DEF cut
  <2>3. Read(who, block) = Whole(op, who, t, cut)
    BY <2>2, NotRefused, Zenon
  <2>4. cut = IF excess <= 0 THEN d ELSE Cut(d, -short)
    <3>1. CASE excess <= 0
      <4>1. m - 3 - lt = ld BY <1>1, <1>2, <3>1
      <4>2. Cut(d, ld) = d BY <1>6, CutNothing
      <4> QED BY <3>1, <4>1, <4>2 DEF cut
    <3>2. CASE ~(excess <= 0)
      <4>1. m - 3 - lt = -short BY <1>1, <1>2, <3>2
      <4> QED BY <3>2, <4>1 DEF cut
    <3> QED BY <3>1, <3>2
  <2>5. excess <= 0 \/ short <= 0 BY <1>1, <1>2, <1>8
  <2>6. as = Whole(op, who, t, cut) BY <1>4, <1>8, <2>4, <2>5, Zenon
  <2> QED BY <1>3, <2>1, <2>3, <2>6, Zenon DEF plain, as, excess, who
<1>9. CASE op \in UdpOps /\ m < 3 + lt
  <2>1. ~(excess <= 0) /\ ~(short <= 0) BY <1>1, <1>2, <1>9
  <2>2. as = Refused(op = OP_PUBLISH /\ short <= lt) BY <1>4, <1>9, <2>1, Zenon
  <2>3. CASE m < 3
    <3>1. ~(short <= lt) BY <1>1, <1>2, <2>1, <2>3
    <3>2. (op = OP_PUBLISH /\ short <= lt) = FALSE BY <3>1, Zenon
    <3>3. as = Refused(FALSE) BY <2>2, <3>2, Zenon
    <3>4. block = Refused(FALSE) BY <1>5, <2>3, Zenon
    <3>5. Read(who, block) = Refused(FALSE) BY <3>4, RefusedStays, Zenon
    <3> QED BY <1>3, <3>3, <3>5, Zenon DEF plain, as, excess, who
  <2>4. CASE ~(m < 3)
    <3>1. short <= lt /\ ~(m < 0) BY <1>1, <1>2, <2>1, <2>4
    <3>2. (op = OP_PUBLISH /\ short <= lt) = (op = OP_PUBLISH) BY <3>1, Zenon
    <3>3. as = Refused(op = OP_PUBLISH) BY <2>2, <3>2, Zenon
    <3>4. block = Refused(op = OP_PUBLISH) BY <1>5, <1>9, <2>4, Zenon
    <3>5. Read(who, block) = Refused(op = OP_PUBLISH)
      <4>1. (op = OP_PUBLISH) \in BOOLEAN BY Zenon
      <4> QED BY <3>4, <4>1, RefusedStays, Zenon
    <3> QED BY <1>3, <3>1, <3>3, <3>5, Zenon DEF plain, as, excess, who
  <2> QED BY <2>3, <2>4
<1>10. m < 3 + lt \/ ~(m < 3 + lt) OBVIOUS
<1> QED BY <1>7, <1>8, <1>9, <1>10, Zenon

PlainTaken(op, login, secret, t, d, key) ==
    LET f == Unsealed(Plain(op, login, secret, t, d)) IN
    read_packet(received(f), key)
      = PlainAs(op, <<login, secret>>, t, d, size(f) - UDP_FRAME_SIZE)

(* A plain packet is taken for what it should be.                          *)
LEMMA PlainReceived ==
    ASSUME NEW op, NEW login, NEW secret, NEW t, NEW d,
           UdpTexts(op, login, secret, t, d), NEW key
    PROVE  PlainTaken(op, login, secret, t, d, key)
<1> DEFINE f == Unsealed(Plain(op, login, secret, t, d))
<1> SUFFICES read_packet(received(f), key)
               = PlainAs(op, <<login, secret>>, t, d, size(f) - UDP_FRAME_SIZE)
  BY Zenon DEF PlainTaken
<1> DEFINE c == Plain(op, login, secret, t, d)
           whole == PlainSize(login, secret, t, d)
           n == Held(whole)
           g == Unsealed(Cut(c, n))
<1>1. whole \in Nat /\ n \in Nat /\ n \in 0..whole
  <2>1. /\ Len(login) \in Nat /\ Len(secret) \in Nat /\ Len(t) \in Nat
        /\ Len(d) \in Nat /\ UDP_FRAME_SIZE \in Nat
    BY LimitAssumption DEF UdpTexts, Bytes
  <2> QED BY <2>1 DEF PlainSize, Held
<1>2. n = IF whole <= UDP_FRAME_SIZE THEN whole ELSE UDP_FRAME_SIZE BY Zenon DEF Held
<1>3. PlainOf(op, login, secret, t, d, n)
        = PlainAs(op, <<login, secret>>, t, d, whole - UDP_FRAME_SIZE)
  BY PlainFits, Zenon
<1> HIDE DEF n
<1>4. /\ c \in Bytes /\ Len(c) = whole
      /\ read_packet(g, key) = PlainOf(op, login, secret, t, d, n)
  <2>1. ReadAsFar(op, login, secret, t, d, n, key) BY <1>1, PlainRead, Zenon
  <2> QED BY <2>1, Zenon DEF ReadAsFar
<1>5. f = Unsealed(c) /\ f.clear = c /\ f.sealed = <<>> BY Zenon DEF Unsealed
<1> HIDE DEF c, whole, f
<1>6. size(f) = whole
  <2>1. size(f) = Len(c) + 0 BY <1>5, Zenon DEF size
  <2> QED BY <1>1, <1>4, <2>1
<1>7. received(f) = g
  <2>1. CASE whole <= UDP_FRAME_SIZE
    <3>1. received(f) = f BY <1>6, <2>1, Zenon DEF received
    <3>2. n = Len(c) BY <1>2, <1>4, <2>1, Zenon
    <3>3. Cut(c, n) = c BY <1>4, <3>2, CutNothing, Zenon
    <3> QED BY <1>5, <3>1, <3>3, Zenon
  <2>2. CASE ~(whole <= UDP_FRAME_SIZE)
    <3>1. n = UDP_FRAME_SIZE BY <1>2, <2>2, Zenon
    <3>2. ~(Len(f.clear) <= UDP_FRAME_SIZE) BY <1>4, <1>5, <2>2, Zenon
    <3> QED BY <1>5, <1>6, <2>2, <3>1, <3>2, Zenon DEF received, Cut, Unsealed
  <2> QED BY <2>1, <2>2, Zenon
<1> HIDE DEF g
<1> QED BY <1>3, <1>4, <1>6, <1>7, Zenon

\* an encrypted packet
Encrypted(op, login, key, t, d) ==
    [clear  |-> Cat(preamble(AUTH_KEY_AES256_GCM), Cat(login, Zero)),
     sealed |-> <<[key |-> key, block |-> Block(op, t, d)]>>]

(* An encrypted packet is taken for what it should be.                     *)
LEMMA SealedReceived ==
    ASSUME NEW op, NEW login, NEW key, NEW t, NEW d,
           UdpTexts(op, login, key, t, d)
    PROVE  read_packet(received(Encrypted(op, login, key, t, d)), key)
             = SealedAs(op, <<login>>, t, d,
                        size(Encrypted(op, login, key, t, d)) - UDP_FRAME_SIZE)
<1> DEFINE f == Encrypted(op, login, key, t, d)
<1> SUFFICES read_packet(received(f), key)
               = SealedAs(op, <<login>>, t, d, size(f) - UDP_FRAME_SIZE)
  OBVIOUS
<1> USE DEF UdpTexts
<1> DEFINE s == Block(op, t, d)
           e == Cat(login, Zero)
           c == Cat(preamble(AUTH_KEY_AES256_GCM), e)
           x == [key |-> key, block |-> s]
           excess == size(f) - UDP_FRAME_SIZE
<1>1. /\ Len(login) \in Nat /\ Len(t) \in Nat /\ Len(d) \in Nat
      /\ UDP_FRAME_SIZE \in Nat /\ SealSize \in Nat
  BY LimitAssumption DEF Bytes
<1>2. DEFAULT_PRIORITY \in Nat /\ DEFAULT_PRIORITY \in Nat \ {0} BY DEF DEFAULT_PRIORITY
<1>3. s \in Bytes /\ Len(s) = 3 + Len(t) + Len(d)
  <2> DEFINE u == Cat(<<op, DEFAULT_PRIORITY>>, t)
  <2>1. op \in Nat OBVIOUS
  <2>2. u \in Bytes /\ Len(u) = 2 + Len(t)
    BY <1>2, <2>1, AfterTwoBytes, Zenon DEF IsHeaded
  <2> HIDE DEF u
  <2>3. s \in Bytes /\ Len(s) = Len(u) + 1 + Len(d)
    BY <2>2, Ended, Zenon DEF u, Block
  <2> HIDE DEF s
  <2> QED BY <1>1, <2>2, <2>3
<1>4. read_block(s) = IF op \notin UdpOps THEN Refused(FALSE)
                      ELSE [op |-> op, prio |-> DEFAULT_PRIORITY,
                            topic |-> t, data |-> d]
  <2> DEFINE m == 3 + Len(t) + Len(d)
  <2>1. m \in 0..(3 + Len(t) + Len(d)) BY <1>1
  <2>2. /\ ~(m < 3) /\ ~(m < 3 + Len(t)) /\ m - 3 - Len(t) = Len(d) BY <1>1
  <2>3. m = Len(s) BY <1>3, Zenon
  <2> HIDE DEF m
  <2>4. read_block(Cut(s, m)) = BlockOf(op, DEFAULT_PRIORITY, t, d, m)
    BY <1>2, <2>1, BlockRead, ZenonT(60) DEF Block
  <2> HIDE DEF s
  <2>5. Cut(s, m) = s BY <1>3, <2>3, CutNothing, Zenon
  <2>6. Cut(d, m - 3 - Len(t)) = d BY <2>2, CutNothing, Zenon
  <2> QED BY <2>2, <2>4, <2>5, <2>6, Zenon DEF BlockOf
<1> HIDE DEF s
<1>5. s # Fail BY <1>1, <1>3 DEF Fail
<1>6. e \in Bytes /\ Zeros(e) # {} /\ Before(e) = login
  BY TextBeforeZero, ZeroTypes, CatTypes, Zenon
<1> HIDE DEF e
<1>7. c \in Bytes /\ Len(c) = 5 + Len(e) /\ Len(e) \in Nat
  <2>1. preamble(AUTH_KEY_AES256_GCM) \in Bytes /\ Len(preamble(AUTH_KEY_AES256_GCM)) = 5
    BY PreambleIs
  <2>2. IsCat(c, preamble(AUTH_KEY_AES256_GCM), e) BY <1>6, <2>1, CatProperties, Zenon
  <2> HIDE DEF c
  <2> QED BY <2>1, <2>2 DEF IsCat
<1>8. ASSUME NEW n \in 0..Len(c)
      PROVE  /\ n < 5 => ~ValidPreamble(Cut(c, n))
             /\ n >= 5 => /\ ValidPreamble(Cut(c, n))
                          /\ Cut(c, n)[5] = AUTH_KEY_AES256_GCM
                          /\ From(Cut(c, n), 6) = Cut(e, n - 5)
  <2>1. n \in 0..(5 + Len(e)) BY <1>7
  <2>2. AUTH_KEY_AES256_GCM \in {AUTH_LOGIN_PASS, AUTH_KEY_AES256_GCM} OBVIOUS
  <2> QED BY <1>6, <2>1, <2>2, PreambleCut, Zenon
<1>9. /\ f.clear = c /\ f.sealed = <<x>> /\ x.key = key /\ x.block = s
  BY Zenon DEF e, s, Encrypted
<1> HIDE DEF c, x, f
<1>10. f.sealed # <<>> /\ f.sealed[1] = x
  <2>1. <<x>> # <<>> /\ <<x>>[1] = x OBVIOUS
  <2> QED BY <1>9, <2>1, Zenon
<1>11. size(f) \in Int
  <2>1. size(f) = Len(c) + (SealSize + Len(s)) BY <1>9, <1>10, Zenon DEF size
  <2> QED BY <1>1, <1>3, <1>7, <2>1
<1>12. AUTH_KEY_AES256_GCM # AUTH_LOGIN_PASS
  BY DEF AUTH_KEY_AES256_GCM, AUTH_LOGIN_PASS
<1>13. CASE size(f) <= UDP_FRAME_SIZE
  <2>1. excess <= 0 BY <1>1, <1>11, <1>13
  <2>2. received(f) = f BY <1>13, Zenon DEF received
  <2>3. ValidPreamble(c) /\ c[5] = AUTH_KEY_AES256_GCM /\ From(c, 6) = e
    <3>1. Cut(c, Len(c)) = c /\ Cut(e, Len(e)) = e BY <1>6, <1>7, CutNothing
    <3>2. Len(c) \in 0..Len(c) /\ Len(c) >= 5 /\ Len(c) - 5 = Len(e) BY <1>7
    <3>3. /\ ValidPreamble(Cut(c, Len(c))) /\ Cut(c, Len(c))[5] = AUTH_KEY_AES256_GCM
          /\ From(Cut(c, Len(c)), 6) = Cut(e, Len(c) - 5)
      BY <1>8, <3>2, Zenon
    <3> QED BY <3>1, <3>2, <3>3, Zenon
  <2>4. auth_and_decr(f.sealed, key) = s BY <1>9, <1>10, Zenon DEF auth_and_decr
  <2>5. read_packet(f, key) = Read(<<login>>, read_block(s))
    BY <1>5, <1>6, <1>9, <1>12, <2>3, <2>4, Zenon DEF read_packet, Read
  <2>6. CASE op \in UdpOps
    <3>1. Read(<<login>>, read_block(s)) = Whole(op, <<login>>, t, d)
      <4>1. read_block(s) = Content(op, t, d) BY <1>4, <2>6, Zenon DEF Content
      <4> QED BY <4>1, NotRefused, Zenon
    <3> HIDE DEF excess
    <3>2. SealedAs(op, <<login>>, t, d, excess) = Whole(op, <<login>>, t, d)
      BY <2>1, <2>6, Zenon DEF SealedAs
    <3> QED BY <2>2, <2>5, <3>1, <3>2, Zenon DEF excess
  <2>7. CASE op \notin UdpOps
    <3>1. Read(<<login>>, read_block(s)) = Refused(FALSE)
      BY <1>4, <2>7, RefusedStays, Zenon
    <3> QED BY <2>2, <2>5, <2>7, <3>1, Zenon DEF SealedAs
  <2> QED BY <2>6, <2>7, Zenon
<1>14. CASE ~(size(f) <= UDP_FRAME_SIZE)
  <2> DEFINE n == IF Len(c) <= UDP_FRAME_SIZE THEN Len(c) ELSE UDP_FRAME_SIZE
             g == [clear |-> Cut(c, n), sealed |-> <<>>]
  <2>1. ~(excess <= 0) BY <1>1, <1>11, <1>14
  <2>2. n \in 0..Len(c) /\ n \in Nat BY <1>1, <1>7
  <2>3. received(f) = g
    <3>1. Cut(c, n) = IF Len(c) <= UDP_FRAME_SIZE THEN c ELSE SubSeq(c, 1, UDP_FRAME_SIZE)
      <4>1. CASE Len(c) <= UDP_FRAME_SIZE BY <1>7, <4>1, CutNothing
      <4>2. CASE ~(Len(c) <= UDP_FRAME_SIZE) BY <4>2 DEF Cut
      <4> QED BY <4>1, <4>2
    <3> HIDE DEF n
    <3> QED BY <1>9, <1>14, <3>1, Zenon DEF received
  <2>4. g.clear = Cut(c, n) /\ g.sealed = <<>> BY Zenon
  <2> HIDE DEF n, g
  <2>5. auth_and_decr(g.sealed, key) = Fail BY <2>4, Zenon DEF auth_and_decr
  <2>6. ValidPreamble(g.clear) => g.clear[5] # AUTH_LOGIN_PASS
    <3>1. n < 5 \/ n >= 5 BY <2>2
    <3> QED BY <1>8, <1>12, <2>2, <2>4, <3>1, Zenon
  <2>7. read_packet(g, key) = Refused(FALSE)
    BY <2>5, <2>6, Zenon DEF read_packet
  <2> HIDE DEF excess
  <2>8. SealedAs(op, <<login>>, t, d, excess) = Refused(FALSE)
    BY <2>1, Zenon DEF SealedAs
  <2> QED BY <2>3, <2>7, <2>8, Zenon DEF excess
<1> QED BY <1>13, <1>14, Zenon

\* what a packet is to be taken for, as PacketsReadBack says it
TakenAs(p) ==
    LET excess == Excess(p)
        short  == excess - Len(p.data)
    IN  IF p.op \notin UdpOps THEN Refused(FALSE)
        ELSE IF excess <= 0 THEN Told(p, p.data)
        ELSE IF p.encrypt THEN Refused(FALSE)
        ELSE IF short <= 0 THEN Told(p, SubSeq(p.data, 1, -short))
        ELSE Refused(p.op = OP_PUBLISH /\ short <= Len(p.topic))

IsPacket(p) == UdpTexts(p.op, p.login, p.secret, p.topic, p.data)

(* Every packet is taken for what it should be.                            *)
LEMMA PacketTaken ==
    ASSUME NEW p, IsPacket(p)
    PROVE  Taken(p) = TakenAs(p)
<1> DEFINE f == packet(p)
<1>1. Taken(p) = read_packet(received(f), p.secret)
      /\ Excess(p) = size(f) - UDP_FRAME_SIZE
  BY Zenon DEF Taken, Excess
<1>2. CASE p.encrypt
  <2>1. f = Encrypted(p.op, p.login, p.secret, p.topic, p.data)
    BY <1>2, Zenon DEF packet, Cat, Zero, Block, Encrypted
  <2> HIDE DEF f
  <2>2. read_packet(received(f), p.secret)
          = SealedAs(p.op, <<p.login>>, p.topic, p.data, size(f) - UDP_FRAME_SIZE)
    <3> DEFINE q == Encrypted(p.op, p.login, p.secret, p.topic, p.data)
    <3>1. UdpTexts(p.op, p.login, p.secret, p.topic, p.data) BY Zenon DEF IsPacket
    <3>2. read_packet(received(q), p.secret)
            = SealedAs(p.op, <<p.login>>, p.topic, p.data, size(q) - UDP_FRAME_SIZE)
      BY <3>1, SealedReceived, Zenon
    <3>3. f = q BY <2>1, Zenon
    <3> HIDE DEF q
    <3> QED BY <3>2, <3>3, Zenon
  <2>3. SealedAs(p.op, <<p.login>>, p.topic, p.data, Excess(p)) = TakenAs(p)
    BY <1>2, Zenon DEF SealedAs, TakenAs, Told, Whole, Content
  <2> QED BY <1>1, <2>2, <2>3, Zenon
<1>3. CASE ~p.encrypt
  <2>1. f = Unsealed(Plain(p.op, p.login, p.secret, p.topic, p.data))
    BY <1>3, Zenon DEF packet, Plain, Cat, Zero, Block, Unsealed
  <2> HIDE DEF f
  <2>2. read_packet(received(f), p.secret)
          = PlainAs(p.op, <<p.login, p.secret>>, p.topic, p.data, size(f) - UDP_FRAME_SIZE)
    <3> DEFINE q == Unsealed(Plain(p.op, p.login, p.secret, p.topic, p.data))
    <3>1. UdpTexts(p.op, p.login, p.secret, p.topic, p.data) BY Zenon DEF IsPacket
    <3>2. read_packet(received(q), p.secret)
            = PlainAs(p.op, <<p.login, p.secret>>, p.topic, p.data,
                      size(q) - UDP_FRAME_SIZE)
      <4>1. PlainTaken(p.op, p.login, p.secret, p.topic, p.data, p.secret)
        BY <3>1, PlainReceived, Zenon
      <4> QED BY <4>1, Zenon DEF PlainTaken
    <3>3. f = q BY <2>1, Zenon
    <3> HIDE DEF q
    <3> QED BY <3>2, <3>3, Zenon
  <2>3. PlainAs(p.op, <<p.login, p.secret>>, p.topic, p.data, Excess(p)) = TakenAs(p)
    BY <1>3, Zenon DEF PlainAs, TakenAs, Told, Whole, Content, Cut
  <2> QED BY <1>1, <2>2, <2>3, Zenon
<1> QED BY <1>2, <1>3, Zenon

(* handle_udp_listener, process_udp_packet and process_udp_block take a    *)
(* packet of UdpClient::publish_impl, with a password and with a key, for  *)
(* what was sent if it fits udp_frame_size; and what becomes of one that   *)
(* does not, for any login, password or key, payload and buffer.           *)
THEOREM PacketsArrive == Spec => []PacketsReadBack
<1>1. Inputs => PacketsReadBack
  <2> SUFFICES ASSUME Inputs, NEW p \in Packets PROVE Taken(p) = TakenAs(p)
    BY Zenon DEF PacketsReadBack, TakenAs, UdpOps
  <2>1. IsPacket(p)
    <3> DEFINE Ops == {OP_PUBLISH, OP_PUBLISH_NO_ACK, OP_SUBSCRIBE}
               Topics == {<<1>>, <<2, 2>>}
    <3>1. PICK op \in Ops, enc \in BOOLEAN, t \in Topics :
            p = [op |-> op, encrypt |-> enc, login |-> other, secret |-> text,
                 topic |-> t, data |-> data]
      BY DEF Packets
    <3>2. t \in Bytes /\ IsText(t) /\ Len(t) > 0
      <4>1. CASE t = <<1>> BY <4>1 DEF Bytes, IsText
      <4>2. CASE t = <<2, 2>> BY <4>2 DEF Bytes, IsText
      <4> QED BY <4>1, <4>2
    <3>3. op \in Nat \ {0} BY DEF OP_PUBLISH, OP_PUBLISH_NO_ACK, OP_SUBSCRIBE
    <3>4. /\ p.op = op /\ p.login = other /\ p.secret = text
          /\ p.topic = t /\ p.data = data
      BY <3>1
    <3> HIDE DEF Ops, Topics
    <3> QED BY <3>2, <3>3, <3>4, InputBytes, Zenon DEF IsPacket, UdpTexts
  <2> QED BY <2>1, PacketTaken, Zenon
<1> QED BY <1>1, InputTypes, PTL

(* The latency counted in handle_data_stream is the time that passed       *)
(* exactly when the clock did not go back and the time fits the width.     *)
THEOREM LatencyRange == Spec => []LatencyIsTrue
<1>1. Inputs => LatencyIsTrue
  BY LatencyExact DEF Inputs, LatencyIsTrue
<1> QED BY <1>1, InputTypes, PTL
=============================================================================
