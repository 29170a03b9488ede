------------------------- MODULE DecodeEngineProofs -------------------------
(***************************************************************************)
(* Proofs about DecodeEngine, for streams, blocks and requests of any size,*)
(* chains of any number of links and any number of operations of a         *)
(* reusable session: the inductive invariant EngineInv, that the first     *)
(* exception wins, that faults and only faults make an operation throw,    *)
(* and that the engine implements DecodeContract.  All but the second are  *)
(* proved for transports whose failures Java sees (FileReadErrors =        *)
(* FALSE).                                                                 *)
(***************************************************************************)
EXTENDS DecodeEngine, WellFoundedInduction, TLAPS

(***************************************************************************)
(* Sources and requests.                                                   *)
(***************************************************************************)

\* A chain is the links of one of the lengths a source may have.
LEMMA ChainTypes ==
  ASSUME NEW n \in 2 .. MaxLinks, NEW links \in Chain(n)
  PROVE  /\ Len(links) = n
         /\ MaxLength \div n \in Nat /\ n * (MaxLength \div n) <= MaxLength
         /\ \A k \in 1 .. n :
              /\ links[k].declared \in Nat /\ links[k].actual \in 0 .. MaxLength \div n
              /\ links[k].shape \in Nat /\ links[k].signed \in BOOLEAN
  <1> DEFINE q == MaxLength \div n
  <1>1. MaxLength \in Nat /\ n \in Nat /\ n > 0
    BY EngineAssumption
  <1>2. q \in Nat /\ n * q <= MaxLength
    BY <1>1
  <1>3. links \in [1 .. n -> Links(q, {1, 2})]
    BY DEF Chain
  <1> HIDE DEF q
  <1>4. Len(links) = n
    BY <1>1, <1>3
  <1>5. ASSUME NEW k \in 1 .. n
        PROVE  /\ links[k].declared \in Nat /\ links[k].actual \in 0 .. q
               /\ links[k].shape \in Nat /\ links[k].signed \in BOOLEAN
    <2>1. links[k] \in Links(q, {1, 2})
      BY <1>3
    <2> QED
      BY <1>2, <2>1 DEF Links
  <1> QED
    BY <1>2, <1>4, <1>5 DEF q

LEMMA LinkTypes ==
  ASSUME NEW s \in Sources
  PROVE  /\ Len(s.links) \in Nat \ {0}
         /\ s.java \in BOOLEAN /\ s.reusable \in BOOLEAN
         /\ s.reusable => Len(s.links) = 1
         /\ \A k \in 1 .. Len(s.links) :
              /\ s.links[k].declared \in Nat /\ s.links[k].actual \in Nat
              /\ s.links[k].shape \in Nat /\ s.links[k].signed \in BOOLEAN
         /\ Len(s.links) = 1 =>
              /\ s.links[1].declared = 0 \/ s.links[1].actual <= s.links[1].declared
              /\ s.links[1].declared <= MaxLength
         /\ \E q \in Nat :
              /\ Len(s.links) * q <= MaxLength
              /\ \A k \in 1 .. Len(s.links) : s.links[k].actual <= q
  <1>1. CASE s \in [links : {<<l>> : l \in Single}, java : BOOLEAN, reusable : BOOLEAN]
    <2>1. PICK l \in Single : s.links = <<l>>
      BY <1>1
    <2>2. l \in Links(MaxLength, {1}) /\ (l.declared = 0 \/ l.actual <= l.declared)
      BY DEF Single
    <2>3. /\ Len(s.links) = 1 /\ s.links[1] = l /\ s.java \in BOOLEAN /\ s.reusable \in BOOLEAN
      BY <1>1, <2>1
    <2>4. /\ l.declared \in Nat /\ l.actual \in Nat /\ l.shape \in Nat /\ l.signed \in BOOLEAN
          /\ l.declared <= MaxLength /\ l.actual <= MaxLength /\ MaxLength \in Nat
      BY <2>2, EngineAssumption DEF Links
    <2>5. /\ Len(s.links) * MaxLength <= MaxLength
          /\ \A k \in 1 .. Len(s.links) : s.links[k].actual <= MaxLength
      BY <2>3, <2>4
    <2> QED
      BY <2>2, <2>3, <2>4, <2>5
  <1>2. CASE s \in [links : UNION {Chain(n) : n \in 2 .. MaxLinks}, java : BOOLEAN,
                    reusable : {FALSE}]
    <2>1. PICK n \in 2 .. MaxLinks : s.links \in Chain(n)
      BY <1>2
    <2>2. s.java \in BOOLEAN /\ s.reusable \in BOOLEAN /\ ~s.reusable
      BY <1>2, Zenon
    <2> DEFINE q == MaxLength \div n
    <2>3. /\ Len(s.links) = n /\ q \in Nat /\ n * q <= MaxLength
          /\ \A k \in 1 .. n :
               /\ s.links[k].declared \in Nat /\ s.links[k].actual \in 0 .. q
               /\ s.links[k].shape \in Nat /\ s.links[k].signed \in BOOLEAN
      BY <2>1, ChainTypes
    <2> HIDE DEF q
    <2>4. n \in Nat \ {0, 1}
      BY EngineAssumption
    <2>5. \A k \in 1 .. n : s.links[k].actual \in Nat /\ s.links[k].actual <= q
      BY <2>3
    <2> QED
      BY <2>2, <2>3, <2>4, <2>5
  <1> QED
    BY <1>1, <1>2 DEF Sources

(***************************************************************************)
(* The ends of the links.                                                  *)
(***************************************************************************)

\* A set with 0 and the successor of each of its naturals has them all.
LEMMA SetInduction ==
  ASSUME NEW S, 0 \in S, \A n \in Nat : n \in S => n + 1 \in S
  PROVE  Nat \subseteq S
  <1> DEFINE missing == Nat \ S
             below == OpToRel(<, Nat)
  <1>1. SUFFICES ASSUME missing # {} PROVE FALSE
    OBVIOUS
  <1>2. IsWellFoundedOn(below, Nat)
    BY NatLessThanWellFounded, Zenon
  <1>3. PICK x \in missing : \A y \in missing : ~ (<<y, x>> \in below)
    <2>1. missing \in SUBSET Nat
      OBVIOUS
    <2> HIDE DEF missing, below
    <2> QED
      BY <1>1, <1>2, <2>1, WFMin
  <1>4. x \in Nat /\ x # 0
    OBVIOUS
  <1>5. x - 1 \in Nat /\ x - 1 < x /\ x - 1 + 1 = x
    BY <1>4
  <1>6. <<x - 1, x>> \in below
    BY <1>4, <1>5 DEF OpToRel
  <1>7. x - 1 \notin missing
    <2> HIDE DEF below
    <2> QED
      BY <1>3, <1>6
  <1> QED
    BY <1>4, <1>5, <1>7

\* g adds up the frames of the links up to n.
Adds(s, n, g) ==
  g = [k \in 0 .. n |-> IF k = 0 THEN 0 ELSE g[k - 1] + s.links[k].actual]

\* The recursion of LinkEnd has a solution, and LinkEnd is one.
LEMMA LinkEndAdds ==
  ASSUME NEW s \in Sources
  PROVE  Adds(s, Len(s.links), LinkEnd(s))
  <1> DEFINE Solved == {n \in Nat : \E g : Adds(s, n, g)}
  <1>1. 0 \in Solved
    <2> DEFINE g == [k \in 0 .. 0 |-> 0]
    <2>1. Adds(s, 0, g)
      BY DEF Adds
    <2> QED
      BY <2>1
  <1>2. ASSUME NEW n \in Nat, n \in Solved PROVE n + 1 \in Solved
    <2>1. PICK g : Adds(s, n, g)
      BY <1>2
    <2> DEFINE h == [k \in 0 .. (n + 1) |-> IF k = n + 1 THEN g[n] + s.links[n + 1].actual ELSE g[k]]
    <2>2. ASSUME NEW k \in 0 .. (n + 1)
          PROVE  h[k] = IF k = 0 THEN 0 ELSE h[k - 1] + s.links[k].actual
      <3>1. CASE k = n + 1
        <4>1. k # 0 /\ k - 1 = n /\ n # n + 1 /\ n \in 0 .. (n + 1)
          BY <3>1
        <4> QED
          BY <3>1, <4>1
      <3>2. CASE k # n + 1
        <4>1. k \in 0 .. n /\ h[k] = g[k]
          BY <3>2
        <4>2. g[k] = IF k = 0 THEN 0 ELSE g[k - 1] + s.links[k].actual
          BY <2>1, <4>1 DEF Adds
        <4>3. k # 0 => h[k - 1] = g[k - 1]
          BY <4>1
        <4> QED
          BY <4>1, <4>2, <4>3
      <3> QED
        BY <3>1, <3>2
    <2>3. Adds(s, n + 1, h)
      BY <2>2 DEF Adds
    <2> HIDE DEF h
    <2> QED
      BY <2>3
  <1>3. Len(s.links) \in Nat
    BY LinkTypes
  <1>4. \E g : Adds(s, Len(s.links), g)
    <2> HIDE DEF Solved
    <2>1. Nat \subseteq Solved
      BY <1>1, <1>2, SetInduction
    <2> QED
      BY <1>3, <2>1 DEF Solved
  <1> DEFINE F(g) == [k \in 0 .. Len(s.links) |-> IF k = 0 THEN 0 ELSE g[k - 1] + s.links[k].actual]
  <1>5. LinkEnd(s) = CHOOSE g : g = F(g)
    BY DEF LinkEnd
  <1>6. \E g : g = F(g)
    BY <1>4 DEF Adds
  <1>7. LinkEnd(s) = F(LinkEnd(s))
    BY <1>5, <1>6
  <1> QED
    BY <1>7 DEF Adds

\* The recursion unfolded; the ends ascend, and a stream is no longer than its bound.
LEMMA LinkEnds ==
  ASSUME NEW s \in Sources
  PROVE  /\ LinkEnd(s)[0] = 0 /\ LinkEnd(s)[1] = s.links[1].actual
         /\ \A k \in 0 .. Len(s.links) :
              LinkEnd(s)[k] \in Nat /\ LinkEnd(s)[k] <= LinkEnd(s)[Len(s.links)]
         /\ \A k \in 1 .. Len(s.links) : LinkEnd(s)[k] = LinkEnd(s)[k - 1] + s.links[k].actual
         /\ LinkEnd(s)[Len(s.links)] <= MaxLength
  <1> DEFINE N == Len(s.links)
             e == LinkEnd(s)
  <1>1. N \in Nat \ {0} /\ \A k \in 1 .. N : s.links[k].actual \in Nat
    BY LinkTypes
  <1>2. PICK q \in Nat : N * q <= MaxLength /\ \A k \in 1 .. N : s.links[k].actual <= q
    BY LinkTypes
  <1>3. e = [k \in 0 .. N |-> IF k = 0 THEN 0 ELSE e[k - 1] + s.links[k].actual]
    BY LinkEndAdds DEF Adds
  <1> HIDE DEF N, e
  <1>4. e[0] = 0 /\ \A k \in 1 .. N : e[k] = e[k - 1] + s.links[k].actual
    <2>1. 0 \in 0 .. N
      BY <1>1
    <2>2. e[0] = 0
      BY <1>3, <2>1
    <2>3. ASSUME NEW k \in 1 .. N PROVE e[k] = e[k - 1] + s.links[k].actual
      <3>1. k \in 0 .. N /\ k # 0
        BY <1>1
      <3> QED
        BY <1>3, <3>1
    <2> QED
      BY <2>2, <2>3
  \* from the front: the first n links hold at most n * q frames
  <1>5. \A n \in 0 .. N : e[n] \in Nat /\ e[n] <= n * q
    <2> DEFINE S == {n \in Nat : n <= N => e[n] \in Nat /\ e[n] <= n * q}
    <2>1. 0 \in S
      BY <1>1, <1>2, <1>4
    <2>2. ASSUME NEW n \in Nat, n \in S PROVE n + 1 \in S
      <3>1. SUFFICES ASSUME n + 1 <= N PROVE e[n + 1] \in Nat /\ e[n + 1] <= (n + 1) * q
        OBVIOUS
      <3>2. n <= N /\ n + 1 \in 1 .. N /\ (n + 1) - 1 = n
        BY <1>1, <3>1
      <3>3. e[n] \in Nat /\ e[n] <= n * q
        BY <2>2, <3>2
      <3>4. e[n + 1] = e[n] + s.links[n + 1].actual
        BY <1>4, <3>2
      <3>5. s.links[n + 1].actual \in Nat /\ s.links[n + 1].actual <= q
        BY <1>1, <1>2, <3>2
      <3>6. (n + 1) * q = n * q + q /\ n * q \in Nat
        BY <1>2
      <3> DEFINE nq == n * q
                 mq == (n + 1) * q
                 a == s.links[n + 1].actual
      <3>7. nq \in Nat /\ mq = nq + q /\ e[n] <= nq /\ e[n + 1] = e[n] + a /\ a \in Nat /\ a <= q
        BY <3>3, <3>4, <3>5, <3>6
      <3> HIDE DEF nq, mq, a
      <3>8. e[n + 1] \in Nat /\ e[n + 1] <= mq
        BY <3>3, <3>7, <1>2
      <3> QED
        BY <3>8 DEF mq
    <2> HIDE DEF S
    <2>3. Nat \subseteq S
      BY <2>1, <2>2, SetInduction
    <2> QED
      BY <1>1, <2>3 DEF S
  \* from the back: the last n links only add frames
  <1>6. \A k \in 0 .. N : e[k] <= e[N]
    <2> DEFINE S == {n \in Nat : n <= N => e[N - n] <= e[N]}
    <2>1. 0 \in S
      <3>1. N - 0 = N /\ e[N] \in Nat
        BY <1>1, <1>5
      <3> QED
        BY <3>1
    <2>2. ASSUME NEW n \in Nat, n \in S PROVE n + 1 \in S
      <3>1. SUFFICES ASSUME n + 1 <= N PROVE e[N - (n + 1)] <= e[N]
        OBVIOUS
      <3> DEFINE k == N - n
      <3>2. /\ n <= N /\ k \in 1 .. N /\ k \in 0 .. N /\ k - 1 \in 0 .. N /\ N \in 0 .. N
            /\ N - (n + 1) = k - 1
        BY <1>1, <3>1
      <3>3. e[k] <= e[N]
        BY <2>2, <3>2
      <3> HIDE DEF k
      <3>4. /\ e[k] = e[k - 1] + s.links[k].actual /\ s.links[k].actual \in Nat
            /\ e[k] \in Nat /\ e[k - 1] \in Nat /\ e[N] \in Nat
        BY <1>1, <1>4, <1>5, <3>2
      <3> QED
        BY <3>2, <3>3, <3>4
    <2> HIDE DEF S
    <2>3. Nat \subseteq S
      BY <2>1, <2>2, SetInduction
    <2>4. ASSUME NEW k \in 0 .. N PROVE e[k] <= e[N]
      <3>1. N - k \in S /\ N - k <= N /\ N - (N - k) = k
        BY <1>1, <2>3
      <3> QED
        BY <3>1 DEF S
    <2> QED
      BY <2>4
  <1>7. e[N] <= MaxLength
    <2>1. e[N] \in Nat /\ e[N] <= N * q
      BY <1>1, <1>5
    <2> DEFINE nq == N * q
    <2>2. nq \in Nat /\ nq <= MaxLength /\ e[N] <= nq /\ MaxLength \in Nat
      BY <1>1, <1>2, <2>1, EngineAssumption
    <2> HIDE DEF nq
    <2> QED
      BY <2>1, <2>2
  <1>8. e[1] = s.links[1].actual
    <2>1. 1 \in 1 .. N /\ 1 - 1 = 0
      BY <1>1
    <2> QED
      BY <1>1, <1>4, <2>1
  <1> QED
    BY <1>4, <1>5, <1>6, <1>7, <1>8 DEF N, e

LEMMA RequestFacts ==
  ASSUME NEW s \in Sources, NEW r \in Requests(s)
  PROVE  /\ r \in [kind : {"full", "from", "range"}, first : Numbers, max : Numbers,
                   md5 : BOOLEAN, chained : BOOLEAN]
         /\ r.kind = "full" => r.first = 0 /\ r.max = 0 /\ ~s.reusable
         /\ r.kind = "from" => r.max = 0
         /\ r.md5 \/ r.chained => r.kind = "full"
         /\ Len(s.links) # 1 => r.chained
  <1>1. 0 \in Numbers
    BY EngineAssumption DEF Numbers
  <1>2. s.reusable => Len(s.links) = 1
    BY LinkTypes
  <1>3. Len(s.links) \in Nat \ {0}
    BY LinkTypes
  <1> DEFINE whole == [kind : {"full"}, first : {0}, max : {0}, md5 : BOOLEAN, chained : BOOLEAN]
             from == [kind : {"from"}, first : Numbers, max : {0}, md5 : {FALSE}, chained : {FALSE}]
             range == [kind : {"range"}, first : Numbers, max : Numbers, md5 : {FALSE},
                       chained : {FALSE}]
  <1>4. CASE Len(s.links) # 1
    <2> DEFINE n == Len(s.links)
    <2>1. n > 1 /\ ~s.reusable
      <3>1. n \in Nat \ {0} /\ n # 1 /\ ~s.reusable
        BY <1>2, <1>3, <1>4
      <3> HIDE DEF n
      <3> QED
        BY <3>1
    <2>2. Requests(s) = [kind : {"full"}, first : {0}, max : {0}, md5 : BOOLEAN, chained : {TRUE}]
      BY <2>1, Zenon DEF Requests
    <2>3. r \in [kind : {"full"}, first : {0}, max : {0}, md5 : BOOLEAN, chained : {TRUE}]
      BY <2>2, Zenon
    <2>4. r.chained /\ r.chained \in BOOLEAN
      BY <2>3, Zenon
    <2>5. r.kind = "full" /\ r.first = 0 /\ r.max = 0
      BY <2>3, Zenon
    <2>6. r \in whole
      BY <2>3
    <2>7. r \in [kind : {"full", "from", "range"}, first : Numbers, max : Numbers,
                 md5 : BOOLEAN, chained : BOOLEAN]
      BY <2>6, <1>1
    <2> QED
      BY <2>1, <2>4, <2>5, <2>7
  <1>5. CASE Len(s.links) = 1
    <2>1. ~(Len(s.links) > 1)
      BY <1>5
    <2>2. Requests(s) = from \cup range \cup (IF s.reusable THEN {} ELSE whole)
      BY <2>1, Zenon DEF Requests
    <2>3. CASE r \in whole /\ ~s.reusable
      BY <1>1, <1>5, <2>3
    <2>4. CASE r \in from
      <3>1. ~r.md5 /\ ~r.chained /\ r.kind = "from" /\ r.max = 0
        BY <2>4, Zenon
      <3>2. r \in [kind : {"full", "from", "range"}, first : Numbers, max : Numbers,
                   md5 : BOOLEAN, chained : BOOLEAN]
        BY <2>4, <1>1
      <3> QED
        BY <3>1, <3>2, <1>5
    <2>5. CASE r \in range
      <3>1. ~r.md5 /\ ~r.chained /\ r.kind = "range"
        BY <2>5, Zenon
      <3>2. r \in [kind : {"full", "from", "range"}, first : Numbers, max : Numbers,
                   md5 : BOOLEAN, chained : BOOLEAN]
        BY <2>5, <1>1
      <3> QED
        BY <3>1, <3>2, <1>5
    <2> QED
      BY <2>2, <2>3, <2>4, <2>5
  <1> QED
    BY <1>3, <1>4, <1>5

LEMMA NumbersAreInt == Numbers \subseteq Int /\ MaxLong \in Int
  BY EngineAssumption DEF Numbers

(***************************************************************************)
(* What each step may rely on.                                             *)
(***************************************************************************)

LEMMA Ground ==
  ASSUME ControlInv
  PROVE  /\ Len(source.links) \in Nat \ {0}
         /\ source.java \in BOOLEAN /\ source.reusable \in BOOLEAN
         /\ source.reusable => Len(source.links) = 1
         /\ First(source) = source.links[1]
         /\ Last(source) = source.links[Len(source.links)]
         /\ \A k \in 1 .. Len(source.links) :
              /\ source.links[k].declared \in Nat /\ source.links[k].actual \in Nat
              /\ source.links[k].shape \in Nat /\ source.links[k].signed \in BOOLEAN
         /\ LinkEnd(source)[1] = source.links[1].actual
         /\ \A k \in 1 .. Len(source.links) :
              LinkEnd(source)[k] \in Nat /\ LinkEnd(source)[k] <= LinkEnd(source)[Len(source.links)]
         /\ LinkEnd(source)[Len(source.links)] <= MaxLength
         /\ Len(source.links) = 1 =>
              source.links[1].declared = 0 \/ source.links[1].actual <= source.links[1].declared
         /\ req.first \in Int /\ req.max \in Int
         /\ req.kind \in {"full", "from", "range"} /\ req.md5 \in BOOLEAN /\ req.chained \in BOOLEAN
         /\ pc # "idle" =>
              /\ req.kind = "full" => req.first = 0 /\ req.max = 0 /\ ~source.reusable
              /\ req.kind = "from" => req.max = 0
              /\ req.md5 \/ req.chained => req.kind = "full"
              /\ Len(source.links) # 1 => req.chained
  <1>1. source \in Sources /\ (pc # "idle" => req \in Requests(source))
    BY DEF ControlInv, EngineTypeOK, WindowKept
  <1>2. req.first \in Int /\ req.max \in Int /\ req.kind \in {"full", "from", "range"}
        /\ req.md5 \in BOOLEAN /\ req.chained \in BOOLEAN
    BY NumbersAreInt DEF ControlInv, EngineTypeOK
  <1>3. pc # "idle" =>
          /\ req.kind = "full" => req.first = 0 /\ req.max = 0 /\ ~source.reusable
          /\ req.kind = "from" => req.max = 0
          /\ req.md5 \/ req.chained => req.kind = "full"
          /\ Len(source.links) # 1 => req.chained
    BY <1>1, RequestFacts
  <1>4. /\ Len(source.links) \in Nat \ {0}
        /\ source.java \in BOOLEAN /\ source.reusable \in BOOLEAN
        /\ source.reusable => Len(source.links) = 1
        /\ \A k \in 1 .. Len(source.links) :
             /\ source.links[k].declared \in Nat /\ source.links[k].actual \in Nat
             /\ source.links[k].shape \in Nat /\ source.links[k].signed \in BOOLEAN
        /\ Len(source.links) = 1 =>
             source.links[1].declared = 0 \/ source.links[1].actual <= source.links[1].declared
    BY <1>1, LinkTypes
  <1>5. /\ LinkEnd(source)[1] = source.links[1].actual
        /\ \A k \in 1 .. Len(source.links) :
             LinkEnd(source)[k] \in Nat /\ LinkEnd(source)[k] <= LinkEnd(source)[Len(source.links)]
        /\ LinkEnd(source)[Len(source.links)] <= MaxLength
    <2>1. \A k \in 1 .. Len(source.links) : k \in 0 .. Len(source.links)
      BY <1>4
    <2> QED
      BY <1>1, <2>1, LinkEnds
  <1> QED
    BY <1>2, <1>3, <1>4, <1>5 DEF First, Last

\* Where a link begins and ends.
LEMMA LinkBounds ==
  ASSUME ControlInv, NEW k \in 1 .. Len(source.links)
  PROVE  /\ Before(k) \in Nat /\ LinkEnd(source)[k] \in Nat
         /\ LinkEnd(source)[k] = Before(k) + source.links[k].actual
         /\ k + 1 \in Nat /\ Before(k + 1) = LinkEnd(source)[k]
  <1>1. source \in Sources
    BY DEF ControlInv, EngineTypeOK
  <1>2. Len(source.links) \in Nat /\ k \in 0 .. Len(source.links) /\ k - 1 \in 0 .. Len(source.links)
    BY <1>1, LinkTypes
  <1>3. /\ LinkEnd(source)[0] = 0
        /\ LinkEnd(source)[k] \in Nat /\ LinkEnd(source)[k - 1] \in Nat
        /\ LinkEnd(source)[k] = LinkEnd(source)[k - 1] + source.links[k].actual
    BY <1>1, <1>2, LinkEnds
  <1>4. Before(k) = LinkEnd(source)[k - 1]
    <2>1. CASE k = 1
      BY <1>3, <2>1 DEF Before
    <2>2. CASE k # 1
      BY <2>2 DEF Before
    <2> QED
      BY <2>1, <2>2
  <1>5. k + 1 # 1 /\ (k + 1) - 1 = k
    BY <1>2
  <1> QED
    BY <1>2, <1>3, <1>4, <1>5 DEF Before

\* Within an operation the request, and what it asks of the bytes, stay.
LEMMA Stable ==
  ASSUME source' = source, req' = req
  PROVE  /\ Defective' <=> Defective
         /\ Truncated' <=> Truncated
         /\ Wanted' = Wanted /\ Length' = Length
         /\ \A k \in Nat : SoundLink(k)' <=> SoundLink(k)
         /\ \A k \in Nat : Before(k)' = Before(k)
  <1>1. Defective' <=> Defective
    BY DEF Defective, Truncated
  <1>2. Truncated' <=> Truncated
    BY DEF Truncated
  <1>3. Wanted' = Wanted /\ Length' = Length
    BY DEF Wanted, Length
  <1>4. \A k \in Nat : SoundLink(k)' <=> SoundLink(k)
    BY DEF SoundLink
  <1>5. \A k \in Nat : Before(k)' = Before(k)
    BY DEF Before
  <1> QED
    BY <1>1, <1>2, <1>3, <1>4, <1>5

(***************************************************************************)
(* The first exception wins.                                               *)
(***************************************************************************)

\* An action that changes the pending exception finds none.
LEMMA PendingStays ==
  ASSUME EngineTypeOK, QuietPlaces, Next
  PROVE  exc # "none" => exc' = exc
  <1> SUFFICES ASSUME exc # "none" PROVE exc' = exc
    OBVIOUS
  <1>1. ~MayBegin /\ dec.state # "metadata" /\ pc # "ranged" /\ pc # "idle"
    BY DEF QuietPlaces, MayBegin
  <1>2. ASSUME Begin PROVE exc' = exc
    BY <1>1, <1>2 DEF Begin, RejectRequest, InitFails, BeginOneShot, BeginSessionFrom,
       BeginSessionRange, BeginOp
  <1>3. ASSUME LibFLAC PROVE exc' = exc
    BY <1>1, <1>3 DEF LibFLAC, ReadStreamInfo, DecodeFrame, InsertSilence, WriteCallback,
       ReportError, DropFrame, ReadAborts, EndOfLink, LibRefuses
  <1>4. ASSUME Entry PROVE exc' = exc
    BY <1>1, <1>4 DEF Entry, SettleSessionRange, AfterMetadata, AfterSeek, Process, AfterUntilEnd,
       AfterLink, AfterSingle, Finish, Return, Completes, Seek, EnterLib, Decide, AtPhysicalEnd
  <1> QED
    BY <1>2, <1>3, <1>4 DEF Next, Idle, vars

(***************************************************************************)
(* Records, field by field.                                                *)
(***************************************************************************)

LEMMA ContextFields ==
  ASSUME NEW c \in Contexts
  PROVE  /\ c.saw_error \in BOOLEAN /\ c.saw_stream_info \in BOOLEAN /\ c.total \in Nat
         /\ c.limited \in BOOLEAN /\ c.max \in Int /\ c.first \in Int /\ c.emitted \in Nat
         /\ c.complete \in BOOLEAN /\ c.consumer \in BOOLEAN /\ c.shape \in Nat
         /\ c.link_count \in Nat /\ c.link_total \in Nat /\ c.link_start \in Nat
         /\ c.link_md5_failed \in BOOLEAN
  BY DEF Contexts

LEMMA DecoderFields ==
  ASSUME NEW d \in Decoders
  PROVE  d.state \in DecoderStates /\ d.link \in Nat \ {0} /\ d.pos \in Nat /\ d.corrupt \in BOOLEAN
  BY DEF Decoders

LEMMA HeardFields ==
  ASSUME NEW h \in Hearings
  PROVE  /\ h.infos \in Nat /\ h.count \in Nat /\ h.next \in Int
         /\ h.damaged \in BOOLEAN /\ h.completed \in BOOLEAN
  BY DEF Hearings

SameWindow ==
  /\ ctx'.limited = ctx.limited /\ ctx'.max = ctx.max /\ ctx'.first = ctx.first
  /\ ctx'.emitted = ctx.emitted /\ ctx'.complete = ctx.complete

SameInfo ==
  /\ ctx'.saw_stream_info = ctx.saw_stream_info /\ ctx'.total = ctx.total
  /\ ctx'.shape = ctx.shape /\ ctx'.link_count = ctx.link_count
  /\ ctx'.link_total = ctx.link_total /\ ctx'.link_start = ctx.link_start

\* The write callback's effect on the context, and what leaves it alone.
LEMMA ContextUpdates ==
  ASSUME ctx \in Contexts
  PROVE  /\ \A b \in BOOLEAN, e \in Nat :
              ctx' = [ctx EXCEPT !.emitted = e, !.complete = b] =>
                /\ ctx' \in Contexts /\ ctx'.emitted = e /\ ctx'.complete = b
                /\ ctx'.limited = ctx.limited /\ ctx'.max = ctx.max /\ ctx'.first = ctx.first
                /\ ctx'.saw_error = ctx.saw_error /\ ctx'.link_md5_failed = ctx.link_md5_failed
                /\ SameInfo
         /\ ctx' = [ctx EXCEPT !.saw_error = TRUE] =>
              /\ ctx' \in Contexts /\ ctx'.saw_error
              /\ ctx'.link_md5_failed = ctx.link_md5_failed
              /\ SameWindow /\ SameInfo
         /\ ctx' = [ctx EXCEPT !.consumer = FALSE] =>
              /\ ctx' \in Contexts /\ ctx'.saw_error = ctx.saw_error
              /\ ctx'.link_md5_failed = ctx.link_md5_failed
              /\ SameWindow /\ SameInfo
         /\ ctx' = [ctx EXCEPT !.link_md5_failed = TRUE] =>
              /\ ctx' \in Contexts /\ ctx'.saw_error = ctx.saw_error
              /\ SameWindow /\ SameInfo
         /\ ctx' = ctx => SameWindow /\ SameInfo
  <1>1. ASSUME NEW b \in BOOLEAN, NEW e \in Nat,
               ctx' = [ctx EXCEPT !.emitted = e, !.complete = b]
        PROVE  /\ ctx' \in Contexts /\ ctx'.emitted = e /\ ctx'.complete = b
               /\ ctx'.limited = ctx.limited /\ ctx'.max = ctx.max /\ ctx'.first = ctx.first
               /\ ctx'.saw_error = ctx.saw_error /\ ctx'.link_md5_failed = ctx.link_md5_failed
               /\ SameInfo
    BY <1>1 DEF Contexts, SameInfo
  <1>2. ASSUME ctx' = [ctx EXCEPT !.saw_error = TRUE]
        PROVE  /\ ctx' \in Contexts /\ ctx'.saw_error
               /\ ctx'.link_md5_failed = ctx.link_md5_failed
               /\ SameWindow /\ SameInfo
    BY <1>2 DEF Contexts, SameInfo, SameWindow
  <1>3. ASSUME ctx' = [ctx EXCEPT !.consumer = FALSE]
        PROVE  /\ ctx' \in Contexts /\ ctx'.saw_error = ctx.saw_error
               /\ ctx'.link_md5_failed = ctx.link_md5_failed
               /\ SameWindow /\ SameInfo
    BY <1>3 DEF Contexts, SameInfo, SameWindow
  <1>4. ASSUME ctx' = [ctx EXCEPT !.link_md5_failed = TRUE]
        PROVE  /\ ctx' \in Contexts /\ ctx'.saw_error = ctx.saw_error
               /\ SameWindow /\ SameInfo
    BY <1>4 DEF Contexts, SameInfo, SameWindow
  <1>5. ASSUME ctx' = ctx PROVE SameWindow /\ SameInfo
    BY <1>5 DEF SameInfo, SameWindow
  <1> QED
    BY <1>1, <1>2, <1>3, <1>4, <1>5

\* The decoder's fields after an update.
LEMMA DecoderUpdates ==
  ASSUME NEW d \in Decoders
  PROVE  /\ \A s \in DecoderStates :
              /\ [d EXCEPT !.state = s] \in Decoders
              /\ [d EXCEPT !.state = s].state = s /\ [d EXCEPT !.state = s].link = d.link
              /\ [d EXCEPT !.state = s].pos = d.pos
              /\ [d EXCEPT !.state = s].corrupt = d.corrupt
         /\ \A p \in Nat :
              /\ [d EXCEPT !.pos = p] \in Decoders
              /\ [d EXCEPT !.pos = p].pos = p /\ [d EXCEPT !.pos = p].link = d.link
              /\ [d EXCEPT !.pos = p].state = d.state
              /\ [d EXCEPT !.pos = p].corrupt = d.corrupt
         /\ \A s \in DecoderStates, p \in Nat :
              /\ [d EXCEPT !.state = s, !.pos = p] \in Decoders
              /\ [d EXCEPT !.state = s, !.pos = p].state = s
              /\ [d EXCEPT !.state = s, !.pos = p].link = d.link
              /\ [d EXCEPT !.state = s, !.pos = p].pos = p
              /\ [d EXCEPT !.state = s, !.pos = p].corrupt = d.corrupt
  BY DEF Decoders

(***************************************************************************)
(* Control, for the libFLAC steps.                                         *)
(***************************************************************************)

\* Where a libFLAC call returns to.
LEMMA CallReturns ==
  ASSUME call \in DOMAIN After
  PROVE  /\ After[call] \in {"metadata_read", "sought", "called"}
         /\ After[call] = "metadata_read" <=> call = "metadata"
         /\ After[call] = "sought" <=> call = "seek"
         /\ After[call] = "called" <=> call \in {"until_end", "until_link", "single"}
  BY DEF After

LEMMA LibFrame ==
  ASSUME ControlInv, pc = "lib", UNCHANGED <<source, req, call>>,
         pc' = "lib" \/ pc' = After[call],
         EngineTypeOK', InfoKept',
         dec'.state = "metadata" => dec.state = "metadata" /\ exc' = "none",
         call = "metadata" =>
           IF pc' = "lib" THEN dec'.state = dec.state ELSE ok' => ctx'.saw_stream_info,
         ctx'.limited = ctx.limited, ctx'.max = ctx.max, ctx'.first = ctx.first,
         ctx'.limited => ctx'.emitted <= ctx'.max,
         ctx'.complete <=> ctx'.limited /\ ctx'.emitted >= ctx'.max
  PROVE  ControlInv'
  <1>1. call \in DOMAIN After
    BY DEF ControlInv, EngineTypeOK, CallFits
  <1>2. pc' \in {"lib", "metadata_read", "sought", "called"}
    BY <1>1, CallReturns
  <1>3. QuietPlaces'
    BY <1>2 DEF ControlInv, QuietPlaces, Running
  <1>4. WindowKept'
    BY <1>2 DEF ControlInv, WindowKept, Running
  <1>5. CallFits'
    BY <1>1, <1>2, CallReturns DEF ControlInv, CallFits
  <1> QED
    BY <1>3, <1>4, <1>5 DEF ControlInv

\* What one block adds to the window.
Taken(n) == IF ctx.limited /\ ctx.max - ctx.emitted < n THEN ctx.max - ctx.emitted ELSE n

Stopped ==
  /\ dec' \in Decoders /\ dec'.state \in {"seek_error", "aborted"}
  /\ dec'.link = dec.link /\ dec'.corrupt = dec.corrupt
  /\ pc' = After[call] /\ ok' = FALSE /\ ctx' = ctx

Told(n, g) ==
  /\ heard' \in Hearings
  /\ heard'.count = heard.count + Taken(n) /\ heard'.next = dec.pos + Taken(n)
  /\ heard'.damaged <=> heard.damaged \/ ~g \/ dec.pos # heard.next

BlockTaken(n) ==
  /\ ctx' \in Contexts /\ SameInfo
  /\ ctx'.limited = ctx.limited /\ ctx'.max = ctx.max /\ ctx'.first = ctx.first
  /\ ctx'.emitted = ctx.emitted + Taken(n)
  /\ ctx'.complete <=> ctx.complete \/ (ctx.limited /\ ctx.emitted + Taken(n) >= ctx.max)
  /\ ctx'.saw_error = ctx.saw_error /\ ctx'.link_md5_failed = ctx.link_md5_failed
  /\ dec' \in Decoders /\ dec'.pos = dec.pos + n
  /\ dec'.state = dec.state /\ dec'.link = dec.link /\ dec'.corrupt = dec.corrupt
  /\ IF call \in {"until_end", "until_link"} THEN pc' = pc /\ ok' = ok
     ELSE pc' = After[call] /\ ok' = TRUE
  /\ exc' = exc /\ fault' = fault

\* decode_write_callback refuses its block, or shows it to a consumer that
\* throws, or to one that takes it.
LEMMA WriteEffect ==
  ASSUME ControlInv, Decoding, NEW n \in 1 .. MaxBlock, NEW g \in BOOLEAN,
         WriteCallback(dec.pos, n, g)
  PROVE  /\ n \in Nat /\ n > 0
         /\ Taken(n) \in Nat /\ Taken(n) <= n
         /\ ctx.limited => ctx.emitted + Taken(n) <= ctx.max
         /\ \/ /\ exc # "none" \/ ctx.saw_error
               /\ Stopped /\ UNCHANGED <<exc, heard, fault>>
            \/ /\ exc = "none" /\ ~ctx.saw_error
               /\ Stopped /\ Told(n, g)
               /\ exc' = "user" /\ fault' = TRUE
            \/ /\ exc = "none" /\ ~ctx.saw_error
               /\ Told(n, g) /\ BlockTaken(n)
  <1>1. n \in Nat /\ n > 0
    BY EngineAssumption
  <1>2. ctx \in Contexts /\ dec \in Decoders /\ heard \in Hearings
    BY DEF ControlInv, EngineTypeOK
  <1>3. ctx.emitted \in Nat /\ ctx.max \in Int /\ ctx.limited \in BOOLEAN /\ ctx.complete \in BOOLEAN
    BY <1>2, ContextFields
  <1>4. ctx.limited => ctx.emitted <= ctx.max
    BY DEF ControlInv, WindowKept, Running, Decoding
  <1>5. Taken(n) \in Nat /\ Taken(n) <= n /\ (ctx.limited => ctx.emitted + Taken(n) <= ctx.max)
    BY <1>1, <1>3, <1>4 DEF Taken
  <1>6. dec.pos \in Nat
    BY <1>2, DecoderFields
  <1> DEFINE aborted == [dec EXCEPT !.pos = dec.pos,
                           !.state = IF call = "seek" THEN "seek_error" ELSE "aborted"]
             told == [heard EXCEPT !.count = @ + Taken(n), !.next = dec.pos + Taken(n),
                        !.damaged = @ \/ ~g \/ dec.pos # heard.next]
             d == heard.damaged \/ ~g \/ dec.pos # heard.next
             b == ctx.complete \/ (ctx.limited /\ ctx.emitted + Taken(n) >= ctx.max)
  <1>7. \/ /\ exc # "none" \/ ctx.saw_error
           /\ dec' = aborted /\ pc' = After[call] /\ ok' = FALSE
           /\ UNCHANGED <<ctx, exc, heard, fault>>
        \/ /\ exc = "none" /\ ~ctx.saw_error
           /\ heard' = told /\ exc' = "user" /\ fault' = TRUE
           /\ dec' = aborted /\ pc' = After[call] /\ ok' = FALSE /\ ctx' = ctx
        \/ /\ exc = "none" /\ ~ctx.saw_error
           /\ heard' = told
           /\ ctx' = [ctx EXCEPT !.emitted = @ + Taken(n), !.complete = b]
           /\ dec' = [dec EXCEPT !.pos = dec.pos + n]
           /\ IF call \in {"until_end", "until_link"} THEN pc' = pc /\ ok' = ok
              ELSE pc' = After[call] /\ ok' = TRUE
           /\ exc' = exc /\ fault' = fault
    BY <1>2 DEF WriteCallback, Taken, LibReturns, LibContinues, Contexts
  <1>8. /\ aborted \in Decoders /\ aborted.state \in {"seek_error", "aborted"}
        /\ aborted.link = dec.link /\ aborted.corrupt = dec.corrupt
    BY <1>2, <1>6 DEF Decoders, DecoderStates
  <1>9. /\ told \in Hearings
        /\ told.count = heard.count + Taken(n) /\ told.next = dec.pos + Taken(n)
        /\ told.damaged <=> heard.damaged \/ ~g \/ dec.pos # heard.next
    <2>1. told = [heard EXCEPT !.count = heard.count + Taken(n), !.next = dec.pos + Taken(n),
                               !.damaged = d]
      BY <1>2 DEF Hearings
    <2>2. d \in BOOLEAN /\ heard.count + Taken(n) \in Nat /\ dec.pos + Taken(n) \in Int
      BY <1>2, <1>5, <1>6, HeardFields
    <2> HIDE DEF told, d
    <2>3. /\ told \in Hearings
          /\ told.count = heard.count + Taken(n) /\ told.next = dec.pos + Taken(n)
          /\ told.damaged = d
      BY <1>2, <2>1, <2>2 DEF Hearings
    <2> QED
      BY <2>3 DEF d
  <1>10. ASSUME ctx' = [ctx EXCEPT !.emitted = @ + Taken(n), !.complete = b]
         PROVE  /\ ctx' \in Contexts /\ SameInfo
                /\ ctx'.limited = ctx.limited /\ ctx'.max = ctx.max /\ ctx'.first = ctx.first
                /\ ctx'.emitted = ctx.emitted + Taken(n)
                /\ ctx'.complete <=> b
                /\ ctx'.saw_error = ctx.saw_error /\ ctx'.link_md5_failed = ctx.link_md5_failed
    <2>1. b \in BOOLEAN /\ ctx.emitted + Taken(n) \in Nat
      BY <1>3, <1>5
    <2>2. ctx' = [ctx EXCEPT !.emitted = ctx.emitted + Taken(n), !.complete = b]
      BY <1>10
    <2> HIDE DEF b
    <2> QED
      BY <1>2, <2>1, <2>2, ContextUpdates
  <1>11. ASSUME dec' = [dec EXCEPT !.pos = dec.pos + n]
         PROVE  /\ dec' \in Decoders /\ dec'.pos = dec.pos + n
                /\ dec'.state = dec.state /\ dec'.link = dec.link /\ dec'.corrupt = dec.corrupt
    <2>1. dec.pos + n \in Nat
      BY <1>1, <1>6
    <2> QED
      BY <1>2, <1>11, <2>1, DecoderUpdates
  <1> HIDE DEF aborted, told
  <1> QED
    BY <1>1, <1>5, <1>7, <1>8, <1>9, <1>10, <1>11 DEF Stopped, Told, BlockTaken

LEMMA WriteControl ==
  ASSUME ControlInv, Decoding, NEW n \in 1 .. MaxBlock, NEW g \in BOOLEAN,
         WriteCallback(dec.pos, n, g), UNCHANGED <<source, req, call, ops>>
  PROVE  ControlInv'
  <1>1. pc = "lib" /\ dec.state = "sync"
    BY DEF Decoding
  <1>2. call \in DOMAIN After /\ After[call] \in Places
    BY <1>1, CallReturns DEF ControlInv, EngineTypeOK, CallFits, Places
  <1>5. call # "metadata"
    BY <1>1 DEF ControlInv, CallFits
  <1>3. CASE Stopped
    <2>1. EngineTypeOK'
      BY <1>2, <1>3, WriteEffect DEF ControlInv, EngineTypeOK, Stopped, Told, Origins, BlockTaken
    <2>2. InfoKept'
      BY <1>3 DEF ControlInv, InfoKept, Stopped
    <2> QED
      BY <1>1, <1>3, <1>5, <2>1, <2>2, LibFrame DEF Stopped, ControlInv, WindowKept, Running
  <1>4. CASE BlockTaken(n)
    <2>1. EngineTypeOK'
      BY <1>2, <1>4, WriteEffect DEF ControlInv, EngineTypeOK, Told, BlockTaken, Stopped
    <2>2. InfoKept'
      BY <1>4 DEF ControlInv, InfoKept, BlockTaken, SameInfo
    <2>3. /\ ctx.emitted \in Nat /\ ctx.max \in Int /\ Taken(n) \in Nat
          /\ ctx.limited => ctx.emitted + Taken(n) <= ctx.max
          /\ ctx.complete <=> ctx.limited /\ ctx.emitted >= ctx.max
      BY <1>1, WriteEffect, ContextFields DEF ControlInv, EngineTypeOK, WindowKept, Running
    <2>4. ctx'.complete <=> ctx'.limited /\ ctx'.emitted >= ctx'.max
      BY <2>3, <1>4 DEF BlockTaken
    <2> QED
      BY <1>1, <1>4, <1>5, <2>1, <2>2, <2>3, <2>4, LibFrame DEF BlockTaken
  <1> QED
    BY <1>3, <1>4, WriteEffect

\* decode_metadata_callback, for the first STREAMINFO and for that of a later link.
InfoTaken ==
  LET l == source.links[dec.link] IN
  /\ ctx' \in Contexts /\ SameWindow
  /\ ctx'.saw_error = ctx.saw_error /\ ctx'.link_md5_failed = ctx.link_md5_failed
  /\ req.chained => ctx'.link_total = l.declared /\ ctx'.link_start = ctx.emitted
  /\ dec' \in Decoders /\ dec'.state = "sync"
  /\ dec'.link = dec.link /\ dec'.pos = dec.pos /\ dec'.corrupt = dec.corrupt
  /\ heard' \in Hearings /\ heard'.count = heard.count /\ heard'.next = heard.next
  /\ heard'.damaged = heard.damaged
  /\ IF call = "metadata" THEN pc' = After[call] /\ ok' = TRUE ELSE pc' = pc /\ ok' = ok
  /\ UNCHANGED <<source, req, call, ops>>

FirstInfo ==
  LET l == source.links[dec.link] IN
  /\ ctx.link_count = 0 /\ ctx'.link_count = IF req.chained THEN 1 ELSE 0
  /\ ctx'.saw_stream_info /\ ctx'.total = l.declared /\ ctx'.shape = l.shape
  /\ UNCHANGED <<exc, fault>> \/ (exc' = "user" /\ fault' = TRUE)

LaterInfo ==
  LET l == source.links[dec.link] IN
  /\ ctx.link_count > 0
  /\ ctx'.saw_stream_info = ctx.saw_stream_info /\ ctx'.total = ctx.total
  /\ ctx'.shape = ctx.shape /\ fault' = fault
  /\ IF l.shape = ctx.shape THEN ctx'.link_count = ctx.link_count + 1 /\ exc' = exc
     ELSE ctx'.link_count = ctx.link_count /\ exc' = "decode"

LEMMA InfoEffect ==
  ASSUME ControlInv, ReadStreamInfo
  PROVE  InfoTaken /\ (FirstInfo \/ LaterInfo)
  <1> DEFINE l == source.links[dec.link]
             c == IF req.chained
                    THEN [ctx EXCEPT !.link_total = l.declared, !.link_start = ctx.emitted,
                                     !.link_count = @ + 1]
                    ELSE ctx
  <1>1. ctx \in Contexts /\ dec \in Decoders /\ heard \in Hearings
    BY DEF ControlInv, EngineTypeOK
  <1>2. l.declared \in Nat /\ l.shape \in Nat
    <2>1. dec.link \in 1 .. Len(source.links)
      BY <1>1, DecoderFields, Ground DEF ControlInv, InfoKept
    <2> QED
      BY <2>1, Ground
  <1>3. ctx.link_count \in Nat /\ ctx.emitted \in Nat /\ (ctx.link_count > 0 => req.chained)
    BY <1>1, ContextFields DEF ControlInv, InfoKept
  <1>4. /\ dec' = [dec EXCEPT !.state = "sync"]
        /\ IF call = "metadata" THEN pc' = After[call] /\ ok' = TRUE ELSE pc' = pc /\ ok' = ok
        /\ UNCHANGED <<source, req, call, ops>>
        /\ \/ /\ ctx.link_count > 0
              /\ ctx' = IF l.shape = ctx.shape THEN c ELSE [c EXCEPT !.link_count = @ - 1]
              /\ exc' = IF l.shape = ctx.shape THEN exc ELSE "decode"
              /\ heard' = heard /\ fault' = fault
           \/ /\ ~(ctx.link_count > 0)
              /\ ctx' = [c EXCEPT !.saw_stream_info = TRUE, !.total = l.declared,
                                  !.shape = l.shape]
              /\ heard' = [heard EXCEPT !.infos = @ + 1]
              /\ UNCHANGED <<exc, fault>> \/ (exc' = "user" /\ fault' = TRUE)
    BY DEF ReadStreamInfo, LibReturns, LibContinues
  <1>5. /\ dec' \in Decoders /\ dec'.state = "sync"
        /\ dec'.link = dec.link /\ dec'.pos = dec.pos /\ dec'.corrupt = dec.corrupt
    <2>1. dec' = [dec EXCEPT !.state = "sync"] /\ "sync" \in DecoderStates
      BY <1>4, Zenon DEF DecoderStates
    <2> QED
      BY <1>1, <2>1, DecoderUpdates
  <1>6. /\ c \in Contexts
        /\ c.saw_error = ctx.saw_error /\ c.link_md5_failed = ctx.link_md5_failed
        /\ c.limited = ctx.limited /\ c.max = ctx.max /\ c.first = ctx.first
        /\ c.emitted = ctx.emitted /\ c.complete = ctx.complete
        /\ c.saw_stream_info = ctx.saw_stream_info /\ c.total = ctx.total /\ c.shape = ctx.shape
        /\ req.chained => /\ c.link_total = l.declared /\ c.link_start = ctx.emitted
                          /\ c.link_count = ctx.link_count + 1
        /\ ~req.chained => c = ctx
    <2>1. CASE req.chained
      <3> DEFINE a == l.declared
                 k == ctx.link_count + 1
      <3>1. c = [ctx EXCEPT !.link_total = a, !.link_start = ctx.emitted, !.link_count = k]
        BY <1>1, <2>1 DEF Contexts
      <3>2. a \in Nat /\ k \in Nat
        BY <1>2, <1>3
      <3> HIDE DEF a, k, c
      <3>3. /\ c \in Contexts
            /\ c.saw_error = ctx.saw_error /\ c.link_md5_failed = ctx.link_md5_failed
            /\ c.limited = ctx.limited /\ c.max = ctx.max /\ c.first = ctx.first
            /\ c.emitted = ctx.emitted /\ c.complete = ctx.complete
            /\ c.saw_stream_info = ctx.saw_stream_info /\ c.total = ctx.total
            /\ c.shape = ctx.shape /\ c.link_total = a /\ c.link_start = ctx.emitted
            /\ c.link_count = k
        BY <1>1, <1>3, <3>1, <3>2 DEF Contexts
      <3> QED
        BY <2>1, <3>3 DEF a, k
    <2>2. CASE ~req.chained
      BY <1>1, <2>2
    <2> QED
      BY <2>1, <2>2
  <1> HIDE DEF c
  <1>7. CASE ctx.link_count > 0
    <2>1. ctx' = c \/ ctx' = [c EXCEPT !.link_count = c.link_count - 1]
      BY <1>4, <1>6, <1>7 DEF Contexts
    <2>2. c.link_count - 1 \in Nat
      BY <1>3, <1>6, <1>7
    <2>3. /\ ctx' \in Contexts
          /\ ctx'.saw_error = c.saw_error /\ ctx'.link_md5_failed = c.link_md5_failed
          /\ ctx'.limited = c.limited /\ ctx'.max = c.max /\ ctx'.first = c.first
          /\ ctx'.emitted = c.emitted /\ ctx'.complete = c.complete
          /\ ctx'.saw_stream_info = c.saw_stream_info /\ ctx'.total = c.total
          /\ ctx'.shape = c.shape /\ ctx'.link_total = c.link_total
          /\ ctx'.link_start = c.link_start
      BY <1>6, <2>1, <2>2 DEF Contexts
    <2>4. IF l.shape = ctx.shape THEN ctx'.link_count = ctx.link_count + 1
          ELSE ctx'.link_count = ctx.link_count
      BY <1>3, <1>4, <1>6, <1>7 DEF Contexts
    <2>5. heard' = heard /\ fault' = fault /\ exc' = IF l.shape = ctx.shape THEN exc ELSE "decode"
      BY <1>4, <1>7
    <2>6. InfoTaken
      BY <1>1, <1>4, <1>5, <1>6, <2>3, <2>5 DEF InfoTaken, SameWindow
    <2> QED
      BY <1>6, <1>7, <2>3, <2>4, <2>5, <2>6 DEF LaterInfo
  <1>8. CASE ~(ctx.link_count > 0)
    <2>1. ctx' = [c EXCEPT !.saw_stream_info = TRUE, !.total = l.declared, !.shape = l.shape]
      BY <1>4, <1>8
    <2>2. /\ ctx' \in Contexts
          /\ ctx'.saw_error = c.saw_error /\ ctx'.link_md5_failed = c.link_md5_failed
          /\ ctx'.limited = c.limited /\ ctx'.max = c.max /\ ctx'.first = c.first
          /\ ctx'.emitted = c.emitted /\ ctx'.complete = c.complete
          /\ ctx'.saw_stream_info /\ ctx'.total = l.declared /\ ctx'.shape = l.shape
          /\ ctx'.link_count = c.link_count /\ ctx'.link_total = c.link_total
          /\ ctx'.link_start = c.link_start
      BY <1>2, <1>6, <2>1 DEF Contexts
    <2>3. ctx.link_count = 0 /\ ctx'.link_count = IF req.chained THEN 1 ELSE 0
      BY <1>3, <1>6, <1>8, <2>2
    <2>4. /\ heard' \in Hearings /\ heard'.count = heard.count /\ heard'.next = heard.next
          /\ heard'.damaged = heard.damaged
      BY <1>1, <1>4, <1>8 DEF Hearings
    <2>5. InfoTaken
      BY <1>4, <1>5, <1>6, <2>2, <2>4 DEF InfoTaken, SameWindow
    <2> QED
      BY <1>4, <1>8, <2>2, <2>3, <2>5 DEF FirstInfo
  <1> QED
    BY <1>7, <1>8

LEMMA StreamInfoControl ==
  ASSUME ControlInv, ReadStreamInfo
  PROVE  ControlInv'
  <1>1. pc = "lib" /\ dec.state = "metadata"
    BY DEF ReadStreamInfo
  <1>2. InfoTaken /\ (FirstInfo \/ LaterInfo)
    BY InfoEffect
  <1>3. call \in DOMAIN After /\ After[call] \in Places
    BY <1>1, CallReturns DEF ControlInv, EngineTypeOK, CallFits, Places
  <1>4. EngineTypeOK'
    BY <1>2, <1>3 DEF ControlInv, EngineTypeOK, InfoTaken, FirstInfo, LaterInfo, Origins
  <1>5. InfoKept'
    <2>1. ctx.link_count = dec.link - 1 /\ dec.link \in Nat \ {0} /\ dec.link <= Len(source.links)
      BY <1>1, DecoderFields DEF ControlInv, EngineTypeOK, InfoKept
    <2>2. First(source) = source.links[1] /\ Len(source.links) \in Nat \ {0}
      BY Ground
    <2>3. CASE FirstInfo
      <3>1. dec.link = 1
        BY <2>1, <2>3 DEF FirstInfo
      <3> QED
        BY <1>2, <2>1, <2>2, <2>3, <3>1 DEF ControlInv, InfoKept, InfoTaken, FirstInfo, First
    <2>4. CASE LaterInfo
      BY <1>1, <1>2, <2>1, <2>2, <2>4 DEF ControlInv, InfoKept, InfoTaken, LaterInfo
    <2> QED
      BY <1>2, <2>3, <2>4
  <1>6. call = "metadata" => pc' # "lib" /\ ctx'.saw_stream_info
    BY <1>1, <1>2, CallReturns, <1>3 DEF ControlInv, InfoKept, InfoTaken, FirstInfo, LaterInfo
  <1> QED
    BY <1>1, <1>2, <1>4, <1>5, <1>6, LibFrame
       DEF InfoTaken, SameWindow, ControlInv, WindowKept, Running

\* The decoder moves to a state s and nothing else of it changes.
DecoderTo(s) ==
  /\ dec' \in Decoders /\ dec'.state = s
  /\ dec'.link = dec.link /\ dec'.pos = dec.pos /\ dec'.corrupt = dec.corrupt

LEMMA DecoderMoves ==
  ASSUME dec \in Decoders, NEW s \in DecoderStates, dec' = [dec EXCEPT !.state = s]
  PROVE  DecoderTo(s)
  BY DecoderUpdates DEF DecoderTo

LEMMA AbortEffect ==
  ASSUME ControlInv, ReadAborts
  PROVE  /\ pc = "lib" /\ dec.state \in {"metadata", "sync"}
         /\ source.java \/ FileReadErrors
         /\ exc' = IF source.java /\ exc = "none" THEN "transport" ELSE exc
         /\ DecoderTo(IF call = "seek" THEN "seek_error" ELSE "aborted")
         /\ pc' = After[call] /\ ok' \in BOOLEAN /\ (call \in {"metadata", "seek"} => ~ok')
         /\ fault' = TRUE
         /\ UNCHANGED <<source, req, ctx, call, heard, ops>>
  <1>1. dec \in Decoders
    BY DEF ControlInv, EngineTypeOK
  <1>2. DecoderTo(IF call = "seek" THEN "seek_error" ELSE "aborted")
    <2> DEFINE s == IF call = "seek" THEN "seek_error" ELSE "aborted"
    <2>1. dec' = [dec EXCEPT !.state = s] /\ s \in DecoderStates
      BY DEF ReadAborts, DecoderStates
    <2>2. DecoderTo(s)
      BY <1>1, <2>1, DecoderMoves
    <2> QED
      BY <2>2
  <1> QED
    BY <1>2 DEF ReadAborts, LibReturns

LEMMA EndEffect ==
  ASSUME ControlInv, EndOfLink
  PROVE  /\ pc = "lib" /\ dec.state = "sync" /\ dec.pos >= LinkEnd(source)[dec.link]
         /\ DecoderTo(IF call = "seek" THEN "seek_error"
                      ELSE IF dec.link < Len(source.links) THEN "eol" ELSE "eos")
         /\ pc' = After[call] /\ ok' = (call # "seek")
         /\ UNCHANGED <<source, req, ctx, exc, call, heard, ops, fault>>
  <1>1. dec \in Decoders
    BY DEF ControlInv, EngineTypeOK
  <1>2. DecoderTo(IF call = "seek" THEN "seek_error"
                  ELSE IF dec.link < Len(source.links) THEN "eol" ELSE "eos")
    <2> DEFINE s == IF call = "seek" THEN "seek_error"
                    ELSE IF dec.link < Len(source.links) THEN "eol" ELSE "eos"
    <2>1. dec' = [dec EXCEPT !.state = s] /\ s \in DecoderStates
      BY DEF EndOfLink, DecoderStates
    <2>2. DecoderTo(s)
      BY <1>1, <2>1, DecoderMoves
    <2> QED
      BY <2>2
  <1> QED
    BY <1>2 DEF EndOfLink, LibReturns, Decoding

LEMMA ErrorEffect ==
  ASSUME ControlInv, ReportError
  PROVE  /\ pc = "lib" /\ dec.state \in {"metadata", "sync"}
         /\ ctx' \in Contexts /\ ctx'.saw_error /\ ctx'.link_md5_failed = ctx.link_md5_failed
         /\ SameWindow /\ SameInfo
         /\ dec' \in Decoders /\ dec'.state = dec.state /\ dec'.link = dec.link
         /\ fault' = TRUE /\ UNCHANGED <<source, req, exc, pc, call, ok, heard, ops>>
  <1>1. ctx \in Contexts /\ dec \in Decoders
    BY DEF ControlInv, EngineTypeOK
  <1>2. dec.pos \in Nat
    BY <1>1, DecoderFields
  <1>3. PICK p \in dec.pos .. MaxLength : dec' = [dec EXCEPT !.corrupt = TRUE, !.pos = p]
    BY DEF ReportError
  <1>4. p \in Nat
    BY <1>2, <1>3, EngineAssumption
  <1>5. dec' \in Decoders /\ dec'.state = dec.state /\ dec'.link = dec.link
    BY <1>1, <1>3, <1>4 DEF Decoders
  <1>6. /\ ctx' \in Contexts /\ ctx'.saw_error /\ ctx'.link_md5_failed = ctx.link_md5_failed
        /\ SameWindow /\ SameInfo
    BY <1>1, ContextUpdates DEF ReportError
  <1> QED
    BY <1>5, <1>6 DEF ReportError

LEMMA LibControl ==
  ASSUME ControlInv, LibFLAC
  PROVE  ControlInv'
  <1>1. CASE ReadStreamInfo
    BY <1>1, StreamInfoControl
  <1>2. ASSUME NEW n \in 1 .. MaxBlock, DecodeFrame(n) PROVE ControlInv'
    BY <1>2, WriteControl DEF DecodeFrame
  <1>3. ASSUME NEW n \in 1 .. MaxBlock, InsertSilence(n) PROVE ControlInv'
    BY <1>3, WriteControl DEF InsertSilence
  <1>4. ASSUME pc = "lib" PROVE call \in DOMAIN After /\ After[call] \in Places
    BY <1>4, CallReturns DEF ControlInv, EngineTypeOK, CallFits, Places
  <1>5. ASSUME pc = "lib"
        PROVE  /\ ctx.limited => ctx.emitted <= ctx.max
               /\ ctx.complete <=> ctx.limited /\ ctx.emitted >= ctx.max
    BY <1>5 DEF ControlInv, WindowKept, Running
  <1>6. CASE ReportError
    <2>1. EngineTypeOK'
      BY <1>6, ErrorEffect DEF ControlInv, EngineTypeOK
    <2>2. InfoKept'
      BY <1>6, ErrorEffect DEF ControlInv, InfoKept, SameInfo
    <2>3. dec'.state = "metadata" => dec.state = "metadata" /\ exc' = "none"
      BY <1>6, ErrorEffect DEF ControlInv, QuietPlaces
    <2> QED
      BY <1>5, <1>6, <2>1, <2>2, <2>3, ErrorEffect, LibFrame DEF SameWindow
  <1>7. CASE DropFrame \/ LibRefuses
    <2>1. /\ pc = "lib" /\ dec.state # "metadata" /\ pc' = After[call] /\ ok' \in BOOLEAN
          /\ UNCHANGED <<source, req, ctx, dec, exc, call, heard, ops, fault>>
      BY <1>7 DEF DropFrame, LibRefuses, Decoding, LibReturns
    <2>2. EngineTypeOK'
      BY <1>4, <2>1 DEF ControlInv, EngineTypeOK
    <2>3. InfoKept'
      BY <2>1 DEF ControlInv, InfoKept
    <2>4. call # "metadata"
      BY <2>1 DEF ControlInv, CallFits
    <2> QED
      BY <1>5, <2>1, <2>2, <2>3, <2>4, LibFrame
  <1>8. CASE ReadAborts
    <2>1. EngineTypeOK'
      BY <1>4, <1>8, AbortEffect DEF ControlInv, EngineTypeOK, DecoderTo, Origins
    <2>2. InfoKept'
      BY <1>8, AbortEffect DEF ControlInv, InfoKept, DecoderTo
    <2> QED
      BY <1>4, <1>5, <1>8, <2>1, <2>2, AbortEffect, CallReturns, LibFrame DEF DecoderTo
  <1>9. CASE EndOfLink
    <2>1. EngineTypeOK'
      BY <1>4, <1>9, EndEffect DEF ControlInv, EngineTypeOK, DecoderTo
    <2>2. InfoKept'
      BY <1>9, EndEffect DEF ControlInv, InfoKept, DecoderTo
    <2>3. call # "metadata"
      BY <1>9, EndEffect DEF ControlInv, CallFits
    <2> QED
      BY <1>5, <1>9, <2>1, <2>2, <2>3, EndEffect, LibFrame DEF DecoderTo
  <1> QED
    BY <1>1, <1>2, <1>3, <1>6, <1>7, <1>8, <1>9 DEF LibFLAC

(***************************************************************************)
(* Control, for the entry points.                                          *)
(***************************************************************************)

LEMMA ReturnEffect ==
  ASSUME ControlInv, NEW e, Return(e)
  PROVE  /\ pc' = "returned" /\ exc' = e
         /\ ctx' \in Contexts /\ SameWindow /\ SameInfo
         /\ ctx'.saw_error = ctx.saw_error /\ ctx'.link_md5_failed = ctx.link_md5_failed
         /\ DecoderTo(IF source.reusable THEN dec.state ELSE "none")
  <1>1. ctx \in Contexts /\ dec \in Decoders
    BY DEF ControlInv, EngineTypeOK
  <1>2. DecoderTo(IF source.reusable THEN dec.state ELSE "none")
    <2>1. CASE source.reusable
      BY <1>1, <2>1 DEF Return, DecoderTo
    <2>2. CASE ~source.reusable
      BY <1>1, <2>2, DecoderMoves DEF Return, DecoderStates
    <2> QED
      BY <2>1, <2>2
  <1> QED
    BY <1>1, <1>2, ContextUpdates DEF Return

LEMMA ReturnControl ==
  ASSUME ControlInv, Running, NEW e \in Origins, Return(e),
         UNCHANGED <<source, req, call, ok, ops>>, heard' \in Hearings, fault' \in BOOLEAN
  PROVE  ControlInv'
  <1>1. EngineTypeOK'
    BY ReturnEffect DEF ControlInv, EngineTypeOK, DecoderTo, Places
  <1>2. QuietPlaces'
    BY ReturnEffect DEF ControlInv, QuietPlaces, DecoderTo
  <1>3. WindowKept'
    BY ReturnEffect DEF ControlInv, WindowKept, Running
  <1>6. source.reusable => ~req.chained
    BY Ground DEF Running
  <1>4. InfoKept'
    BY <1>6, ReturnEffect DEF ControlInv, InfoKept, DecoderTo, SameInfo
  <1>5. CallFits'
    BY ReturnEffect DEF ControlInv, CallFits
  <1> QED
    BY <1>1, <1>2, <1>3, <1>4, <1>5 DEF ControlInv

\* A call goes on in another place, with the same window.
LEMMA EntryFrame ==
  ASSUME ControlInv, Running, UNCHANGED <<source, req, ctx, dec, heard, ops, fault>>,
         pc' \in {"process", "lib", "sought", "finish"}, exc' \in Origins, ok' \in BOOLEAN,
         dec.state = "metadata" => exc' = "none", exc' = "none" => exc = "none",
         call' \in DOMAIN After \cup {"none"}, CallFits'
  PROVE  ControlInv'
  <1>1. EngineTypeOK'
    BY DEF ControlInv, EngineTypeOK, Places
  <1>2. QuietPlaces'
    BY DEF ControlInv, QuietPlaces, Running
  <1>3. WindowKept'
    BY DEF ControlInv, WindowKept, Running
  <1>4. InfoKept'
    BY DEF ControlInv, InfoKept
  <1> QED
    BY <1>1, <1>2, <1>3, <1>4 DEF ControlInv

\* onComplete, and whether it throws.
LEMMA CompletesEffect ==
  ASSUME ControlInv, Completes
  PROVE  /\ heard' \in Hearings /\ heard'.count = heard.count /\ heard'.next = heard.next
         /\ heard'.damaged = heard.damaged
         /\ \/ Return(exc) /\ fault' = fault
            \/ Return("user") /\ fault' = TRUE
  <1>1. heard \in Hearings /\ heard' = [heard EXCEPT !.completed = TRUE]
    BY DEF ControlInv, EngineTypeOK, Completes
  <1>2. /\ heard' \in Hearings /\ heard'.count = heard.count /\ heard'.next = heard.next
        /\ heard'.damaged = heard.damaged
    BY <1>1 DEF Hearings
  <1> QED
    BY <1>2 DEF Completes

LEMMA CompletesControl ==
  ASSUME ControlInv, Running, Completes, UNCHANGED <<source, req, call, ok, ops>>
  PROVE  ControlInv'
  <1>1. exc \in Origins /\ "user" \in Origins /\ fault \in BOOLEAN
    BY DEF ControlInv, EngineTypeOK, Origins
  <1> QED
    BY <1>1, CompletesEffect, ReturnControl

\* seek_absolute, refused at once or handed to libFLAC.
Sought(first) ==
  \/ /\ First(source).declared > 0 /\ first >= First(source).declared
     /\ pc' = "sought" /\ call' = "seek" /\ ok' = FALSE /\ dec' = dec
  \/ /\ pc' = "lib" /\ call' = "seek" /\ ok' = ok
     /\ dec' \in Decoders /\ dec'.state = "sync" /\ dec'.pos = first
     /\ dec'.link = dec.link /\ dec'.corrupt = dec.corrupt

LEMMA SeekEffect ==
  ASSUME ControlInv, NEW first \in Nat, Seek(first)
  PROVE  Sought(first)
  <1>1. dec \in Decoders
    BY DEF ControlInv, EngineTypeOK
  <1>2. CASE First(source).declared > 0 /\ first >= First(source).declared
    BY <1>2 DEF Seek, Sought
  <1>3. CASE ~(First(source).declared > 0 /\ first >= First(source).declared)
    <2>1. dec' = [dec EXCEPT !.state = "sync", !.pos = first] /\ pc' = "lib" /\ call' = "seek"
          /\ ok' = ok
      BY <1>3 DEF Seek, EnterLib
    <2>2. /\ dec' \in Decoders /\ dec'.state = "sync" /\ dec'.pos = first
          /\ dec'.link = dec.link /\ dec'.corrupt = dec.corrupt
      BY <1>1, <2>1 DEF Decoders, DecoderStates
    <2> QED
      BY <2>1, <2>2 DEF Sought
  <1> QED
    BY <1>2, <1>3

LEMMA EntryControl ==
  ASSUME ControlInv, Entry
  PROVE  ControlInv'
  <1>1. /\ exc \in Origins /\ "decode" \in Origins /\ heard \in Hearings /\ fault \in BOOLEAN
        /\ ok \in BOOLEAN /\ call \in DOMAIN After \cup {"none"} /\ ctx \in Contexts
        /\ dec \in Decoders
    BY DEF ControlInv, EngineTypeOK, Origins
  <1>2. {"metadata", "seek", "until_end", "until_link", "single"} \subseteq DOMAIN After
    BY DEF After
  <1>3. Running => req.first \in Nat
    BY Ground DEF ControlInv, WindowKept, ValidRequest
  <1>4. dec.state = "metadata" => exc = "none"
    BY DEF ControlInv, QuietPlaces
  <1>5. CASE SettleSessionRange
    BY <1>1, <1>5, ReturnControl, CompletesControl DEF SettleSessionRange, Running
  <1>6. CASE AfterMetadata
    <2>1. Running /\ UNCHANGED <<source, req, ops>>
      BY <1>6 DEF AfterMetadata, Running
    <2>2. CASE \E e \in Origins : Return(e) /\ UNCHANGED <<call, ok, heard, fault>>
      BY <1>1, <2>1, <2>2, ReturnControl
    <2>3. CASE Completes /\ UNCHANGED <<call, ok>>
      BY <2>1, <2>3, CompletesControl
    <2>4. CASE pc' = "process" /\ UNCHANGED <<ctx, dec, exc, call, ok, heard, fault>>
      <3>1. CallFits'
        BY <2>4 DEF CallFits
      <3> QED
        BY <1>1, <1>4, <2>1, <2>4, <3>1, EntryFrame
    <2>5. CASE Seek(req.first) /\ UNCHANGED <<ctx, exc, heard, fault>>
      <3>1. Sought(req.first)
        BY <1>3, <2>1, <2>5, SeekEffect
      <3>2. req.kind # "full"
        BY <1>6 DEF ControlInv, CallFits, AfterMetadata
      <3>3. EngineTypeOK'
        BY <1>2, <2>1, <2>5, <3>1 DEF ControlInv, EngineTypeOK, Sought, Places
      <3>4. QuietPlaces'
        BY <1>4, <2>1, <2>5, <3>1 DEF ControlInv, QuietPlaces, Sought, Running
      <3>5. WindowKept'
        BY <2>1, <2>5, <3>1 DEF ControlInv, WindowKept, Sought, Running
      <3>6. InfoKept'
        <4>1. ctx.saw_stream_info /\ ~req.chained
          <5>1. pc' # "returned" /\ pc' # "process" /\ pc = "metadata_read"
            BY <1>6, <3>1 DEF AfterMetadata, Sought
          <5>2. ok
            BY <1>6, <5>1 DEF AfterMetadata, Return, Completes
          <5> QED
            BY <3>2, <5>1, <5>2, Ground DEF ControlInv, CallFits
        <4> QED
          BY <2>1, <2>5, <3>1, <4>1 DEF ControlInv, InfoKept, Sought
      <3>7. CallFits'
        BY <2>1, <3>1, <3>2 DEF CallFits, Sought
      <3> QED
        BY <3>3, <3>4, <3>5, <3>6, <3>7 DEF ControlInv
    <2> QED
      BY <1>1, <1>6, <2>2, <2>3, <2>4, <2>5 DEF AfterMetadata
  <1>7. CASE AfterSeek
    <2>1. Running /\ UNCHANGED <<source, req, call, ok, heard, ops, fault>>
      BY <1>7 DEF AfterSeek, Running
    <2>2. CASE \E e \in Origins : Return(e)
      BY <1>1, <2>1, <2>2, ReturnControl
    <2>3. CASE pc' = "process" /\ UNCHANGED <<ctx, dec, exc>>
      <3>1. CallFits'
        BY <2>3 DEF CallFits
      <3> QED
        BY <1>1, <1>4, <2>1, <2>3, <3>1, EntryFrame
    <2> QED
      BY <1>1, <1>7, <2>2, <2>3 DEF AfterSeek
  <1>8. CASE Process
    <2>1. Running /\ UNCHANGED <<source, req, ctx, dec, heard, ops, fault>> /\ exc' = exc
      BY <1>8 DEF Process, Running, Decide
    <2>2. CASE pc' = "finish" /\ ok' \in BOOLEAN /\ call' = call
      <3>1. CallFits'
        BY <2>2 DEF CallFits
      <3> QED
        BY <1>1, <1>4, <2>1, <2>2, <3>1, EntryFrame
    <2>3. CASE /\ pc' = "lib" /\ ok' = ok
               /\ \/ ~ctx.limited /\ call' = IF req.chained THEN "until_link" ELSE "until_end"
                  \/ ctx.limited /\ call' = "single"
      <3>1. CallFits'
        BY <2>1, <2>3 DEF CallFits
      <3>2. call' \in DOMAIN After
        BY <1>2, <2>3
      <3> QED
        BY <1>1, <1>4, <2>1, <2>3, <3>1, <3>2, EntryFrame
    <2> QED
      BY <1>8, <2>2, <2>3 DEF Process, Decide, EnterLib
  <1>9. CASE AfterUntilEnd \/ AfterSingle
    <2>1. /\ Running /\ UNCHANGED <<source, req, ctx, dec, heard, ops, fault, call>>
          /\ pc' \in {"finish", "process"} /\ ok' \in BOOLEAN
          /\ exc' = exc \/ (dec.state = "eos" /\ exc' = "decode")
      BY <1>1, <1>9 DEF AfterUntilEnd, AfterSingle, AtPhysicalEnd, Decide, Running
    <2>2. CallFits'
      BY <2>1 DEF CallFits
    <2> QED
      BY <1>1, <1>4, <2>1, <2>2, EntryFrame
  <1>10. CASE AfterLink
    <2>1. /\ Running /\ UNCHANGED <<source, req, heard, ops, fault, call>>
          /\ pc' \in {"finish", "process"} /\ ok' \in BOOLEAN
      BY <1>1, <1>10 DEF AfterLink, Decide, Running
    <2>2. CallFits'
      BY <2>1 DEF CallFits
    <2>3. CASE UNCHANGED <<ctx, dec>>
      <3>1. /\ exc' \in Origins /\ (dec.state = "metadata" => exc' = "none")
            /\ exc' = "none" => exc = "none"
        BY <1>1, <1>4, <1>10 DEF AfterLink, Decide
      <3> QED
        BY <1>1, <2>1, <2>2, <2>3, <3>1, EntryFrame
    <2>4. CASE ctx' = [ctx EXCEPT !.link_md5_failed = TRUE] /\ dec' = dec /\ exc' = exc
      <3>1. ctx' \in Contexts /\ SameWindow /\ SameInfo
        BY <1>1, <2>4, ContextUpdates
      <3>2. EngineTypeOK'
        BY <2>1, <2>4, <3>1 DEF ControlInv, EngineTypeOK, Places
      <3>3. QuietPlaces'
        BY <1>4, <2>1, <2>4 DEF ControlInv, QuietPlaces, Running
      <3>4. WindowKept'
        BY <2>1, <3>1 DEF ControlInv, WindowKept, SameWindow, Running
      <3>5. InfoKept'
        BY <2>1, <2>4, <3>1 DEF ControlInv, InfoKept, SameInfo
      <3> QED
        BY <2>2, <3>2, <3>3, <3>4, <3>5 DEF ControlInv
    <2>5. CASE /\ dec.state = "eol" /\ exc = "none"
               /\ dec' = [dec EXCEPT !.state = "metadata", !.link = @ + 1]
               /\ pc' = "process" /\ UNCHANGED <<ctx, exc, ok, call>>
      <3> DEFINE i == dec.link
      <3>1. /\ i \in Nat \ {0} /\ i < Len(source.links) /\ Len(source.links) \in Nat
            /\ Len(source.links) # 1
        BY <1>1, <2>5, DecoderFields, Ground DEF ControlInv, InfoKept
      <3>2. dec' \in Decoders /\ dec'.state = "metadata" /\ dec'.link = i + 1
        <4>1. dec' = [dec EXCEPT !.state = "metadata", !.link = i + 1]
          BY <1>1, <2>5, <3>1 DEF Decoders
        <4>2. i + 1 \in Nat \ {0} /\ "metadata" \in DecoderStates
          BY <3>1 DEF DecoderStates
        <4> HIDE DEF i
        <4> QED
          BY <1>1, <4>1, <4>2 DEF Decoders
      <3>3. req.chained /\ ~source.reusable /\ ctx.link_count = i
        BY <1>10, <2>5, <3>1, Ground DEF ControlInv, CallFits, AfterLink, InfoKept
      <3>4. EngineTypeOK'
        BY <2>1, <2>5, <3>2 DEF ControlInv, EngineTypeOK, Places
      <3>5. QuietPlaces'
        BY <2>1, <2>5, <3>3 DEF QuietPlaces, Running
      <3>6. WindowKept'
        BY <2>1, <2>5 DEF ControlInv, WindowKept, Running
      <3>7. InfoKept'
        BY <2>1, <2>5, <3>1, <3>2, <3>3 DEF ControlInv, InfoKept
      <3> QED
        BY <2>2, <3>4, <3>5, <3>6, <3>7 DEF ControlInv
    <2> QED
      BY <1>10, <2>3, <2>4, <2>5 DEF AfterLink, Decide
  <1>11. CASE Finish
    BY <1>1, <1>11, ReturnControl, CompletesControl DEF Finish, Running
  <1> QED
    BY <1>5, <1>6, <1>7, <1>8, <1>9, <1>10, <1>11 DEF Entry

(***************************************************************************)
(* Control, for the beginning of an operation.                             *)
(***************************************************************************)

\* prepare_decode_context and configure_decode_range leave nothing of the
\* previous operation in the window.
NewWindow(r) ==
  /\ ctx' \in Contexts /\ SameInfo /\ ctx'.saw_error = FALSE
  /\ ctx'.link_md5_failed = ctx.link_md5_failed
  /\ ctx'.limited = Limited(r) /\ ctx'.max = r.max /\ ctx'.first = r.first
  /\ ctx'.emitted = 0 /\ (ctx'.complete <=> Limited(r) /\ r.max = 0)

LEMMA FieldTypes ==
  ASSUME NEW c \in Contexts, NEW a \in BOOLEAN, NEW b \in BOOLEAN, NEW m \in Int, NEW e \in Nat
  PROVE  /\ [c EXCEPT !.saw_error = a, !.limited = b, !.max = m] \in Contexts
         /\ [c EXCEPT !.emitted = e, !.complete = b] \in Contexts
         /\ [c EXCEPT !.first = m, !.consumer = a] \in Contexts
  <1>1. [c EXCEPT !.saw_error = a, !.limited = b, !.max = m] \in Contexts
    BY DEF Contexts
  <1>2. [c EXCEPT !.emitted = e, !.complete = b] \in Contexts
    BY DEF Contexts
  <1>3. [c EXCEPT !.first = m, !.consumer = a] \in Contexts
    BY DEF Contexts
  <1> QED
    BY <1>1, <1>2, <1>3

LEMMA PreparedFields ==
  ASSUME NEW c \in Contexts
  PROVE  /\ Prepared(c) \in Contexts /\ Prepared(c).saw_error = FALSE
         /\ Prepared(c).limited = FALSE /\ Prepared(c).max = 0 /\ Prepared(c).emitted = 0
         /\ Prepared(c).complete = FALSE
         /\ Prepared(c).saw_stream_info = c.saw_stream_info /\ Prepared(c).total = c.total
         /\ Prepared(c).shape = c.shape /\ Prepared(c).link_count = c.link_count
         /\ Prepared(c).link_total = c.link_total /\ Prepared(c).link_start = c.link_start
         /\ Prepared(c).link_md5_failed = c.link_md5_failed
  <1>1. Prepared(c) \in Contexts
    <2> DEFINE d == [c EXCEPT !.saw_error = FALSE, !.limited = FALSE, !.max = 0]
               e == [d EXCEPT !.emitted = 0, !.complete = FALSE]
               f == [e EXCEPT !.first = 0, !.consumer = TRUE]
    <2>1. 0 \in Nat /\ 0 \in Int /\ FALSE \in BOOLEAN /\ TRUE \in BOOLEAN
      OBVIOUS
    <2>2. d \in Contexts
      BY <2>1, FieldTypes, Zenon
    <2> HIDE DEF d
    <2>3. e \in Contexts
      BY <2>1, <2>2, FieldTypes, Zenon
    <2> HIDE DEF e
    <2>4. f \in Contexts
      BY <2>1, <2>3, FieldTypes, Zenon
    <2>5. Prepared(c) = f
      BY DEF Prepared, d, e
    <2> QED
      BY <2>4, <2>5
  <1>2. /\ Prepared(c).saw_error = FALSE
        /\ Prepared(c).limited = FALSE /\ Prepared(c).max = 0 /\ Prepared(c).emitted = 0
        /\ Prepared(c).complete = FALSE
    BY DEF Prepared, Contexts
  <1>3. /\ Prepared(c).saw_stream_info = c.saw_stream_info /\ Prepared(c).total = c.total
        /\ Prepared(c).shape = c.shape /\ Prepared(c).link_count = c.link_count
        /\ Prepared(c).link_total = c.link_total /\ Prepared(c).link_start = c.link_start
        /\ Prepared(c).link_md5_failed = c.link_md5_failed
    BY DEF Prepared, Contexts
  <1> QED
    BY <1>1, <1>2, <1>3

LEMMA Configures ==
  ASSUME ctx \in Contexts, NEW r, r.first \in Int, r.max \in Int,
         ctx' = Configured(Prepared(ctx), r)
  PROVE  NewWindow(r)
  <1> DEFINE c == Prepared(ctx)
             l == Limited(r)
             d == l /\ r.max = 0
             m == r.max
             f == r.first
  <1>1. ctx' = [c EXCEPT !.limited = l, !.max = m, !.first = f, !.emitted = 0, !.complete = d]
    BY DEF Configured
  <1>2. l \in BOOLEAN /\ d \in BOOLEAN
    BY DEF Limited
  <1>3. c \in Contexts /\ c.saw_error = FALSE /\ c.link_md5_failed = ctx.link_md5_failed
        /\ c.saw_stream_info = ctx.saw_stream_info /\ c.total = ctx.total
        /\ c.shape = ctx.shape /\ c.link_count = ctx.link_count
        /\ c.link_total = ctx.link_total /\ c.link_start = ctx.link_start
    BY PreparedFields
  <1>4. m \in Int /\ f \in Int
    OBVIOUS
  <1> HIDE DEF c, l, d, m, f
  <1>5. /\ ctx' \in Contexts /\ ctx'.limited = l /\ ctx'.max = m /\ ctx'.first = f
        /\ ctx'.emitted = 0 /\ ctx'.complete = d /\ ctx'.saw_error = c.saw_error
        /\ ctx'.link_md5_failed = c.link_md5_failed
        /\ ctx'.saw_stream_info = c.saw_stream_info /\ ctx'.total = c.total
        /\ ctx'.shape = c.shape /\ ctx'.link_count = c.link_count
        /\ ctx'.link_total = c.link_total /\ ctx'.link_start = c.link_start
    <2> DEFINE e == [c EXCEPT !.limited = l, !.max = m, !.first = f]
    <2>1. /\ e \in Contexts /\ e.limited = l /\ e.max = m /\ e.first = f
          /\ e.saw_error = c.saw_error /\ e.link_md5_failed = c.link_md5_failed
          /\ e.saw_stream_info = c.saw_stream_info /\ e.total = c.total
          /\ e.shape = c.shape /\ e.link_count = c.link_count
          /\ e.link_total = c.link_total /\ e.link_start = c.link_start
      BY <1>2, <1>3, <1>4 DEF Contexts
    <2>2. ctx' = [e EXCEPT !.emitted = 0, !.complete = d]
      BY <1>1
    <2> HIDE DEF e
    <2>3. /\ ctx' \in Contexts /\ ctx'.limited = e.limited /\ ctx'.max = e.max
          /\ ctx'.first = e.first
          /\ ctx'.emitted = 0 /\ ctx'.complete = d /\ ctx'.saw_error = e.saw_error
          /\ ctx'.link_md5_failed = e.link_md5_failed
          /\ ctx'.saw_stream_info = e.saw_stream_info /\ ctx'.total = e.total
          /\ ctx'.shape = e.shape /\ ctx'.link_count = e.link_count
          /\ ctx'.link_total = e.link_total /\ ctx'.link_start = e.link_start
      <3>1. 0 \in Nat /\ 0 \in Int
        OBVIOUS
      <3>3. e \in Contexts
        BY <2>1
      <3>4. \A b \in BOOLEAN : [e EXCEPT !.emitted = 0, !.complete = b] \in Contexts
        BY <3>1, <3>3, FieldTypes, Zenon
      <3>2. ctx' \in Contexts
        BY <1>2, <2>2, <3>4, Zenon
      <3> QED
        BY <2>2, <3>2, <3>3 DEF Contexts
    <2> QED
      BY <2>1, <2>3
  <1>6. SameInfo
    BY <1>3, <1>5 DEF SameInfo
  <1> QED
    BY <1>3, <1>5, <1>6 DEF NewWindow, l, d, m, f

\* decodeDecoderFrom sets the first frame itself.
LEMMA ConfiguresFrom ==
  ASSUME ctx \in Contexts, NEW r, r.first \in Int, r.max = 0, r.kind = "from",
         ctx' = [Prepared(ctx) EXCEPT !.first = r.first]
  PROVE  NewWindow(r)
  <1> DEFINE c == Prepared(ctx)
             f == r.first
  <1>1. ctx' = [c EXCEPT !.first = f] /\ f \in Int
    OBVIOUS
  <1>2. /\ c \in Contexts /\ c.saw_error = FALSE /\ c.link_md5_failed = ctx.link_md5_failed
        /\ c.limited = FALSE /\ c.max = 0 /\ c.emitted = 0 /\ c.complete = FALSE
        /\ c.saw_stream_info = ctx.saw_stream_info /\ c.total = ctx.total
        /\ c.shape = ctx.shape /\ c.link_count = ctx.link_count
        /\ c.link_total = ctx.link_total /\ c.link_start = ctx.link_start
    BY PreparedFields
  <1> HIDE DEF c, f
  <1>3. /\ ctx' \in Contexts /\ ctx'.first = f /\ ctx'.saw_error = c.saw_error
        /\ ctx'.limited = c.limited /\ ctx'.max = c.max /\ ctx'.emitted = c.emitted
        /\ ctx'.complete = c.complete /\ ctx'.link_md5_failed = c.link_md5_failed
        /\ ctx'.saw_stream_info = c.saw_stream_info /\ ctx'.total = c.total
        /\ ctx'.shape = c.shape /\ ctx'.link_count = c.link_count
        /\ ctx'.link_total = c.link_total /\ ctx'.link_start = c.link_start
    BY <1>1, <1>2 DEF Contexts
  <1>4. SameInfo
    BY <1>2, <1>3 DEF SameInfo
  <1> QED
    BY <1>2, <1>3, <1>4 DEF NewWindow, Limited, f

LEMMA BeginEffect ==
  ASSUME ControlInv, NEW r \in Requests(source), BeginOp(r)
  PROVE  /\ r.first \in Int /\ r.max \in Int
         /\ r.kind = "full" => r.first = 0 /\ r.max = 0 /\ ~source.reusable
         /\ r.kind = "from" => r.max = 0
         /\ r.chained => r.kind = "full"
         /\ req' = r /\ req' \in [kind : {"full", "from", "range"}, first : Numbers, max : Numbers,
                                  md5 : BOOLEAN, chained : BOOLEAN]
         /\ ops' = ops + 1 /\ ops' \in Nat
         /\ heard' \in Hearings /\ heard'.count = 0 /\ heard'.next = r.first /\ ~heard'.damaged
         /\ exc = "none" /\ ~Running /\ (~source.reusable => pc = "idle")
         /\ ~req.chained /\ dec.link = 1 /\ ctx.link_count = 0 /\ dec.state # "metadata"
         /\ pc = "idle" => dec.pos = 0
         /\ ValidRequest(r) => r.first \in Nat
  <1>1. source \in Sources /\ ops \in Nat
    BY DEF ControlInv, EngineTypeOK
  <1>2. /\ r \in [kind : {"full", "from", "range"}, first : Numbers, max : Numbers,
                  md5 : BOOLEAN, chained : BOOLEAN]
        /\ r.kind = "full" => r.first = 0 /\ r.max = 0 /\ ~source.reusable
        /\ r.kind = "from" => r.max = 0
        /\ r.chained => r.kind = "full"
    BY <1>1, RequestFacts
  <1>3. r.first \in Int /\ r.max \in Int
    BY <1>2, NumbersAreInt
  <1>4. req' = r /\ ops' = ops + 1 /\ MayBegin /\ heard' = [Quiet EXCEPT !.next = r.first]
    BY DEF BeginOp
  <1>5. heard' \in Hearings /\ heard'.count = 0 /\ heard'.next = r.first /\ ~heard'.damaged
    BY <1>3, <1>4 DEF Quiet, Hearings
  <1>6. exc = "none" /\ ~Running /\ (~source.reusable => pc = "idle") /\ ~req.chained
        /\ dec.state # "metadata" /\ (pc = "idle" => dec.pos = 0)
    BY <1>4, Ground DEF MayBegin, ControlInv, QuietPlaces, Running, WindowKept
  <1>7. dec.link = 1 /\ ctx.link_count = 0
    BY <1>6 DEF ControlInv, InfoKept
  <1>8. ops' \in Nat
    BY <1>1, <1>4
  <1> QED
    BY <1>2, <1>3, <1>4, <1>5, <1>6, <1>7, <1>8 DEF ValidRequest

LEMMA BeginControl ==
  ASSUME ControlInv, Begin
  PROVE  ControlInv'
  <1>1. PICK r \in Requests(source) :
          \/ RejectRequest(r) \/ InitFails(r) \/ BeginOneShot(r)
          \/ BeginSessionFrom(r) \/ BeginSessionRange(r)
    BY DEF Begin
  <1>2. BeginOp(r) /\ UNCHANGED source
    BY <1>1 DEF RejectRequest, InitFails, BeginOneShot, BeginSessionFrom, BeginSessionRange
  <1>3. ctx \in Contexts /\ dec \in Decoders
    BY DEF ControlInv, EngineTypeOK
  <1>4. CASE RejectRequest(r) \/ InitFails(r)
    <2>1. /\ exc' \in {"argument", "decode"} /\ pc' = "returned" /\ fault' \in BOOLEAN
          /\ UNCHANGED <<ctx, dec, call, ok>>
      BY <1>4 DEF RejectRequest, InitFails, ControlInv, EngineTypeOK
    <2>2. EngineTypeOK'
      BY <1>2, <2>1, BeginEffect DEF ControlInv, EngineTypeOK, Origins, Places
    <2>3. QuietPlaces' /\ WindowKept' /\ CallFits'
      BY <1>2, <2>1, BeginEffect DEF QuietPlaces, WindowKept, CallFits, Running
    <2>4. InfoKept'
      BY <1>2, <2>1, BeginEffect DEF ControlInv, InfoKept
    <2> QED
      BY <2>2, <2>3, <2>4 DEF ControlInv
  <1>5. CASE BeginOneShot(r)
    <2>1. /\ ValidRequest(r) /\ ~source.reusable /\ dec' = [dec EXCEPT !.state = "metadata"]
          /\ IF r.kind = "full" THEN pc' = "process" /\ call' = call
                                ELSE pc' = "lib" /\ call' = "metadata"
          /\ UNCHANGED <<exc, ok, fault>>
      BY <1>5 DEF BeginOneShot, EnterLib
    <2>2. NewWindow(r)
      BY <1>2, <1>3, <1>5, BeginEffect, Configures DEF BeginOneShot
    <2>3. DecoderTo("metadata")
      BY <1>3, <2>1, DecoderMoves DEF DecoderStates
    <2>4. EngineTypeOK'
      BY <1>2, <2>1, <2>2, <2>3, BeginEffect
         DEF ControlInv, EngineTypeOK, Places, NewWindow, DecoderTo, After
    <2>5. QuietPlaces'
      BY <1>2, <2>1, BeginEffect DEF QuietPlaces, Running
    <2>6. WindowKept'
      BY <1>2, <2>1, <2>2, BeginEffect DEF WindowKept, NewWindow, Running, ValidRequest
    <2>7. InfoKept'
      BY <1>2, <2>1, <2>2, <2>3, BeginEffect DEF ControlInv, InfoKept, NewWindow, SameInfo, DecoderTo
    <2>8. CallFits'
      BY <1>2, <2>1, <2>3, BeginEffect DEF CallFits, DecoderTo
    <2> QED
      BY <2>4, <2>5, <2>6, <2>7, <2>8 DEF ControlInv
  <1>6. CASE BeginSessionFrom(r) \/ BeginSessionRange(r)
    <2>1. /\ ValidRequest(r) /\ source.reusable /\ r.kind # "full" /\ UNCHANGED <<exc, fault>>
          /\ \/ Seek(r.first)
             \/ r.kind = "range" /\ pc' = "ranged" /\ UNCHANGED <<dec, call, ok>>
      BY <1>6 DEF BeginSessionFrom, BeginSessionRange
    <2>2. NewWindow(r)
      <3>1. CASE BeginSessionFrom(r)
        BY <1>2, <1>3, <3>1, BeginEffect, ConfiguresFrom DEF BeginSessionFrom
      <3>2. CASE BeginSessionRange(r)
        BY <1>2, <1>3, <3>2, BeginEffect, Configures DEF BeginSessionRange
      <3> QED
        BY <1>6, <3>1, <3>2
    <2>3. \/ Sought(r.first)
          \/ r.kind = "range" /\ pc' = "ranged" /\ UNCHANGED <<dec, call, ok>>
      BY <1>2, <2>1, BeginEffect, SeekEffect
    <2>4. EngineTypeOK'
      BY <1>2, <2>1, <2>2, <2>3, BeginEffect
         DEF ControlInv, EngineTypeOK, Places, NewWindow, Sought, After
    <2>5. QuietPlaces'
      BY <1>2, <2>1, <2>3, BeginEffect DEF QuietPlaces, Running, Sought
    <2>6. WindowKept'
      BY <1>2, <2>1, <2>2, <2>3, BeginEffect DEF WindowKept, NewWindow, Running, ValidRequest, Sought
    <2>7. InfoKept'
      <3>1. ~r.chained
        BY <1>2, <2>1, BeginEffect
      <3> QED
        BY <1>2, <2>1, <2>2, <2>3, <3>1, BeginEffect DEF ControlInv, InfoKept, NewWindow, SameInfo, Sought
    <2>8. CallFits'
      BY <1>2, <2>1, <2>3, BeginEffect DEF CallFits, Sought, Limited
    <2> QED
      BY <2>4, <2>5, <2>6, <2>7, <2>8 DEF ControlInv
  <1> QED
    BY <1>1, <1>4, <1>5, <1>6

LEMMA ControlInit ==
  ASSUME Init
  PROVE  ControlInv
  <1>1. source \in Sources
    BY DEF Init
  <1>2. /\ Len(source.links) \in Nat \ {0} /\ source.links[1].declared \in Nat
        /\ source.reusable \in BOOLEAN
    BY <1>1, LinkTypes
  <1>3. First(source) = source.links[1]
    BY DEF First
  <1> DEFINE t == source.links[1].declared
  <1>4. ctx = FreshContext \/ ctx = [FreshContext EXCEPT !.saw_stream_info = TRUE, !.total = t]
    BY <1>3 DEF Init
  <1>5. source.reusable => ctx = [FreshContext EXCEPT !.saw_stream_info = TRUE, !.total = t]
    BY <1>3 DEF Init
  <1>6. FreshContext \in Contexts /\ FreshContext.link_count = 0 /\ FreshContext.saw_stream_info = FALSE
    BY DEF FreshContext, Contexts
  <1>7. t \in Nat
    BY <1>2
  <1> HIDE DEF t
  <1>8. /\ ctx \in Contexts /\ ctx.link_count = 0
        /\ ctx.saw_stream_info => ctx.total = t
        /\ source.reusable => ctx.saw_stream_info
    BY <1>4, <1>5, <1>6, <1>7 DEF Contexts
  <1>9. /\ dec \in Decoders /\ dec.link = 1 /\ dec.pos = 0
        /\ dec.state = IF source.reusable THEN "sync" ELSE "none"
    BY DEF Init, Decoders, DecoderStates
  <1>10. EngineTypeOK
    <2>1. 0 \in Numbers
      BY EngineAssumption DEF Numbers
    <2>2. heard \in Hearings
      BY DEF Init, Quiet, Hearings
    <2> QED
      BY <1>1, <1>8, <1>9, <2>1, <2>2 DEF Init, EngineTypeOK, Origins, Places
  <1>11. QuietPlaces /\ CallFits /\ WindowKept
    BY <1>9 DEF Init, QuietPlaces, CallFits, WindowKept, Running
  <1>12. InfoKept
    BY <1>2, <1>3, <1>8, <1>9 DEF Init, InfoKept, t
  <1> QED
    BY <1>10, <1>11, <1>12 DEF ControlInv

LEMMA ControlNext ==
  ASSUME ControlInv, [Next]_vars
  PROVE  ControlInv'
  <1>1. CASE Next
    <2>1. CASE Idle
      BY <2>1 DEF Idle, vars, ControlInv, EngineTypeOK, QuietPlaces, WindowKept, InfoKept,
         CallFits, Running
    <2> QED
      BY <1>1, <2>1, BeginControl, LibControl, EntryControl DEF Next
  <1>2. CASE UNCHANGED vars
    BY <1>2 DEF vars, ControlInv, EngineTypeOK, QuietPlaces, WindowKept, InfoKept,
       CallFits, Running
  <1> QED
    BY <1>1, <1>2

\* The control of every decode operation: the context works on the window of the
\* current request and on what STREAMINFO said, each libFLAC call serves the
\* request it is made for, and no exception is pending where one may be raised.
\* It holds whatever the transport, libFLAC's own file reads and Java do.
THEOREM ControlInvariantHolds == Spec => []ControlInv
  <1> QED
    BY ControlInit, ControlNext, PTL DEF Spec

\* "Java exceptions raised by callbacks must win over synthetic native errors":
\* a pending exception is never replaced or cleared before the operation returns.
THEOREM FirstExceptionIsThrown == Spec => FirstExceptionWins
  <1>1. ControlInv /\ [Next]_vars => [exc # "none" => exc' = exc]_vars
    BY PendingStays DEF ControlInv
  <1> QED
    BY <1>1, ControlInvariantHolds, PTL DEF Spec, FirstExceptionWins

(***************************************************************************)
(* The rest of EngineInv, for transports whose failures Java sees.         *)
(***************************************************************************)

Sound == FaultsAreNoticed /\ HeardInOrder /\ PositionKept /\ ChainKept /\ OutcomeExplained

\* An exception's cause stays one.
LEMMA StaysExplained ==
  ASSUME UNCHANGED <<source, req>>, Explained, fault => fault'
  PROVE  Explained'
  BY Stable DEF Explained, ValidRequest, Limited, First

\* A call returns what it may: nothing after a fault or on defective bytes, and
\* an exception only for a cause.
LEMMA ReturnKeeps ==
  ASSUME EngineInv, Running, NEW e \in Origins, Return(e), UNCHANGED <<source, req>>,
         heard'.count = heard.count, heard'.next = heard.next, heard'.damaged = heard.damaged,
         fault => fault', fault' => e # "none",
         e # "none" => Explained \/ fault', e = "none" => ~Defective
  PROVE  Sound'
  <1>1. /\ pc' = "returned" /\ exc' = e /\ ctx'.saw_error = ctx.saw_error
        /\ ctx'.link_md5_failed = ctx.link_md5_failed
        /\ dec'.corrupt = dec.corrupt
        /\ dec'.state = IF source.reusable THEN dec.state ELSE "none"
    BY ReturnEffect DEF EngineInv, DecoderTo
  <1>2. dec'.state # "metadata"
    BY <1>1 DEF EngineInv, ControlInv, QuietPlaces
  <1>3. FaultsAreNoticed'
    BY <1>1 DEF EngineInv, FaultsAreNoticed, Running
  <1>4. HeardInOrder'
    BY <1>1 DEF EngineInv, HeardInOrder, Running
  <1>5. PositionKept' /\ ChainKept'
    BY <1>1, <1>2 DEF PositionKept, ChainKept
  <1>6. OutcomeExplained'
    <2>1. e # "none" => Explained'
      BY StaysExplained DEF Explained
    <2>2. Defective' <=> Defective
      BY Stable
    <2> QED
      BY <1>1, <2>1, <2>2 DEF EngineInv, OutcomeExplained, Running
  <1> QED
    BY <1>3, <1>4, <1>5, <1>6 DEF Sound

\* onComplete is told of a sound operation only.
LEMMA CompletesKeeps ==
  ASSUME EngineInv, Running, Completes, UNCHANGED <<source, req>>,
         exc = "none", ~fault, ~Defective
  PROVE  Sound'
  <1>1. "none" \in Origins /\ "user" \in Origins
    BY DEF Origins
  <1>2. ControlInv
    BY DEF EngineInv
  <1>3. /\ heard'.count = heard.count /\ heard'.next = heard.next
        /\ heard'.damaged = heard.damaged
        /\ \/ Return("none") /\ fault' = fault
           \/ Return("user") /\ fault' = TRUE
    BY <1>2, CompletesEffect
  <1>4. CASE Return("none") /\ fault' = fault
    BY <1>1, <1>3, <1>4, ReturnKeeps
  <1>5. CASE Return("user") /\ fault' = TRUE
    BY <1>1, <1>3, <1>5, ReturnKeeps
  <1> QED
    BY <1>3, <1>4, <1>5

\* Only whole-stream decodes can be defective.
LEMMA PartsAreNotDefective ==
  ASSUME ControlInv, pc # "idle", req.kind # "full"
  PROVE  ~Defective /\ ~req.chained /\ Len(source.links) = 1 /\ dec.link = 1
  <1>1. ~req.chained /\ Len(source.links) = 1
    BY Ground
  <1>2. dec.link = 1
    BY <1>1 DEF ControlInv, InfoKept
  <1> QED
    BY <1>1, <1>2 DEF Defective

\* A range past the declared end starts past the frames there are.
LEMMA PastTheEnd ==
  ASSUME ControlInv, Running, req.kind # "full", ctx.saw_stream_info
  PROVE  /\ ctx.total = First(source).declared /\ ctx.total \in Nat /\ req.first \in Nat
         /\ First(source).actual \in Nat
         /\ StartsAfterStream(ctx, req) => Explained
         /\ First(source).declared > 0 /\ req.first >= First(source).declared =>
              req.first >= First(source).actual
  <1>1. /\ ctx.total = First(source).declared /\ ctx.total \in Nat /\ req.first \in Nat
        /\ First(source).actual \in Nat
    BY Ground, ContextFields DEF ControlInv, InfoKept, WindowKept, EngineTypeOK, ValidRequest
  <1>2. First(source).declared = 0 \/ First(source).actual <= First(source).declared
    BY Ground, PartsAreNotDefective DEF Running
  <1> QED
    BY <1>1, <1>2 DEF StartsAfterStream, KnownTotal, Explained

\* A pending exception, or saw_error, tells that something went wrong.
LEMMA NothingWrong ==
  ASSUME EngineInv, Running, exc = "none", ~ctx.saw_error
  PROVE  ~fault
  BY DEF EngineInv, FaultsAreNoticed

LEMMA SomethingWrong ==
  ASSUME EngineInv, Running, exc # "none" \/ ctx.saw_error
  PROVE  Explained
  BY DEF EngineInv, FaultsAreNoticed, OutcomeExplained, Explained

\* decodeDecoderRange, on the ranges it decides without libFLAC.
LEMMA SettleKeeps ==
  ASSUME EngineInv, SettleSessionRange
  PROVE  Sound'
  <1>1. /\ ControlInv /\ pc = "ranged" /\ Running /\ exc = "none" /\ req.kind # "full"
        /\ UNCHANGED <<source, req>>
    BY DEF EngineInv, ControlInv, QuietPlaces, CallFits, Limited, SettleSessionRange, Running
  <1>2. ~fault
    BY <1>1 DEF EngineInv, FaultsAreNoticed
  <1>3. CASE StartsAfterStream(ctx, req)
    <2>1. Return("decode") /\ UNCHANGED <<heard, fault>> /\ "decode" \in Origins
      BY <1>3 DEF SettleSessionRange, Origins
    <2>2. Explained
      BY <1>1, <1>3, PastTheEnd DEF StartsAfterStream, KnownTotal
    <2> QED
      BY <1>1, <1>2, <2>1, <2>2, ReturnKeeps
  <1>4. CASE ~StartsAfterStream(ctx, req)
    <2>1. Completes
      BY <1>4 DEF SettleSessionRange
    <2> QED
      BY <1>1, <1>2, <2>1, PartsAreNotDefective, CompletesKeeps
  <1> QED
    BY <1>3, <1>4

\* A seek leaves libFLAC at the first frame, or is refused at or past the end.
LEMMA SeekKeeps ==
  ASSUME ControlInv, source' = source, Len(source.links) = 1, req'.first \in Nat,
         Sought(req'.first), dec.state # "metadata", ~dec.corrupt, HeardInOrder',
         ~fault', exc' = "none", ctx'.emitted = 0, ~ctx'.saw_error, ~ctx'.complete,
         ~ctx'.link_md5_failed, ~req'.chained
  PROVE  Sound'
  <1>1. /\ First(source).declared \in Nat /\ First(source).actual \in Nat
        /\ First(source).declared > 0 => First(source).actual <= First(source).declared
    BY Ground
  <1>2. pc' = "sought" => ~ok' /\ req'.first >= First(source).actual
    BY <1>1 DEF Sought
  <1>3. /\ pc' \in {"sought", "lib"} /\ call' = "seek" /\ dec'.state # "metadata"
        /\ ~dec'.corrupt
        /\ pc' = "lib" => dec'.state = "sync" /\ dec'.pos = req'.first
    BY DEF Sought
  <1>4. FaultsAreNoticed'
    BY <1>3 DEF FaultsAreNoticed
  <1>5. PositionKept' /\ ChainKept'
    BY <1>2, <1>3 DEF PositionKept, ChainKept
  <1>6. OutcomeExplained'
    BY <1>3 DEF OutcomeExplained
  <1> QED
    BY <1>4, <1>5, <1>6 DEF Sound

LEMMA MetadataKeeps ==
  ASSUME EngineInv, AfterMetadata
  PROVE  Sound'
  <1>1. /\ ControlInv /\ pc = "metadata_read" /\ Running /\ req.kind # "full"
        /\ UNCHANGED <<source, req>> /\ "decode" \in Origins /\ exc \in Origins
        /\ ok => ctx.saw_stream_info
    BY DEF EngineInv, ControlInv, EngineTypeOK, CallFits, AfterMetadata, Running, Origins
  <1>2. CASE exc # "none"
    BY <1>1, <1>2, SomethingWrong, ReturnKeeps DEF AfterMetadata
  <1>3. CASE exc = "none" /\ (~ok \/ ctx.saw_error \/ StartsAfterStream(ctx, req))
    <2>1. Return("decode") /\ UNCHANGED <<heard, fault>>
      BY <1>3 DEF AfterMetadata
    <2>2. Explained
      <3>1. CASE ctx.saw_error
        BY <1>1, <3>1, SomethingWrong
      <3>2. CASE ~ctx.saw_error
        <4>1. ok
          BY <1>1, <1>3, <3>2, NothingWrong DEF EngineInv, PositionKept
        <4> QED
          BY <1>1, <1>3, <3>2, <4>1, PastTheEnd
      <3> QED
        BY <3>1, <3>2
    <2> QED
      BY <1>1, <2>1, <2>2, ReturnKeeps
  <1>4. CASE exc = "none" /\ ok /\ ~ctx.saw_error /\ ~StartsAfterStream(ctx, req)
    <2>1. /\ ~fault /\ dec.state = "sync" /\ dec.pos = 0 /\ ctx.emitted = 0
      BY <1>1, <1>4, NothingWrong DEF EngineInv, PositionKept
    <2>2. ~ctx.link_md5_failed /\ ~dec.corrupt
      BY <1>1, <2>1, PartsAreNotDefective DEF EngineInv, OutcomeExplained, FaultsAreNoticed
    <2>3. req.first \in Nat /\ ~req.chained /\ Len(source.links) = 1 /\ dec.link = 1
      BY <1>1, <1>4, PastTheEnd, PartsAreNotDefective DEF Running
    <2>4. CASE Completes
      BY <1>1, <1>4, <2>1, <2>4, PartsAreNotDefective, CompletesKeeps DEF Running
    <2>5. CASE /\ ~ctx.complete /\ req.first = 0 /\ pc' = "process"
               /\ UNCHANGED <<ctx, dec, exc, call, ok, heard, fault>>
      <3>1. dec.pos <= LinkEnd(source)[dec.link]
        BY <1>1, <2>1, <2>3, Ground
      <3>2. Exact'
        BY <1>1, <2>1, <2>5, <3>1 DEF Exact
      <3>3. FaultsAreNoticed' /\ HeardInOrder'
        BY <1>1, <2>1, <2>5 DEF EngineInv, FaultsAreNoticed, HeardInOrder, Running
      <3>4. PositionKept' /\ ChainKept'
        BY <1>1, <2>1, <2>3, <2>5, <3>2 DEF PositionKept, ChainKept
      <3>5. OutcomeExplained'
        BY <1>4, <2>2, <2>5 DEF OutcomeExplained
      <3> QED
        BY <3>3, <3>4, <3>5 DEF Sound
    <2>6. CASE ~ctx.complete /\ Seek(req.first) /\ UNCHANGED <<ctx, exc, heard, fault>>
      <3>1. Sought(req.first)
        BY <1>1, <2>3, <2>6, SeekEffect
      <3>2. HeardInOrder'
        BY <1>1, <2>6, <3>1 DEF EngineInv, HeardInOrder, Sought, Running
      <3> QED
        BY <1>1, <1>4, <2>1, <2>2, <2>3, <2>6, <3>1, <3>2, SeekKeeps
    <2> QED
      BY <1>4, <2>4, <2>5, <2>6 DEF AfterMetadata
  <1> QED
    BY <1>2, <1>3, <1>4

LEMMA AfterSeekKeeps ==
  ASSUME EngineInv, AfterSeek
  PROVE  Sound'
  <1>1. /\ ControlInv /\ pc = "sought" /\ Running /\ req.kind # "full"
        /\ UNCHANGED <<source, req, ok, heard, fault>> /\ "decode" \in Origins /\ exc \in Origins
    BY DEF EngineInv, ControlInv, EngineTypeOK, CallFits, AfterSeek, Running, Origins
  <1>2. CASE exc = "none" /\ (~ok \/ ctx.saw_error)
    <2>1. Explained
      <3>1. CASE ctx.saw_error
        BY <1>1, <3>1, SomethingWrong
      <3>2. CASE ~ctx.saw_error
        BY <1>1, <1>2, <3>2, NothingWrong DEF EngineInv, PositionKept, Explained
      <3> QED
        BY <3>1, <3>2
    <2> QED
      BY <1>1, <1>2, <2>1, ReturnKeeps DEF AfterSeek
  <1>3. CASE exc # "none" /\ ~source.reusable
    BY <1>1, <1>3, SomethingWrong, ReturnKeeps DEF AfterSeek
  <1>4. CASE pc' = "process" /\ UNCHANGED <<ctx, dec, exc>> /\ (exc = "none" => ok /\ ~ctx.saw_error)
    <2>1. exc = "none" => ~fault
      BY <1>1, <1>4, NothingWrong
    <2>2. FaultsAreNoticed' /\ HeardInOrder'
      BY <1>1, <1>4, <2>1 DEF EngineInv, FaultsAreNoticed, HeardInOrder, Running
    <2>3. exc = "none" => Exact' /\ dec.state = "sync"
      BY <1>1, <1>4, <2>1 DEF EngineInv, PositionKept, Exact
    <2>4. PositionKept' /\ ChainKept'
      BY <1>1, <1>4, <2>3, PartsAreNotDefective DEF PositionKept, ChainKept
    <2>5. OutcomeExplained'
      BY <1>1, <1>4, StaysExplained, Stable DEF EngineInv, OutcomeExplained
    <2> QED
      BY <2>2, <2>4, <2>5 DEF Sound
  <1> QED
    BY <1>2, <1>3, <1>4 DEF AfterSeek

(***************************************************************************)
(* process_decode_stream.                                                  *)
(***************************************************************************)

\* How Wanted follows from the frames counted.
LEMMA WantedFacts ==
  ASSUME ControlInv, Running
  PROVE  /\ Length \in Nat /\ req.first \in Nat
         /\ dec.link \in 1 .. Len(source.links) /\ LinkEnd(source)[dec.link] \in Nat
         /\ LinkEnd(source)[dec.link] <= Length
         /\ \A e \in Nat : req.first + e <= Length /\ (Limited(req) => e <= req.max) =>
              /\ e <= Wanted
              /\ Limited(req) /\ e = req.max => Wanted = e
              /\ req.first + e = Length => Wanted = e
  <1>1. /\ req.first \in Nat /\ req.max \in Int /\ (Limited(req) => req.max >= 0)
        /\ ValidRequest(req)
    BY Ground DEF ControlInv, WindowKept, ValidRequest
  <1>2. dec.link \in 1 .. Len(source.links) /\ (~req.chained => dec.link = 1)
        /\ Len(source.links) \in Nat \ {0} /\ (~req.chained => Len(source.links) = 1)
    BY Ground, DecoderFields DEF ControlInv, EngineTypeOK, InfoKept, Running
  <1> DEFINE a == source.links[1].actual
             d == source.links[1].declared
             n == Len(source.links)
             ends == LinkEnd(source)
             p == ends[dec.link]
  <1>3. /\ First(source) = source.links[1] /\ d \in Nat /\ a \in Nat
        /\ ends[1] = a /\ p \in Nat /\ p <= ends[n] /\ ends[n] \in Nat
        /\ n = 1 => d = 0 \/ a <= d
    <2>1. 1 \in 1 .. n /\ n \in 1 .. n
      BY <1>2
    <2> QED
      BY <1>2, <2>1, Ground
  <1>4. Length \in Nat /\ p \in Nat /\ p <= Length
    <2>1. Length = IF ~req.chained /\ d > 0 THEN d ELSE ends[n]
      BY <1>3 DEF Length
    <2>2. CASE req.chained
      BY <1>3, <2>1, <2>2
    <2>3. CASE ~req.chained
      <3>1. p = a /\ ends[n] = a /\ (d = 0 \/ a <= d)
        BY <1>2, <1>3, <2>3
      <3> HIDE DEF p, ends, a, d, n
      <3> QED
        BY <1>3, <2>1, <3>1
    <2> QED
      BY <2>2, <2>3
  <1> HIDE DEF a, d, n, ends, p
  <1>5. ASSUME NEW e \in Nat, req.first + e <= Length, Limited(req) => e <= req.max
        PROVE  /\ e <= Wanted
               /\ Limited(req) /\ e = req.max => Wanted = e
               /\ req.first + e = Length => Wanted = e
    <2>1. req.first <= Length
      BY <1>1, <1>4, <1>5
    <2>2. Wanted = IF Limited(req) /\ req.max < Length - req.first THEN req.max
                   ELSE Length - req.first
      BY <1>1, <1>4, <2>1 DEF Wanted
    <2> QED
      BY <1>1, <1>4, <1>5, <2>2
  <1> QED
    BY <1>1, <1>2, <1>4, <1>5 DEF ends, p

\* process_decode_stream reaches its verdict.
LEMMA FinishKeeps ==
  ASSUME EngineInv, Running, pc' = "finish", UNCHANGED <<source, req, dec, heard, fault>>,
         ctx'.saw_error = ctx.saw_error, ctx'.emitted = ctx.emitted,
         ctx'.link_md5_failed => ctx.link_md5_failed \/ (~source.reusable /\ Defective),
         exc' = exc \/ exc' # "none",
         ~ok' \/ exc' # "none" => Explained,
         ok' /\ exc' = "none" =>
           ~fault /\ ctx.emitted = Wanted /\ (Defective => req.md5 /\ ~Last(source).signed)
  PROVE  Sound'
  <1>1. FaultsAreNoticed'
    BY DEF EngineInv, FaultsAreNoticed, Running
  <1>2. HeardInOrder'
    BY DEF EngineInv, HeardInOrder, Running
  <1>3. dec.link \in Nat
    BY DecoderFields DEF EngineInv, ControlInv, EngineTypeOK
  <1>4. PositionKept'
    BY <1>3, Stable DEF EngineInv, PositionKept
  <1>5. ChainKept'
    BY DEF ChainKept
  <1>6. OutcomeExplained'
    <2>1. Explained => Explained'
      BY StaysExplained
    <2>2. (Defective' <=> Defective) /\ Wanted' = Wanted
      BY Stable
    <2> QED
      BY <2>1, <2>2 DEF EngineInv, OutcomeExplained, Running
  <1> QED
    BY <1>1, <1>2, <1>4, <1>5, <1>6 DEF Sound

LEMMA ProcessKeeps ==
  ASSUME EngineInv, Process
  PROVE  Sound'
  <1>1. /\ ControlInv /\ pc = "process" /\ Running /\ exc' = exc
        /\ UNCHANGED <<source, req, ctx, dec, heard, fault>>
    BY DEF EngineInv, Process, Running, Decide
  <1>2. exc = "none" => ~fault
    BY <1>1 DEF EngineInv, FaultsAreNoticed
  <1>3. /\ ctx.emitted \in Nat /\ ctx.limited = Limited(req) /\ ctx.max = req.max
        /\ req.max \in Int
        /\ ctx.limited => ctx.emitted <= ctx.max
        /\ ctx.complete <=> ctx.limited /\ ctx.emitted >= ctx.max
    BY <1>1, Ground, ContextFields DEF ControlInv, EngineTypeOK, WindowKept
  <1>4. CASE pc' = "lib" /\ ~ctx.complete /\ call' \notin {"metadata", "seek"}
    <2>1. FaultsAreNoticed' /\ HeardInOrder'
      BY <1>1, <1>2, <1>4 DEF EngineInv, FaultsAreNoticed, HeardInOrder, Running
    <2>2. exc = "none" => Exact' /\ dec.state \in {"metadata", "sync"}
      BY <1>1, <1>2 DEF EngineInv, PositionKept, Exact
    <2>3. dec.link \in Nat
      BY <1>1, DecoderFields DEF ControlInv, EngineTypeOK
    <2>4. PositionKept'
      BY <1>1, <1>4, <2>2, <2>3, Stable DEF EngineInv, PositionKept
    <2>5. ChainKept'
      <3>1. \A k \in 1 .. dec.link - 1 : k \in Nat
        BY <2>3
      <3> QED
        BY <1>1, <1>4, <2>3, <3>1, Stable DEF EngineInv, ChainKept
    <2>6. OutcomeExplained'
      BY <1>1, <1>4, StaysExplained, Stable DEF EngineInv, OutcomeExplained
    <2> QED
      BY <2>1, <2>4, <2>5, <2>6 DEF Sound
  <1>5. CASE pc' = "finish" /\ ctx.complete /\ ok' = TRUE
    <2>1. exc # "none" => Explained
      BY <1>1, SomethingWrong
    <2>2. ASSUME exc = "none" PROVE ctx.emitted = Wanted
      <3>1. Exact
        BY <1>1, <1>2, <2>2 DEF EngineInv, PositionKept
      <3>2. req.first + ctx.emitted <= Length
        BY <1>1, <1>3, <3>1, WantedFacts, DecoderFields DEF Exact, ControlInv, EngineTypeOK
      <3> QED
        BY <1>1, <1>3, <1>5, <3>2, WantedFacts
    <2>3. ~Defective
      BY <1>1, <1>3, <1>5, PartsAreNotDefective DEF Limited
    <2> QED
      BY <1>1, <1>2, <1>5, <2>1, <2>2, <2>3, FinishKeeps
  <1>6. CASE pc' = "finish" /\ exc # "none"
    BY <1>1, <1>6, SomethingWrong, FinishKeeps
  <1> QED
    BY <1>1, <1>3, <1>4, <1>5, <1>6 DEF Process, EnterLib, Decide

\* At the physical end, validate_physical_eof_sample_count accepts the frames
\* the request wanted and nothing less.
LEMMA AtTheEnd ==
  ASSUME EngineInv, pc = "called", ~fault, exc = "none", ~req.chained, dec.state = "eos"
  PROVE  IF CountAccepted(ctx) THEN ctx.emitted = Wanted /\ ~Truncated ELSE Truncated
  <1> DEFINE a == First(source).actual
             d == First(source).declared
             e == ctx.emitted
             f == req.first
  <1>1. ControlInv /\ Running /\ Len(source.links) = 1 /\ dec.link = 1
    BY Ground DEF EngineInv, ControlInv, InfoKept, Running
  <1>2. a \in Nat /\ d \in Nat /\ e \in Nat /\ f \in Nat /\ (d = 0 \/ a <= d)
    BY <1>1, Ground, WantedFacts, ContextFields DEF ControlInv, EngineTypeOK
  <1>3. Exact /\ ~ctx.complete /\ dec.pos = LinkEnd(source)[dec.link]
    BY <1>1 DEF EngineInv, PositionKept
  <1>4. f + e = a
    BY <1>1, <1>3, Ground DEF Exact
  <1>5. CountAccepted(ctx) <=> d = 0 \/ f >= d \/ e >= d - f
    BY <1>1, <1>2 DEF CountAccepted, KnownTotal, ControlInv, InfoKept, WindowKept
  <1>6. Length = IF d > 0 THEN d ELSE a
    BY <1>1, Ground DEF Length
  <1>7. Truncated <=> d > a
    BY DEF Truncated
  <1>8. Limited(req) => e <= req.max
    BY <1>1 DEF ControlInv, WindowKept
  <1> HIDE DEF a, d, e, f
  <1>9. CASE CountAccepted(ctx)
    <2>1. a >= d /\ Length = a /\ ~Truncated
      BY <1>2, <1>4, <1>5, <1>6, <1>7, <1>9
    <2>2. f + e <= Length /\ f + e = Length
      BY <1>2, <1>4, <2>1
    <2>3. e = Wanted
      BY <1>1, <1>2, <1>8, <2>2, WantedFacts DEF e, f
    <2> QED
      BY <1>9, <2>1, <2>3 DEF e
  <1>10. CASE ~CountAccepted(ctx)
    BY <1>2, <1>4, <1>5, <1>7, <1>10
  <1> QED
    BY <1>9, <1>10

LEMMA PhysicalEndKeeps ==
  ASSUME EngineInv, pc = "called", ~fault, exc = "none", ~req.chained, dec.state = "eos",
         AtPhysicalEnd, UNCHANGED <<source, req, ctx, dec, heard, fault>>
  PROVE  Sound'
  <1>1. ControlInv /\ Running
    BY DEF EngineInv, Running
  <1>2. Last(source) = First(source)
    BY <1>1, Ground DEF Running
  <1>3. CASE CountAccepted(ctx)
    <2>1. pc' = "finish" /\ ok' = TRUE /\ exc' = exc
      BY <1>3 DEF AtPhysicalEnd, Decide
    <2>2. ctx.emitted = Wanted /\ ~Truncated
      BY <1>3, AtTheEnd
    <2>3. Defective => req.md5 /\ ~Last(source).signed
      BY <1>2, <2>2 DEF Defective
    <2> QED
      BY <1>1, <2>1, <2>2, <2>3, FinishKeeps
  <1>4. CASE ~CountAccepted(ctx)
    <2>1. pc' = "finish" /\ ok' = FALSE /\ exc' = "decode"
      BY <1>4 DEF AtPhysicalEnd
    <2>2. Explained
      BY <1>1, <1>4, AtTheEnd, Ground DEF Explained, Defective
    <2> QED
      BY <1>1, <2>1, <2>2, FinishKeeps
  <1> QED
    BY <1>3, <1>4

LEMMA UntilEndKeeps ==
  ASSUME EngineInv, AfterUntilEnd
  PROVE  Sound'
  <1>1. /\ ControlInv /\ pc = "called" /\ Running /\ call = "until_end" /\ ~req.chained
        /\ UNCHANGED <<source, req, ctx, dec, heard, fault>>
    BY DEF EngineInv, ControlInv, CallFits, AfterUntilEnd, Running
  <1>2. CASE ctx.saw_error \/ exc # "none"
    <2>1. pc' = "finish" /\ ok' = FALSE /\ exc' = exc
      BY <1>2 DEF AfterUntilEnd, Decide
    <2> QED
      BY <1>1, <1>2, <2>1, SomethingWrong, FinishKeeps
  <1>3. CASE ~ctx.saw_error /\ exc = "none"
    <2>1. ~fault
      BY <1>1, <1>3, NothingWrong
    <2>2. Len(source.links) = 1 /\ dec.link = 1
      BY <1>1, Ground DEF ControlInv, InfoKept
    <2>3. ok /\ dec.state = "eos"
      BY <1>1, <1>3, <2>1, <2>2 DEF EngineInv, PositionKept
    <2>4. AtPhysicalEnd
      BY <1>1, <1>3, <2>3 DEF AfterUntilEnd
    <2> QED
      BY <1>1, <1>3, <2>1, <2>3, <2>4, PhysicalEndKeeps
  <1> QED
    BY <1>2, <1>3

LEMMA SingleKeeps ==
  ASSUME EngineInv, AfterSingle
  PROVE  Sound'
  <1>1. /\ ControlInv /\ pc = "called" /\ Running /\ call = "single" /\ req.kind # "full"
        /\ UNCHANGED <<source, req, ctx, dec, heard, fault>>
    BY DEF EngineInv, ControlInv, CallFits, WindowKept, Limited, AfterSingle, Running
  <1>2. CASE ctx.saw_error \/ exc # "none"
    <2>1. pc' = "finish" /\ ok' = FALSE /\ exc' = exc
      BY <1>2 DEF AfterSingle, Decide
    <2> QED
      BY <1>1, <1>2, <2>1, SomethingWrong, FinishKeeps
  <1>3. CASE ~ctx.saw_error /\ exc = "none"
    <2>1. ~fault
      BY <1>1, <1>3, NothingWrong
    <2>2. Len(source.links) = 1 /\ dec.link = 1 /\ ~req.chained
      BY <1>1, PartsAreNotDefective DEF Running
    <2>3. ok /\ Exact /\ dec.state \in {"sync", "eos"}
      BY <1>1, <1>3, <2>1, <2>2 DEF EngineInv, PositionKept
    <2>4. CASE dec.state = "eos"
      <3>1. AtPhysicalEnd
        BY <1>1, <1>3, <2>3, <2>4 DEF AfterSingle
      <3> QED
        BY <1>1, <1>3, <2>1, <2>2, <2>4, <3>1, PhysicalEndKeeps
    <2>5. CASE dec.state = "sync"
      <3>1. pc' = "process" /\ exc' = exc
        BY <1>1, <1>3, <2>3, <2>5 DEF AfterSingle
      <3>2. FaultsAreNoticed' /\ HeardInOrder'
        BY <1>1, <1>3, <2>1, <3>1 DEF EngineInv, FaultsAreNoticed, HeardInOrder, Running
      <3>3. Exact'
        BY <1>1, <2>3 DEF Exact
      <3>4. PositionKept' /\ ChainKept'
        BY <1>1, <2>2, <2>5, <3>1, <3>3 DEF PositionKept, ChainKept
      <3>5. OutcomeExplained'
        BY <1>1, <1>3, <3>1, Stable DEF EngineInv, OutcomeExplained
      <3> QED
        BY <3>2, <3>4, <3>5 DEF Sound
    <2> QED
      BY <2>3, <2>4, <2>5
  <1> QED
    BY <1>2, <1>3

LEMMA FinishReturns ==
  ASSUME EngineInv, Finish
  PROVE  Sound'
  <1>1. /\ ControlInv /\ pc = "finish" /\ Running /\ UNCHANGED <<source, req>>
        /\ "decode" \in Origins /\ exc \in Origins
    BY DEF EngineInv, ControlInv, EngineTypeOK, Finish, Running, Origins
  <1>2. CASE exc # "none"
    BY <1>1, <1>2, SomethingWrong, ReturnKeeps DEF Finish
  <1> DEFINE bad == (req.md5 /\ ctx.link_md5_failed) \/ ~ok \/ (req.md5 /\ ~Last(source).signed)
  <1>3. CASE exc = "none" /\ bad
    <2>1. Return("decode") /\ UNCHANGED <<heard, fault>>
      BY <1>3 DEF Finish
    <2>2. ctx.link_md5_failed \/ ~ok => Explained
      BY <1>1 DEF EngineInv, OutcomeExplained, Explained
    <2>3. ASSUME req.md5, ~Last(source).signed PROVE Defective
      <3>1. /\ Len(source.links) \in 1 .. Len(source.links)
            /\ Last(source) = source.links[Len(source.links)]
        BY <1>1, Ground
      <3>2. CASE req.chained
        BY <2>3, <3>1, <3>2 DEF Defective
      <3>3. CASE ~req.chained
        BY <1>1, <2>3, <3>1, <3>3, Ground DEF Defective, Running
      <3> QED
        BY <3>2, <3>3
    <2>4. Explained
      BY <1>3, <2>2, <2>3 DEF Explained
    <2> QED
      BY <1>1, <2>1, <2>4, ReturnKeeps
  <1>4. CASE exc = "none" /\ ~bad
    <2>1. Completes
      BY <1>4 DEF Finish
    <2>2. ~fault /\ ~Defective
      BY <1>1, <1>4 DEF EngineInv, FaultsAreNoticed, OutcomeExplained
    <2> QED
      BY <1>1, <1>4, <2>1, <2>2, CompletesKeeps
  <1> QED
    BY <1>2, <1>3, <1>4

\* A link of a chain that ended without an error: where the context stands in it.
LEMMA LinkEnded ==
  ASSUME EngineInv, pc = "called", ~fault, exc = "none", req.chained
  PROVE  /\ dec.link \in 1 .. Len(source.links)
         /\ dec.state = IF dec.link < Len(source.links) THEN "eol" ELSE "eos"
         /\ ok /\ dec.pos = LinkEnd(source)[dec.link] /\ ctx.emitted = dec.pos
         /\ req.kind = "full" /\ req.first = 0 /\ ~source.reusable
         /\ LinkCountAccepted(ctx) <=>
              source.links[dec.link].declared \in {0, source.links[dec.link].actual}
         /\ source.links[dec.link].shape = First(source).shape
  <1> DEFINE d == source.links[dec.link].declared
             e == ctx.emitted
  <1>1. ControlInv /\ Running
    BY DEF EngineInv, Running
  <1>2. req.kind = "full" /\ req.first = 0 /\ ~source.reusable
    BY <1>1, Ground DEF Running
  <1>3. ~ctx.limited /\ ~ctx.complete /\ call # "single"
    BY <1>1, <1>2 DEF ControlInv, WindowKept, Limited, CallFits
  <1>4. /\ ok /\ Exact
        /\ dec.state = IF dec.link < Len(source.links) THEN "eol" ELSE "eos"
        /\ dec.pos = LinkEnd(source)[dec.link]
    BY <1>1, <1>3 DEF EngineInv, PositionKept
  <1>5. e \in Nat /\ dec.pos \in Nat
    BY <1>1, ContextFields, DecoderFields DEF ControlInv, EngineTypeOK
  <1>6. e = dec.pos
    BY <1>2, <1>3, <1>4, <1>5 DEF Exact
  <1>7. dec.link \in 1 .. Len(source.links)
    BY <1>1, WantedFacts, DecoderFields DEF ControlInv, EngineTypeOK
  <1>8. /\ ctx.link_total = d /\ ctx.link_start = Before(dec.link)
        /\ source.links[dec.link].shape = First(source).shape
    BY <1>1, <1>4 DEF EngineInv, ChainKept
  <1>9. d \in Nat
    BY <1>1, <1>7, Ground
  <1>10. e - Before(dec.link) = source.links[dec.link].actual
    <2>1. /\ Before(dec.link) \in Nat /\ source.links[dec.link].actual \in Nat
          /\ LinkEnd(source)[dec.link] = Before(dec.link) + source.links[dec.link].actual
      BY <1>1, <1>7, LinkBounds, Ground
    <2> QED
      BY <1>4, <1>5, <1>6, <2>1
  <1>11. LinkCountAccepted(ctx) <=> d = 0 \/ source.links[dec.link].actual = d
    BY <1>8, <1>10 DEF LinkCountAccepted
  <1> QED
    BY <1>2, <1>4, <1>6, <1>7, <1>8, <1>9, <1>11

LEMMA LinkKeeps ==
  ASSUME EngineInv, AfterLink
  PROVE  Sound'
  <1>1. /\ ControlInv /\ pc = "called" /\ Running /\ call = "until_link" /\ req.chained
        /\ UNCHANGED <<source, req, heard, fault>> /\ ctx \in Contexts /\ dec \in Decoders
    BY DEF EngineInv, ControlInv, EngineTypeOK, CallFits, AfterLink, Running
  <1>2. CASE ctx.saw_error \/ exc # "none"
    <2>1. pc' = "finish" /\ ok' = FALSE /\ UNCHANGED <<exc, ctx, dec>>
      BY <1>2 DEF AfterLink, Decide
    <2> QED
      BY <1>1, <1>2, <2>1, SomethingWrong, FinishKeeps
  <1>3. CASE ~ctx.saw_error /\ exc = "none"
    <2> DEFINE l == source.links[dec.link]
    <2>1. ~fault
      BY <1>1, <1>3, NothingWrong
    <2>2. /\ dec.link \in 1 .. Len(source.links)
          /\ dec.state = IF dec.link < Len(source.links) THEN "eol" ELSE "eos"
          /\ ok /\ dec.pos = LinkEnd(source)[dec.link] /\ ctx.emitted = dec.pos
          /\ req.kind = "full" /\ req.first = 0 /\ ~source.reusable
          /\ LinkCountAccepted(ctx) <=> l.declared \in {0, l.actual}
          /\ l.shape = First(source).shape
      BY <1>1, <1>3, <2>1, LinkEnded
    <2>3. \A j \in 1 .. dec.link - 1 : SoundLink(j)
      BY <1>1, <1>3, <2>1 DEF EngineInv, ChainKept
    <2>4. CASE ~LinkCountAccepted(ctx)
      <3>1. pc' = "finish" /\ exc' = "decode" /\ UNCHANGED <<ctx, dec>>
        BY <1>3, <2>2, <2>4 DEF AfterLink
      <3>2. Explained
        BY <1>1, <2>2, <2>4 DEF Explained, Defective
      <3> QED
        BY <1>1, <3>1, <3>2, FinishKeeps
    <2>5. CASE LinkCountAccepted(ctx) /\ dec.state = "eos"
      <3>1. pc' = "finish" /\ ok' = TRUE /\ UNCHANGED <<exc, ctx, dec>>
        BY <1>3, <2>2, <2>5 DEF AfterLink, Decide
      <3>2. dec.link = Len(source.links)
        <4>1. ~(dec.link < Len(source.links))
          BY <2>2, <2>5
        <4>2. Len(source.links) \in Nat
          BY <1>1, Ground
        <4> QED
          BY <2>2, <4>1, <4>2
      <3>3. ctx.emitted = Wanted
        <4>1. Length = ctx.emitted
          BY <1>1, <2>2, <3>2 DEF Length
        <4>2. ~Limited(req)
          BY <2>2 DEF Limited
        <4>3. ctx.emitted \in Nat /\ req.first + ctx.emitted = ctx.emitted
          BY <1>1, <2>2, ContextFields
        <4> QED
          BY <1>1, <4>1, <4>2, <4>3, WantedFacts
      <3>4. Defective => req.md5 /\ ~Last(source).signed
        <4>1. SUFFICES ASSUME Defective PROVE req.md5 /\ ~Last(source).signed
          OBVIOUS
        <4>2. PICK j \in 1 .. Len(source.links) :
                LET m == source.links[j] IN
                  \/ m.declared \notin {0, m.actual}
                  \/ m.shape # First(source).shape
                  \/ req.md5 /\ ~m.signed
          BY <1>1, <4>1 DEF Defective
        <4>3. ~SoundLink(j)
          BY <4>2 DEF SoundLink
        <4>4. j = dec.link
          <5>1. Len(source.links) \in Nat
            BY <1>1, Ground
          <5>2. j \notin 1 .. dec.link - 1
            BY <2>3, <4>3
          <5> QED
            BY <2>2, <3>2, <5>1, <5>2
        <4> QED
          BY <2>2, <2>5, <3>2, <4>2, <4>4 DEF Last
      <3> QED
        BY <1>1, <1>3, <2>1, <3>1, <3>3, <3>4, FinishKeeps
    <2>6. CASE LinkCountAccepted(ctx) /\ dec.state = "eol" /\ req.md5 /\ ~l.signed
      <3>1. /\ pc' = "finish" /\ ok' = FALSE /\ UNCHANGED <<exc, dec>>
            /\ ctx' = [ctx EXCEPT !.link_md5_failed = TRUE]
        BY <1>3, <2>2, <2>6 DEF AfterLink, Decide
      <3>2. Defective
        BY <1>1, <2>2, <2>6 DEF Defective
      <3>3. ctx'.saw_error = ctx.saw_error /\ ctx'.emitted = ctx.emitted
        BY <1>1, <3>1, ContextUpdates DEF SameWindow
      <3>4. Explained
        BY <3>2 DEF Explained
      <3> QED
        BY <1>1, <2>2, <3>1, <3>2, <3>3, <3>4, FinishKeeps
    <2>7. CASE LinkCountAccepted(ctx) /\ dec.state = "eol" /\ ~(req.md5 /\ ~l.signed)
      <3>1. /\ pc' = "process" /\ UNCHANGED <<ctx, exc, ok, call>>
            /\ dec' = [dec EXCEPT !.state = "metadata", !.link = @ + 1]
        BY <1>3, <2>2, <2>7 DEF AfterLink
      <3> DEFINE i == dec.link
                 n == Len(source.links)
      <3>2. i \in 1 .. n /\ i \in Nat /\ i + 1 \in 1 .. n /\ i + 1 \in Nat
        <4>1. i < n /\ n \in Nat /\ i \in 1 .. n
          BY <1>1, <2>2, <2>7, Ground
        <4> HIDE DEF i, n
        <4> QED
          BY <4>1
      <3>3. /\ dec'.state = "metadata" /\ dec'.link = i + 1 /\ dec'.pos = dec.pos
            /\ dec'.corrupt = dec.corrupt
        BY <1>1, <3>1 DEF Decoders
      <3>4. SoundLink(i)
        BY <2>2, <2>7 DEF SoundLink
      <3>5. FaultsAreNoticed' /\ HeardInOrder'
        BY <1>1, <1>3, <2>1, <3>1, <3>3 DEF EngineInv, FaultsAreNoticed, HeardInOrder, Running
      <3>6. Exact'
        <4> DEFINE e == LinkEnd(source)[i]
                   f == LinkEnd(source)[i + 1]
        <4>1. f = Before(i + 1) + source.links[i + 1].actual /\ Before(i + 1) = e /\ e \in Nat
          BY <1>1, <3>2, LinkBounds
        <4>2. source.links[i + 1].actual \in Nat
          BY <1>1, <3>2, Ground
        <4>3. f \in Nat /\ e <= f
          BY <4>1, <4>2
        <4>4. dec.pos = e /\ ctx.emitted = e /\ req.first = 0
          BY <2>2
        <4> HIDE DEF e, f
        <4>5. dec.pos <= f /\ dec.pos = req.first + ctx.emitted
              /\ dec.pos >= req.first + ctx.emitted
          BY <4>1, <4>3, <4>4
        <4> QED
          BY <1>1, <3>1, <3>3, <4>5 DEF Exact, f
      <3>7. ctx.emitted = Before(i + 1)
        BY <1>1, <2>2, <3>2, LinkBounds
      <3>8. PositionKept'
        <4>1. Before(dec.link)' = Before(i + 1)
          BY <1>1, <3>3 DEF Before
        <4> HIDE DEF i
        <4> QED
          BY <1>1, <3>1, <3>3, <3>6, <3>7, <4>1 DEF PositionKept
      <3>9. ChainKept'
        <4>1. ctx.link_count > 0 => ctx.shape = First(source).shape
          BY <1>1, <1>3, <2>1 DEF EngineInv, ChainKept
        <4>2. ASSUME NEW j \in 1 .. (i + 1) - 1 PROVE SoundLink(j)'
          <5>1. j \in Nat /\ (j = i \/ j \in 1 .. i - 1)
            BY <3>2
          <5>2. SoundLink(j)
            BY <2>3, <3>4, <5>1
          <5> QED
            BY <1>1, <5>1, <5>2, Stable
        <4> QED
          BY <1>1, <3>1, <3>3, <4>1, <4>2 DEF ChainKept
      <3>10. OutcomeExplained'
        BY <1>1, <1>3, <3>1, Stable DEF EngineInv, OutcomeExplained
      <3> QED
        BY <3>5, <3>8, <3>9, <3>10 DEF Sound
    <2> QED
      BY <2>2, <2>4, <2>5, <2>6, <2>7
  <1> QED
    BY <1>2, <1>3

(***************************************************************************)
(* libFLAC and its callbacks.                                              *)
(***************************************************************************)

\* What every step of a libFLAC call leaves as it was.
LEMMA LibPlaces ==
  ASSUME ControlInv, pc = "lib"
  PROVE  /\ Running /\ call \in DOMAIN After
         /\ After[call] \in {"metadata_read", "sought", "called"}
         /\ After[call] = "metadata_read" <=> call = "metadata"
         /\ After[call] = "sought" <=> call = "seek"
         /\ After[call] = "called" <=> call \in {"until_end", "until_link", "single"}
         /\ call \in {"until_end", "until_link"} => ~ctx.limited
         /\ dec.link \in Nat /\ ctx.emitted \in Nat /\ ctx.max \in Int /\ dec.pos \in Nat
  <1>1. call \in DOMAIN After
    BY DEF ControlInv, EngineTypeOK, CallFits
  <1>2. call \in {"until_end", "until_link"} => ~ctx.limited
    BY Ground DEF ControlInv, CallFits, WindowKept, Running, Limited
  <1>3. dec.link \in Nat /\ ctx.emitted \in Nat /\ ctx.max \in Int /\ dec.pos \in Nat
    BY DecoderFields, ContextFields DEF ControlInv, EngineTypeOK
  <1> QED
    BY <1>1, <1>2, <1>3, CallReturns DEF Running

\* Once something went wrong, only that it is noticed, and why, is left to keep.
LEMMA WrongKeeps ==
  ASSUME EngineInv, pc = "lib", UNCHANGED <<source, req>>,
         pc' = "lib" \/ pc' = After[call], fault' \/ exc' # "none", fault => fault',
         ctx'.saw_error => fault', dec'.corrupt => fault',
         exc' = "none" => exc = "none" /\ ctx'.saw_error /\ ctx'.emitted = ctx.emitted
                          /\ heard'.count = heard.count,
         exc' # "none" => Explained \/ fault',
         ctx'.link_md5_failed = ctx.link_md5_failed,
         ~heard'.damaged, heard'.next = req.first + heard'.count
  PROVE  Sound'
  <1>1. pc' \in {"lib", "metadata_read", "sought", "called"} /\ Running
    BY LibPlaces DEF EngineInv
  <1>2. FaultsAreNoticed'
    BY <1>1 DEF FaultsAreNoticed
  <1>3. HeardInOrder'
    BY <1>1 DEF EngineInv, HeardInOrder
  <1>4. PositionKept' /\ ChainKept'
    BY DEF PositionKept, ChainKept
  <1>5. Explained \/ fault' => Explained'
    BY StaysExplained DEF Explained
  <1>6. OutcomeExplained'
    BY <1>1, <1>5, Stable DEF EngineInv, OutcomeExplained
  <1> QED
    BY <1>2, <1>3, <1>4, <1>6 DEF Sound

\* Where libFLAC stands when it has a block for the consumer.
LEMMA BlockInOrder ==
  ASSUME EngineInv, Decoding, ~fault, exc = "none"
  PROVE  /\ dec.pos = heard.next /\ dec.pos = req.first + ctx.emitted
         /\ heard.count = ctx.emitted /\ req.first \in Nat
         /\ call # "metadata" /\ ~ctx.complete
  <1>1. ControlInv /\ pc = "lib" /\ dec.state = "sync" /\ Running
    BY DEF EngineInv, Decoding, Running
  <1>2. call # "metadata"
    BY <1>1 DEF ControlInv, CallFits
  <1>3. ~ctx.complete
    BY <1>1, <1>2 DEF EngineInv, PositionKept
  <1>4. dec.pos = req.first + ctx.emitted
    <2>1. req.first \in Nat /\ ctx.emitted \in Nat
      BY <1>1, WantedFacts, LibPlaces
    <2>2. CASE call = "seek"
      BY <1>1, <2>1, <2>2 DEF EngineInv, PositionKept
    <2>3. CASE call # "seek"
      BY <1>1, <1>2, <1>3, <2>3 DEF EngineInv, PositionKept, Exact
    <2> QED
      BY <2>2, <2>3
  <1>5. heard.next = req.first + heard.count /\ heard.count = ctx.emitted
    BY <1>1 DEF EngineInv, HeardInOrder
  <1> QED
    BY <1>1, <1>2, <1>3, <1>4, <1>5, WantedFacts

LEMMA WriteKeeps ==
  ASSUME EngineInv, Decoding, NEW n \in 1 .. MaxBlock, NEW g \in BOOLEAN,
         WriteCallback(dec.pos, n, g), UNCHANGED <<source, req, call, ops>>,
         g \/ fault, ~fault => n <= LinkEnd(source)[dec.link] - dec.pos
  PROVE  Sound'
  <1>1. ControlInv /\ pc = "lib" /\ dec.state = "sync" /\ Running
    BY DEF EngineInv, Decoding, Running
  <1>2. /\ n \in Nat /\ n > 0 /\ Taken(n) \in Nat /\ Taken(n) <= n
        /\ ctx.limited => ctx.emitted + Taken(n) <= ctx.max
    BY <1>1, WriteEffect
  <1>3. ~heard.damaged /\ heard.next = req.first + heard.count
        /\ (exc = "none" => heard.count = ctx.emitted) /\ (ctx.saw_error => fault)
        /\ (dec.corrupt => fault) /\ (exc # "none" => Explained)
        /\ (fault /\ exc = "none" => ctx.saw_error)
    BY <1>1 DEF EngineInv, HeardInOrder, FaultsAreNoticed, OutcomeExplained
  <1>4. CASE /\ exc # "none" \/ ctx.saw_error
             /\ Stopped /\ UNCHANGED <<exc, heard, fault>>
    BY <1>1, <1>3, <1>4, WrongKeeps DEF Stopped
  <1>5. CASE exc = "none" /\ ~ctx.saw_error /\ Told(n, g)
    <2>1. ~fault /\ g
      BY <1>3, <1>5
    <2>2. /\ dec.pos = heard.next /\ dec.pos = req.first + ctx.emitted
          /\ heard.count = ctx.emitted /\ req.first \in Nat
          /\ call # "metadata" /\ ~ctx.complete
      BY <1>5, <2>1, BlockInOrder
    <2>3. /\ ~heard'.damaged /\ heard'.count = heard.count + Taken(n)
          /\ heard'.next = dec.pos + Taken(n)
      BY <1>3, <1>5, <2>1, <2>2 DEF Told
    <2>4. ctx.emitted \in Nat /\ ctx.max \in Int /\ dec.pos \in Nat /\ dec.link \in Nat
      BY <1>1, LibPlaces
    <2>5. heard'.next = req.first + heard'.count
      BY <1>2, <2>2, <2>3, <2>4
    <2>6. CASE Stopped /\ exc' = "user" /\ fault' = TRUE
      BY <1>1, <2>3, <2>5, <2>6, WrongKeeps DEF Stopped
    <2>7. CASE BlockTaken(n)
      <3>1. /\ ~fault' /\ exc' = "none" /\ ~ctx'.saw_error /\ ~dec'.corrupt
            /\ dec'.state = "sync" /\ dec'.link = dec.link
            /\ ctx'.emitted = heard'.count
            /\ ctx'.link_md5_failed = ctx.link_md5_failed
            /\ pc' \in {"lib", "sought", "called"}
            /\ pc' = "lib" <=> call \in {"until_end", "until_link"}
            /\ pc' # "lib" => ok' = TRUE
            /\ pc' = "sought" <=> call = "seek"
            /\ pc' = "called" <=> call = "single"
        BY <1>1, <1>3, <1>5, <2>1, <2>2, <2>3, <2>7, LibPlaces DEF BlockTaken
      <3>2. FaultsAreNoticed' /\ HeardInOrder'
        BY <2>3, <2>5, <3>1 DEF FaultsAreNoticed, HeardInOrder
      <3>3. OutcomeExplained'
        BY <1>1, <3>1, Stable DEF EngineInv, OutcomeExplained
      <3>4. /\ call \in {"until_end", "until_link"} => ~ctx'.complete
            /\ dec'.pos = dec.pos + n /\ ctx'.emitted = ctx.emitted + Taken(n)
            /\ ~ctx'.complete => Taken(n) = n
        <4>1. /\ ctx'.complete <=> ctx.limited /\ ctx.emitted + Taken(n) >= ctx.max
              /\ dec'.pos = dec.pos + n /\ ctx'.emitted = ctx.emitted + Taken(n)
          BY <2>2, <2>7 DEF BlockTaken
        <4>2. Taken(n) # n => ctx.limited /\ Taken(n) = ctx.max - ctx.emitted
          BY DEF Taken
        <4> QED
          BY <1>1, <1>2, <2>4, <4>1, <4>2, LibPlaces
      <3>5. Exact'
        <4> DEFINE p == LinkEnd(source)[dec.link]
        <4>1. p \in Nat /\ n <= p - dec.pos
          BY <1>1, <2>1, WantedFacts
        <4> HIDE DEF p
        <4>2. dec.pos + n <= p /\ dec.pos + n >= req.first + (ctx.emitted + Taken(n))
              /\ (Taken(n) = n => dec.pos + n = req.first + (ctx.emitted + Taken(n)))
          BY <1>2, <2>2, <2>4, <4>1
        <4> QED
          BY <3>1, <3>4, <4>2 DEF Exact, p
      <3>6. PositionKept'
        BY <3>1, <3>4, <3>5 DEF PositionKept
      <3>7. ChainKept'
        <4>1. SameInfo
          BY <2>7 DEF BlockTaken
        <4>2. \A k \in 1 .. dec.link - 1 : k \in Nat
          BY <2>4
        <4>3. Before(dec.link)' = Before(dec.link)
          BY <3>1 DEF Before
        <4> QED
          BY <1>1, <1>5, <2>1, <3>1, <4>1, <4>2, <4>3, Stable DEF EngineInv, ChainKept, SameInfo
      <3> QED
        BY <3>2, <3>3, <3>6, <3>7 DEF Sound
    <2> QED
      BY <1>1, <1>5, <2>6, <2>7, WriteEffect
  <1> QED
    BY <1>1, <1>4, <1>5, WriteEffect

LEMMA StreamInfoKeeps ==
  ASSUME EngineInv, ReadStreamInfo
  PROVE  Sound'
  <1> DEFINE l == source.links[dec.link]
  <1>1. ControlInv /\ pc = "lib" /\ dec.state = "metadata" /\ Running /\ exc = "none"
    BY DEF EngineInv, ReadStreamInfo, Running, ControlInv, QuietPlaces
  <1>2. InfoTaken /\ (FirstInfo \/ LaterInfo)
    BY <1>1, InfoEffect
  <1>3. /\ UNCHANGED <<source, req, call>> /\ ctx'.saw_error = ctx.saw_error
        /\ ctx'.link_md5_failed = ctx.link_md5_failed /\ ctx'.emitted = ctx.emitted
        /\ ctx'.complete = ctx.complete
        /\ dec'.state = "sync" /\ dec'.link = dec.link /\ dec'.pos = dec.pos
        /\ dec'.corrupt = dec.corrupt
        /\ heard'.count = heard.count /\ heard'.next = heard.next /\ heard'.damaged = heard.damaged
        /\ IF call = "metadata" THEN pc' = "metadata_read" /\ ok' = TRUE ELSE pc' = "lib"
    BY <1>1, <1>2, LibPlaces DEF InfoTaken, SameWindow
  <1>4. ~heard.damaged /\ heard.next = req.first + heard.count
        /\ heard.count = ctx.emitted /\ (ctx.saw_error => fault)
        /\ (dec.corrupt => fault) /\ (fault => ctx.saw_error)
    BY <1>1 DEF EngineInv, HeardInOrder, FaultsAreNoticed
  <1>5. pc' = "lib" \/ pc' = After[call]
    BY <1>1, <1>3, LibPlaces
  <1>6. dec.link \in Nat /\ dec.link \in 1 .. Len(source.links)
    BY <1>1, LibPlaces, WantedFacts
  <1>7. CASE fault' /\ exc' = exc /\ fault' = fault
    BY <1>1, <1>3, <1>4, <1>5, <1>7, WrongKeeps
  <1>8. CASE exc' = "user" /\ fault' = TRUE
    BY <1>1, <1>3, <1>4, <1>5, <1>8, WrongKeeps
  <1>9. CASE exc' = "decode" /\ LaterInfo
    <2>1. l.shape # ctx.shape /\ ctx.link_count > 0 /\ fault' = fault
      BY <1>1, <1>9 DEF LaterInfo
    <2>2. req.chained
      BY <1>1, <2>1, ContextFields DEF ControlInv, EngineTypeOK, InfoKept
    <2>3. ~fault => Defective
      BY <1>1, <1>6, <2>1, <2>2 DEF EngineInv, ChainKept, Defective
    <2>4. Explained
      BY <2>3 DEF Explained
    <2> QED
      BY <1>1, <1>3, <1>4, <1>5, <1>9, <2>1, <2>4, WrongKeeps
  <1>10. CASE ~fault' /\ exc' = "none" /\ fault' = fault
    <2>1. FaultsAreNoticed' /\ HeardInOrder'
      BY <1>3, <1>4, <1>10 DEF FaultsAreNoticed, HeardInOrder
    <2>2. OutcomeExplained'
      BY <1>1, <1>3, <1>10, Stable DEF EngineInv, OutcomeExplained
    <2>3. /\ call # "metadata" => ~ctx.complete /\ call # "seek" /\ Exact
          /\ call = "metadata" => ctx.emitted = 0 /\ dec.pos = 0
          /\ ctx.emitted = Before(dec.link)
      BY <1>1, <1>10 DEF EngineInv, PositionKept
    <2>4. PositionKept'
      <3>1. Exact => Exact'
        BY <1>3 DEF Exact
      <3> QED
        BY <1>3, <1>10, <2>3, <3>1 DEF PositionKept
    <2>5. ASSUME req.chained PROVE ChainKept'
      <3>1. ctx'.link_total = l.declared /\ ctx'.link_start = ctx.emitted
        BY <1>2, <2>5 DEF InfoTaken
      <3>2. \A k \in 1 .. dec.link - 1 : SoundLink(k)
        BY <1>1, <1>10, <2>5 DEF EngineInv, ChainKept
      <3>3. Before(dec.link)' = Before(dec.link)
        BY <1>3 DEF Before
      <3>4. \A k \in 1 .. dec.link - 1 : SoundLink(k)'
        <4>1. \A k \in 1 .. dec.link - 1 : k \in Nat
          BY <1>6
        <4> QED
          BY <1>3, <3>2, <4>1, Stable
      <3>5. ctx'.shape = First(source).shape /\ l.shape = First(source).shape
        <4>1. CASE FirstInfo
          <5>1. dec.link = 1
            BY <1>1, <1>6, <4>1 DEF FirstInfo, ControlInv, InfoKept
          <5> QED
            BY <4>1, <5>1 DEF FirstInfo, First
        <4>2. CASE LaterInfo
          BY <1>1, <1>10, <2>5, <4>2 DEF LaterInfo, EngineInv, ChainKept
        <4> QED
          BY <1>2, <4>1, <4>2
      <3> QED
        BY <1>3, <2>3, <3>1, <3>3, <3>4, <3>5 DEF ChainKept
    <2>6. ~req.chained => ChainKept'
      BY <1>3 DEF ChainKept
    <2> QED
      BY <2>1, <2>2, <2>4, <2>5, <2>6 DEF Sound
  <1>11. fault \in BOOLEAN
    BY <1>1 DEF ControlInv, EngineTypeOK
  <1> QED
    BY <1>1, <1>2, <1>7, <1>8, <1>9, <1>10, <1>11 DEF FirstInfo, LaterInfo

\* The end of a link leaves libFLAC at its last frame; a seek there fails.
LEMMA EndKeeps ==
  ASSUME EngineInv, EndOfLink
  PROVE  Sound'
  <1>1. /\ ControlInv /\ pc = "lib" /\ dec.state = "sync" /\ Running
        /\ dec.pos >= LinkEnd(source)[dec.link]
        /\ DecoderTo(IF call = "seek" THEN "seek_error"
                     ELSE IF dec.link < Len(source.links) THEN "eol" ELSE "eos")
        /\ pc' = After[call] /\ ok' = (call # "seek")
        /\ UNCHANGED <<source, req, ctx, exc, call, heard, ops, fault>>
    BY EndEffect DEF EngineInv, Running
  <1>2. ~heard.damaged /\ heard.next = req.first + heard.count
        /\ (exc = "none" => heard.count = ctx.emitted) /\ (ctx.saw_error => fault)
        /\ (dec.corrupt => fault) /\ (exc # "none" => Explained)
        /\ (fault /\ exc = "none" => ctx.saw_error)
    BY <1>1 DEF EngineInv, HeardInOrder, FaultsAreNoticed, OutcomeExplained
  <1>3. CASE fault \/ exc # "none"
    BY <1>1, <1>2, <1>3, WrongKeeps DEF DecoderTo
  <1>4. CASE ~fault /\ exc = "none"
    <2>1. pc' = (IF call = "seek" THEN "sought" ELSE "called") /\ call # "metadata"
      BY <1>1, LibPlaces DEF ControlInv, CallFits
    <2>2. ~ctx.complete /\ (call = "seek" => dec.pos = req.first) /\ (call # "seek" => Exact)
      BY <1>1, <1>4, <2>1 DEF EngineInv, PositionKept
    <2>3. FaultsAreNoticed' /\ HeardInOrder'
      BY <1>1, <1>2, <1>4 DEF FaultsAreNoticed, HeardInOrder, DecoderTo
    <2>4. OutcomeExplained'
      BY <1>1, <1>4, <2>1, Stable DEF EngineInv, OutcomeExplained
    <2>5. call = "seek" => req.first >= First(source).actual
      <3>1. call = "seek" => dec.link = 1
        BY <1>1, PartsAreNotDefective DEF ControlInv, CallFits
      <3> QED
        BY <1>1, <2>2, <3>1, Ground
    <2>6. call # "seek" => Exact' /\ dec.pos = LinkEnd(source)[dec.link]
      <3>1. dec.pos \in Nat /\ LinkEnd(source)[dec.link] \in Nat
        BY <1>1, LibPlaces, WantedFacts
      <3> QED
        BY <1>1, <2>2, <3>1 DEF Exact, DecoderTo
    <2>7. PositionKept'
      BY <1>1, <2>1, <2>2, <2>5, <2>6 DEF PositionKept, DecoderTo
    <2>8. ChainKept'
      <3>1. \A k \in 1 .. dec.link - 1 : k \in Nat
        BY <1>1, LibPlaces
      <3>2. Before(dec.link)' = Before(dec.link)
        BY <1>1 DEF Before, DecoderTo
      <3> QED
        BY <1>1, <1>4, <3>1, <3>2, Stable DEF EngineInv, ChainKept, DecoderTo
    <2> QED
      BY <2>3, <2>4, <2>7, <2>8 DEF Sound
  <1> QED
    BY <1>3, <1>4

LEMMA LibKeeps ==
  ASSUME EngineInv, LibFLAC, ~FileReadErrors
  PROVE  Sound'
  <1>1. ControlInv
    BY DEF EngineInv
  <1>2. ASSUME pc = "lib"
        PROVE  /\ Running /\ ~heard.damaged /\ heard.next = req.first + heard.count
               /\ (exc = "none" => heard.count = ctx.emitted) /\ (ctx.saw_error => fault)
               /\ (dec.corrupt => fault) /\ (exc # "none" => Explained)
               /\ (fault /\ exc = "none" => ctx.saw_error)
    BY <1>2 DEF EngineInv, HeardInOrder, FaultsAreNoticed, OutcomeExplained, Running
  <1>3. ASSUME NEW n \in 1 .. MaxBlock, DecodeFrame(n) PROVE Sound'
    BY <1>3, WriteKeeps DEF DecodeFrame
  <1>4. ASSUME NEW n \in 1 .. MaxBlock, InsertSilence(n) PROVE Sound'
    <2>1. Decoding /\ fault
      BY <1>2, <1>4 DEF InsertSilence, Decoding
    <2> QED
      BY <1>4, <2>1, WriteKeeps DEF InsertSilence
  <1>5. CASE ReportError
    BY <1>1, <1>2, <1>5, ErrorEffect, WrongKeeps DEF SameWindow
  <1>6. CASE ReadAborts
    BY <1>1, <1>2, <1>6, AbortEffect, WrongKeeps DEF DecoderTo
  <1>7. CASE DropFrame
    <2>1. /\ pc = "lib" /\ dec.corrupt /\ pc' = After[call]
          /\ UNCHANGED <<source, req, ctx, dec, exc, heard, fault>>
      BY <1>7 DEF DropFrame, Decoding, LibReturns
    <2> QED
      BY <1>1, <1>2, <2>1, WrongKeeps
  <1>8. CASE LibRefuses
    <2>1. /\ pc = "lib" /\ dec.state \in {"seek_error", "eos", "aborted"} /\ pc' = After[call]
          /\ UNCHANGED <<source, req, ctx, dec, exc, heard, fault>>
      BY <1>8 DEF LibRefuses, LibReturns
    <2>2. fault \/ exc # "none"
      BY <2>1 DEF EngineInv, PositionKept
    <2> QED
      BY <1>1, <1>2, <2>1, <2>2, WrongKeeps
  <1> QED
    BY <1>3, <1>4, <1>5, <1>6, <1>7, <1>8, StreamInfoKeeps, EndKeeps DEF LibFLAC

(***************************************************************************)
(* The beginning of an operation, and the theorems.                        *)
(***************************************************************************)

\* An operation begins with nothing left of a fault.
LEMMA BeginKeeps ==
  ASSUME EngineInv, Begin
  PROVE  Sound'
  <1>1. PICK r \in Requests(source) :
          \/ RejectRequest(r) \/ InitFails(r) \/ BeginOneShot(r)
          \/ BeginSessionFrom(r) \/ BeginSessionRange(r)
    BY DEF Begin
  <1>2. ControlInv /\ BeginOp(r) /\ UNCHANGED source /\ ctx \in Contexts /\ dec \in Decoders
    BY <1>1 DEF EngineInv, ControlInv, EngineTypeOK, RejectRequest, InitFails, BeginOneShot,
       BeginSessionFrom, BeginSessionRange
  <1>3. /\ r.first \in Int /\ r.max \in Int
        /\ r.kind = "full" => r.first = 0 /\ r.max = 0 /\ ~source.reusable
        /\ r.kind = "from" => r.max = 0
        /\ r.chained => r.kind = "full"
        /\ req' = r /\ heard'.count = 0 /\ heard'.next = r.first /\ ~heard'.damaged
        /\ exc = "none" /\ ~Running /\ (~source.reusable => pc = "idle")
        /\ dec.link = 1 /\ ctx.link_count = 0 /\ dec.state # "metadata"
        /\ pc = "idle" => dec.pos = 0
        /\ ValidRequest(r) => r.first \in Nat
    BY <1>2, BeginEffect
  <1>4. ~fault /\ ~dec.corrupt
    BY <1>3 DEF EngineInv, FaultsAreNoticed, Running
  <1>5. ~ctx.link_md5_failed
    BY <1>3 DEF EngineInv, OutcomeExplained
  <1>6. heard'.next = req'.first + heard'.count
    BY <1>3
  <1>7. CASE RejectRequest(r) \/ InitFails(r)
    <2>1. /\ exc' # "none" /\ pc' = "returned" /\ (~ValidRequest(r) \/ fault')
          /\ UNCHANGED <<ctx, dec>>
      BY <1>7 DEF RejectRequest, InitFails
    <2>2. Explained'
      <3>1. ValidRequest(req)' <=> ValidRequest(r)
        BY <1>3 DEF ValidRequest, Limited
      <3> QED
        BY <2>1, <3>1 DEF Explained
    <2>3. FaultsAreNoticed' /\ HeardInOrder'
      BY <1>3, <1>4, <1>6, <2>1 DEF FaultsAreNoticed, HeardInOrder, Running
    <2>4. PositionKept' /\ ChainKept'
      BY <2>1 DEF PositionKept, ChainKept
    <2>5. OutcomeExplained'
      BY <1>5, <2>1, <2>2 DEF OutcomeExplained
    <2> QED
      BY <2>3, <2>4, <2>5 DEF Sound
  <1>8. CASE BeginOneShot(r)
    <2>1. /\ ValidRequest(r) /\ pc = "idle" /\ dec' = [dec EXCEPT !.state = "metadata"]
          /\ IF r.kind = "full" THEN pc' = "process" ELSE pc' = "lib" /\ call' = "metadata"
          /\ UNCHANGED <<exc, fault>>
      BY <1>3, <1>8 DEF BeginOneShot, EnterLib
    <2>2. NewWindow(r)
      BY <1>2, <1>3, <1>8, Configures DEF BeginOneShot
    <2>3. dec'.state = "metadata" /\ dec'.link = 1 /\ dec'.pos = 0 /\ ~dec'.corrupt
      BY <1>2, <1>3, <1>4, <2>1, DecoderMoves DEF DecoderStates, DecoderTo
    <2>4. ctx'.emitted = 0 /\ ~ctx'.saw_error /\ ctx'.link_count = 0 /\ ~ctx'.link_md5_failed
      BY <1>3, <1>5, <2>2 DEF NewWindow, SameInfo
    <2>5. FaultsAreNoticed' /\ HeardInOrder'
      BY <1>3, <1>4, <1>6, <2>1, <2>3, <2>4 DEF FaultsAreNoticed, HeardInOrder
    <2>6. 0 <= LinkEnd(source)[1]
      BY <1>2, Ground
    <2>7. r.kind = "full" => Exact'
      <3>1. r.kind = "full" => 0 = r.first + 0 /\ 0 >= r.first + 0
        BY <1>3
      <3> QED
        BY <1>2, <1>3, <2>3, <2>4, <2>6, <3>1 DEF Exact
    <2>8. PositionKept'
      BY <1>3, <2>1, <2>3, <2>4, <2>7 DEF PositionKept, Before
    <2>9. ChainKept'
      BY <2>3, <2>4 DEF ChainKept
    <2>10. OutcomeExplained'
      BY <1>3, <2>1, <2>4 DEF OutcomeExplained
    <2> QED
      BY <2>5, <2>8, <2>9, <2>10 DEF Sound
  <1>9. CASE BeginSessionFrom(r) \/ BeginSessionRange(r)
    <2>1. /\ ValidRequest(r) /\ source.reusable /\ r.kind # "full" /\ UNCHANGED <<exc, fault>>
          /\ Len(source.links) = 1 /\ ~r.chained
      BY <1>2, <1>3, <1>9, Ground DEF BeginSessionFrom, BeginSessionRange
    <2>2. NewWindow(r)
      <3>1. CASE BeginSessionFrom(r)
        BY <1>2, <1>3, <3>1, ConfiguresFrom DEF BeginSessionFrom
      <3>2. CASE BeginSessionRange(r)
        BY <1>2, <1>3, <3>2, Configures DEF BeginSessionRange
      <3> QED
        BY <1>9, <3>1, <3>2
    <2>3. /\ ctx'.emitted = 0 /\ ~ctx'.saw_error /\ ~ctx'.link_md5_failed
          /\ ctx'.first = r.first
          /\ ctx'.complete <=> Limited(r) /\ r.max = 0
      BY <1>5, <2>2 DEF NewWindow
    <2>4. HeardInOrder'
      BY <1>3, <1>6, <2>3 DEF HeardInOrder
    <2>5. CASE Seek(r.first) /\ ~ctx'.complete
      <3>1. Sought(r.first)
        BY <1>2, <1>3, <2>1, <2>5, SeekEffect
      <3> QED
        BY <1>2, <1>3, <1>4, <2>1, <2>3, <2>4, <2>5, <3>1, SeekKeeps
    <2>6. CASE /\ pc' = "ranged" /\ UNCHANGED <<dec, call, ok>>
               /\ \/ ctx'.complete
                  \/ StartsAfterStream(ctx', r) \/ StartsAtStreamEnd(ctx', r)
      <3>1. FaultsAreNoticed'
        BY <1>4, <2>1, <2>3, <2>6 DEF FaultsAreNoticed
      <3>2. ctx'.complete \/ (KnownTotal(ctx') /\ r.first >= ctx'.total)
        <4>1. ctx'.total \in Nat
          BY <2>2, ContextFields DEF NewWindow
        <4> QED
          BY <1>3, <2>6, <4>1 DEF StartsAfterStream, StartsAtStreamEnd
      <3>3. KnownTotal(ctx)' <=> KnownTotal(ctx')
        BY DEF KnownTotal
      <3>4. PositionKept'
        BY <1>3, <2>3, <2>6, <3>2, <3>3 DEF PositionKept
      <3>5. ChainKept' /\ OutcomeExplained'
        BY <1>3, <2>1, <2>3, <2>6 DEF ChainKept, OutcomeExplained
      <3> QED
        BY <2>4, <3>1, <3>4, <3>5 DEF Sound
    <2>7. CASE BeginSessionFrom(r)
      BY <2>3, <2>5, <2>7 DEF BeginSessionFrom, Limited
    <2>8. CASE BeginSessionRange(r)
      BY <2>5, <2>6, <2>8 DEF BeginSessionRange
    <2> QED
      BY <1>9, <2>7, <2>8
  <1> QED
    BY <1>1, <1>7, <1>8, <1>9

LEMMA EngineInit ==
  ASSUME Init
  PROVE  EngineInv
  <1>1. ControlInv
    BY ControlInit
  <1>2. pc = "idle" /\ exc = "none" /\ ~fault /\ heard = Quiet /\ req.first = 0
    BY DEF Init
  <1>3. ~ctx.saw_error /\ ~ctx.link_md5_failed
    BY DEF Init, FreshContext
  <1>4. ~dec.corrupt /\ dec.state # "metadata"
    BY DEF Init
  <1>5. FaultsAreNoticed /\ HeardInOrder
    BY <1>2, <1>3, <1>4 DEF FaultsAreNoticed, HeardInOrder, Running, Quiet
  <1>6. PositionKept /\ ChainKept /\ OutcomeExplained
    BY <1>2, <1>3, <1>4 DEF PositionKept, ChainKept, OutcomeExplained
  <1> QED
    BY <1>1, <1>5, <1>6 DEF EngineInv

LEMMA EngineNext ==
  ASSUME EngineInv, [Next]_vars, ~FileReadErrors
  PROVE  EngineInv'
  <1>1. ControlInv'
    BY ControlNext DEF EngineInv
  <1>2. Sound'
    <2>1. CASE Begin
      BY <2>1, BeginKeeps
    <2>2. CASE LibFLAC
      BY <2>2, LibKeeps
    <2>3. CASE Entry
      BY <2>3, SettleKeeps, MetadataKeeps, AfterSeekKeeps, ProcessKeeps, UntilEndKeeps, LinkKeeps,
         SingleKeeps, FinishReturns DEF Entry
    <2>4. CASE UNCHANGED vars
      <3>1. Defective' = Defective /\ Wanted' = Wanted /\ Explained' = Explained /\ Exact' = Exact
        BY <2>4 DEF vars, Defective, Truncated, Wanted, Length, Explained, ValidRequest, Limited, Exact
      <3>2. FaultsAreNoticed' /\ HeardInOrder'
        BY <2>4 DEF vars, EngineInv, FaultsAreNoticed, HeardInOrder, Running
      <3>3. PositionKept'
        BY <2>4, <3>1 DEF vars, EngineInv, PositionKept, Before, KnownTotal
      <3>4. ChainKept'
        BY <2>4 DEF vars, EngineInv, ChainKept, SoundLink, Before
      <3>5. OutcomeExplained'
        BY <2>4, <3>1 DEF vars, EngineInv, OutcomeExplained
      <3> QED
        BY <3>2, <3>3, <3>4, <3>5 DEF Sound
    <2> QED
      BY <2>1, <2>2, <2>3, <2>4 DEF Next, Idle
  <1> QED
    BY <1>1, <1>2 DEF EngineInv, Sound

\* Where libFLAC stands, what the consumer has heard and what is pending agree in
\* every state of every operation, when the transport's failures reach Java.
THEOREM EngineInvariantHolds ==
  ASSUME ~FileReadErrors
  PROVE  Spec => []EngineInv
  <1>1. Init => EngineInv
    BY EngineInit
  <1>2. EngineInv /\ [Next]_vars => EngineInv'
    BY EngineNext
  <1> QED
    BY <1>1, <1>2, PTL DEF Spec

\* No fault is silent and none is invented: an operation throws exactly when
\* libFLAC reported an error, the transport or the consumer threw, a whole-stream
\* decode met defective bytes, or the range it asked for is not there.
THEOREM FaultsAreThrown ==
  ASSUME ~FileReadErrors
  PROVE  Spec => []FaultsDecideTheOutcome
  <1>1. EngineInv => FaultsDecideTheOutcome
    BY DEF EngineInv, FaultsAreNoticed, OutcomeExplained, Explained, FaultsDecideTheOutcome
  <1> QED
    BY <1>1, EngineInvariantHolds, PTL

(***************************************************************************)
(* The engine implements DecodeContract.                                   *)
(***************************************************************************)

\* What the mapping gives for a state.
Promise == IF pc = "idle" THEN 0 ELSE Wanted
Received == IF heard.damaged THEN -1 ELSE heard.count

\* The frames an operation can promise are bounded by the stream's.
PromiseBounded == pc # "idle" => Wanted \in -1 .. MaxLength

LEMMA PromisesAreBounded == ControlInv => PromiseBounded
  <1> SUFFICES ASSUME ControlInv, pc # "idle" PROVE Wanted \in -1 .. MaxLength
    BY DEF PromiseBounded
  <1> DEFINE d == source.links[1].declared
             n == Len(source.links)
             e == LinkEnd(source)
  <1>1. source \in Sources /\ MaxLength \in Nat
    BY EngineAssumption DEF ControlInv, EngineTypeOK
  <1>2. Length \in 0 .. MaxLength
    <2>1. Length = IF ~req.chained /\ d > 0 THEN d ELSE e[n]
      BY DEF Length, First
    <2>2. n \in Nat \ {0} /\ (n # 1 => req.chained)
      BY Ground
    <2>3. e[n] \in Nat /\ e[n] <= MaxLength
      <3>1. n \in 1 .. n
        BY <2>2
      <3> QED
        BY <3>1, Ground
    <2>4. n = 1 => d \in Nat /\ d <= MaxLength
      BY <1>1, <2>2, LinkTypes
    <2> HIDE DEF d, n, e
    <2> QED
      BY <1>1, <2>1, <2>2, <2>3, <2>4
  <1>3. req.first \in Int /\ req.max \in Int
    BY Ground
  <1> QED
    BY <1>1, <1>2, <1>3 DEF Wanted, ValidRequest

\* A block handed to the consumer is at least a frame, and inside the request.
LEMMA BlockIsWanted ==
  ASSUME EngineInv, Decoding, ~fault, exc = "none", NEW n \in 1 .. MaxBlock,
         n <= LinkEnd(source)[dec.link] - dec.pos
  PROVE  /\ Taken(n) \in Nat /\ Taken(n) > 0 /\ heard.count \in Nat
         /\ heard.count + Taken(n) <= Wanted
  <1> DEFINE p == LinkEnd(source)[dec.link]
  <1>1. ControlInv /\ pc = "lib" /\ Running
    BY DEF EngineInv, Decoding, Running
  <1>2. /\ dec.pos = req.first + ctx.emitted /\ heard.count = ctx.emitted
        /\ req.first \in Nat /\ ~ctx.complete
    BY BlockInOrder
  <1>3. ctx.emitted \in Nat /\ ctx.max \in Int /\ dec.pos \in Nat
    BY <1>1, LibPlaces
  <1>4. /\ ctx.limited = Limited(req) /\ ctx.max = req.max
        /\ ctx.limited => ctx.emitted < ctx.max
    BY <1>1, <1>2, <1>3 DEF ControlInv, WindowKept
  <1>5. n \in Nat /\ n > 0
    BY EngineAssumption
  <1>6. /\ Taken(n) \in Nat /\ Taken(n) > 0 /\ Taken(n) <= n
        /\ ctx.limited => ctx.emitted + Taken(n) <= ctx.max
    BY <1>3, <1>4, <1>5 DEF Taken
  <1>7. p \in Nat /\ Length \in Nat /\ p <= Length /\ n <= p - dec.pos
    BY <1>1, WantedFacts
  <1> HIDE DEF p
  <1>8. req.first + (ctx.emitted + Taken(n)) <= Length /\ ctx.emitted + Taken(n) \in Nat
    BY <1>2, <1>3, <1>5, <1>6, <1>7
  <1>9. ctx.emitted + Taken(n) <= Wanted
    BY <1>1, <1>4, <1>6, <1>8, WantedFacts
  <1> QED
    BY <1>2, <1>3, <1>6, <1>9

LEMMA LibDelivers ==
  ASSUME EngineInv, EngineInv', LibFLAC
  PROVE  /\ Running /\ Running' /\ Wanted' = Wanted
         /\ \/ heard'.count = heard.count
            \/ heard'.count \in (heard.count + 1) .. Wanted
  <1>1. pc = "lib" /\ UNCHANGED <<source, req>>
    BY DEF LibFLAC, ReadStreamInfo, DecodeFrame, InsertSilence, Decoding, ReportError, DropFrame,
       ReadAborts, EndOfLink, LibRefuses
  <1>2. ControlInv /\ Running
    BY <1>1 DEF EngineInv, Running
  <1>3. pc' = "lib" \/ pc' = After[call]
    BY <1>1 DEF LibFLAC, ReadStreamInfo, DecodeFrame, InsertSilence, WriteCallback, ReportError,
       DropFrame, ReadAborts, EndOfLink, LibRefuses, LibReturns, LibContinues
  <1>4. Running' /\ Wanted' = Wanted
    BY <1>1, <1>2, <1>3, LibPlaces, Stable DEF Running
  <1>5. heard'.count = heard.count \/ heard'.count \in (heard.count + 1) .. Wanted
    <2>1. CASE ReadStreamInfo
      BY <1>2, <2>1, InfoEffect DEF InfoTaken
    <2>2. ASSUME NEW n \in 1 .. MaxBlock, DecodeFrame(n)
          PROVE  heard'.count = heard.count \/ heard'.count \in (heard.count + 1) .. Wanted
      <3>1. Decoding /\ WriteCallback(dec.pos, n, TRUE) /\ n <= LinkEnd(source)[dec.link] - dec.pos
        BY <2>2 DEF DecodeFrame
      <3>2. \/ heard' = heard
            \/ exc = "none" /\ ~ctx.saw_error /\ heard'.count = heard.count + Taken(n)
        BY <1>2, <3>1, WriteEffect DEF Told
      <3>3. CASE exc = "none" /\ ~ctx.saw_error /\ heard'.count = heard.count + Taken(n)
        <4>1. ~fault
          BY <1>2, <3>3, NothingWrong
        <4>2. /\ Taken(n) \in Nat /\ Taken(n) > 0 /\ heard.count \in Nat
              /\ heard.count + Taken(n) <= Wanted
          BY <3>1, <3>3, <4>1, BlockIsWanted
        <4>3. Wanted \in Int
          BY <1>1, <1>2, PromisesAreBounded, EngineAssumption DEF PromiseBounded
        <4> QED
          BY <3>3, <4>2, <4>3
      <3> QED
        BY <3>2, <3>3
    <2>3. ASSUME NEW n \in 1 .. MaxBlock, InsertSilence(n)
          PROVE  heard'.count = heard.count
      <3>1. Decoding /\ dec.corrupt /\ WriteCallback(dec.pos, n, FALSE)
        BY <2>3 DEF InsertSilence
      <3>2. exc # "none" \/ ctx.saw_error
        BY <3>1 DEF EngineInv, FaultsAreNoticed
      <3> QED
        BY <1>2, <3>1, <3>2, WriteEffect
    <2>4. CASE ReportError \/ DropFrame \/ ReadAborts \/ EndOfLink \/ LibRefuses
      BY <2>4 DEF ReportError, DropFrame, ReadAborts, EndOfLink, LibRefuses
    <2> QED
      BY <2>1, <2>2, <2>3, <2>4 DEF LibFLAC
  <1> QED
    BY <1>2, <1>4, <1>5

\* An empty range, or one that starts at the end, stands for no frames.
LEMMA NothingToDecode ==
  ASSUME ControlInv, Running, req.kind # "full", ctx.saw_stream_info, ctx.emitted = 0,
         ~StartsAfterStream(ctx, req), ctx.complete \/ StartsAtStreamEnd(ctx, req)
  PROVE  Wanted = 0
  <1> DEFINE d == First(source).declared
  <1>1. /\ ctx.total = d /\ d \in Nat /\ req.first \in Nat
        /\ Length = IF d > 0 THEN d ELSE LinkEnd(source)[Len(source.links)]
    BY PastTheEnd, PartsAreNotDefective DEF Running, Length
  <1>2. d = 0 \/ req.first <= d
    BY <1>1 DEF StartsAfterStream, KnownTotal
  <1>3. /\ ValidRequest(req) /\ req.max \in Int /\ (Limited(req) => req.max >= 0)
        /\ ctx.complete => Limited(req) /\ req.max <= 0
    BY Ground DEF ControlInv, WindowKept, ValidRequest
  <1>4. CASE ctx.complete
    <2>1. Limited(req) /\ req.max = 0
      BY <1>3, <1>4
    <2>2. d = 0 \/ req.first <= Length
      BY <1>1, <1>2
    <2> QED
      BY <1>3, <2>1, <2>2 DEF Wanted
  <1>5. CASE StartsAtStreamEnd(ctx, req)
    <2>1. req.first = Length
      BY <1>1, <1>5 DEF StartsAtStreamEnd, KnownTotal
    <2>2. req.first + 0 = Length /\ req.first + 0 <= Length /\ 0 \in Nat
      BY <1>1, <2>1
    <2> QED
      BY <1>3, <2>2, WantedFacts
  <1> QED
    BY <1>4, <1>5

\* onComplete comes after the last frame of the request.
LEMMA CompleteIsWhole ==
  ASSUME EngineInv, Entry, pc' = "returned", exc' = "none"
  PROVE  heard.count = Wanted
  <1>1. ControlInv /\ exc = "none"
    BY PendingStays DEF EngineInv, ControlInv, Next
  <1>2. ASSUME Running PROVE heard.count = ctx.emitted
    BY <1>1, <1>2 DEF EngineInv, HeardInOrder
  <1>3. CASE SettleSessionRange
    <2>1. pc = "ranged" /\ Running /\ ~StartsAfterStream(ctx, req)
      BY <1>3 DEF SettleSessionRange, Return, Running
    <2>2. ~fault
      BY <1>1, <2>1 DEF EngineInv, FaultsAreNoticed
    <2>3. req.kind # "full" /\ ctx.saw_stream_info
      BY <1>1, <2>1 DEF ControlInv, CallFits, Limited, InfoKept
    <2>4. ctx.emitted = 0 /\ (ctx.complete \/ (KnownTotal(ctx) /\ req.first >= ctx.total))
      BY <1>1, <2>1, <2>2 DEF EngineInv, PositionKept
    <2>5. ctx.complete \/ StartsAtStreamEnd(ctx, req)
      BY <1>1, <2>1, <2>3, <2>4, PastTheEnd DEF StartsAfterStream, StartsAtStreamEnd
    <2> QED
      BY <1>1, <1>2, <2>1, <2>3, <2>4, <2>5, NothingToDecode
  <1>4. CASE AfterMetadata
    <2>1. /\ pc = "metadata_read" /\ Running /\ ok /\ ~ctx.saw_error
          /\ ~StartsAfterStream(ctx, req)
          /\ ctx.complete \/ StartsAtStreamEnd(ctx, req)
      BY <1>1, <1>4 DEF AfterMetadata, Return, Running, Seek, EnterLib
    <2>2. ~fault
      BY <1>1, <2>1, NothingWrong
    <2>3. req.kind # "full" /\ ctx.saw_stream_info
      BY <1>1, <2>1 DEF ControlInv, CallFits
    <2>4. ctx.emitted = 0
      BY <1>1, <2>1, <2>2 DEF EngineInv, PositionKept
    <2> QED
      BY <1>1, <1>2, <2>1, <2>3, <2>4, NothingToDecode
  <1>5. CASE Finish
    <2>1. pc = "finish" /\ Running /\ ok
      BY <1>1, <1>5 DEF Finish, Return, Running
    <2> QED
      BY <1>1, <1>2, <2>1 DEF EngineInv, OutcomeExplained
  <1>6. CASE AfterSeek \/ Process \/ AfterUntilEnd \/ AfterLink \/ AfterSingle
    BY <1>1, <1>6 DEF AfterSeek, Process, AfterUntilEnd, AfterLink, AfterSingle, Return, Decide,
       AtPhysicalEnd, EnterLib
  <1> QED
    BY <1>3, <1>4, <1>5, <1>6 DEF Entry

LEMMA EntryAnswers ==
  ASSUME EngineInv, Entry
  PROVE  /\ Running /\ (Running' \/ pc' = "returned") /\ Wanted' = Wanted
         /\ heard'.count = heard.count
  <1>1. Running /\ UNCHANGED <<source, req>>
    BY DEF Entry, SettleSessionRange, AfterMetadata, AfterSeek, Process, AfterUntilEnd, AfterLink,
       AfterSingle, Finish, Running
  <1>2. pc' \in {"returned", "process", "sought", "lib", "finish"}
    BY DEF Entry, SettleSessionRange, AfterMetadata, AfterSeek, Process, AfterUntilEnd, AfterLink,
       AfterSingle, Finish, Return, Completes, Seek, EnterLib, Decide, AtPhysicalEnd
  <1>3. heard' = heard \/ Completes
    BY DEF Entry, SettleSessionRange, AfterMetadata, AfterSeek, Process, AfterUntilEnd, AfterLink,
       AfterSingle, Finish
  <1>4. heard'.count = heard.count
    BY <1>3, CompletesEffect DEF EngineInv
  <1> QED
    BY <1>1, <1>2, <1>4, Stable DEF Running

LEMMA BeginPromises ==
  ASSUME EngineInv, Begin
  PROVE  /\ pc = "idle" \/ (pc = "returned" /\ exc = "none")
         /\ Running' \/ (pc' = "returned" /\ exc' # "none")
         /\ heard'.count = 0
  <1>1. PICK r \in Requests(source) :
          \/ RejectRequest(r) \/ InitFails(r) \/ BeginOneShot(r)
          \/ BeginSessionFrom(r) \/ BeginSessionRange(r)
    BY DEF Begin
  <1>2. ControlInv /\ BeginOp(r)
    BY <1>1 DEF EngineInv, RejectRequest, InitFails, BeginOneShot, BeginSessionFrom,
       BeginSessionRange
  <1>3. pc = "idle" \/ (pc = "returned" /\ exc = "none")
    BY <1>2 DEF BeginOp, MayBegin
  <1>4. heard'.count = 0
    BY <1>2, BeginEffect
  <1>5. Running' \/ (pc' = "returned" /\ exc' # "none")
    BY <1>1 DEF RejectRequest, InitFails, BeginOneShot, BeginSessionFrom, BeginSessionRange, Seek,
       EnterLib, Running
  <1> QED
    BY <1>3, <1>4, <1>5

\* Every step of the engine is a step of the contract, or is invisible to it.
LEMMA ContractStep ==
  ASSUME EngineInv, EngineInv', PromiseBounded, PromiseBounded', [Next]_vars
  PROVE  [Contract!Next]_(Contract!vars)
  <1>1. Received = heard.count /\ Received' = heard'.count
    BY DEF Received, EngineInv, HeardInOrder
  <1>2. /\ Running => Outcome = "running" /\ Promise = Wanted
        /\ pc = "idle" => Outcome = "idle"
        /\ pc = "returned" /\ exc = "none" => Outcome = "complete"
    BY DEF Outcome, Promise, Running
  <1>3. /\ Running' => Outcome' = "running" /\ Promise' = Wanted'
        /\ pc' = "returned" => Promise' = Wanted'
        /\ pc' = "returned" /\ exc' = "none" => Outcome' = "complete"
        /\ pc' = "returned" /\ exc' # "none" => Outcome' = "thrown"
    BY DEF Outcome, Promise, Running
  <1> DEFINE CVars == <<Promise, Received, Outcome>>
  <1>4. CVars' = CVars => Contract!vars' = Contract!vars
    BY DEF Contract!vars, Promise, Received
  <1>5. CASE Begin
    <2>1. Outcome \in {"idle", "complete"} /\ Received' = 0
          /\ Outcome' \in {"running", "thrown"} /\ Promise' \in -1 .. MaxLength
      BY <1>1, <1>2, <1>3, <1>5, BeginPromises DEF PromiseBounded, Running
    <2> QED
      BY <2>1 DEF Contract!Next, Contract!Begin, Contract!Refuse, Promise, Received
  <1>6. CASE LibFLAC
    <2>1. /\ Outcome = "running" /\ Outcome' = "running" /\ Promise' = Promise
          /\ Received' = Received \/ Received' \in (Received + 1) .. Promise
      BY <1>1, <1>2, <1>3, <1>6, LibDelivers
    <2> QED
      BY <1>4, <2>1 DEF Contract!Next, Contract!Deliver, Promise, Received
  <1>7. CASE Entry
    <2>1. Outcome = "running" /\ Promise' = Promise /\ Received' = Received
          /\ (Running' \/ pc' = "returned")
      BY <1>1, <1>2, <1>3, <1>7, EntryAnswers
    <2>2. CASE Running'
      BY <1>3, <1>4, <2>1, <2>2
    <2>3. CASE pc' = "returned" /\ exc' = "none"
      <3>1. Received = Promise /\ Outcome' = "complete"
        BY <1>1, <1>2, <1>3, <1>7, <2>3, CompleteIsWhole, EntryAnswers
      <3> QED
        BY <2>1, <3>1 DEF Contract!Next, Contract!Complete, Promise, Received
    <2>4. CASE pc' = "returned" /\ exc' # "none"
      BY <1>3, <2>1, <2>4 DEF Contract!Next, Contract!Throw, Promise, Received
    <2> QED
      BY <2>1, <2>2, <2>3, <2>4
  <1>8. CASE UNCHANGED vars
    <2>1. CVars' = CVars
      BY <1>8 DEF vars, Promise, Received, Outcome, Wanted, Length
    <2> QED
      BY <1>4, <2>1
  <1> QED
    BY <1>5, <1>6, <1>7, <1>8 DEF Next, Idle

\* Every decode operation, over any source and with any interleaving of errors,
\* aborts and throwing consumers, hands over the samples of its request in order,
\* each once and none invented, and calls onComplete only after the last.
THEOREM EngineImplementsContract ==
  ASSUME ~FileReadErrors
  PROVE  Spec => ImplementsContract
  <1>1. Init => Contract!Init
    BY DEF Init, Quiet, Outcome, Contract!Init
  <1>2. /\ EngineInv /\ EngineInv' /\ PromiseBounded /\ PromiseBounded' /\ [Next]_vars
          => [Contract!Next]_(Contract!vars)
    BY ContractStep
  <1>3. EngineInv => PromiseBounded
    BY PromisesAreBounded DEF EngineInv
  <1> QED
    BY <1>1, <1>2, <1>3, EngineInvariantHolds, PTL DEF Spec, ImplementsContract, Contract!Spec
=============================================================================
