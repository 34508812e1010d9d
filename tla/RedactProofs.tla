---------------------------- MODULE RedactProofs ----------------------------
(***************************************************************************)
(* The redactor, for any values, any texts and any reads: how the output   *)
(* is cut cannot be seen in it, no secret is in clear, and little is held  *)
(* back.                                                                   *)
(*                                                                         *)
(* A scan is a recursive function over the places of a text.  It is shown  *)
(* to exist, built from the end of the text (ScanExists), and to lay tiles *)
(* over the text, each fixed by its place alone (ScanTiles).  Tiles join,  *)
(* two tilings from one place agree, and a tile that starts at least the   *)
(* letters to hold back before the end of a part is that of the whole text *)
(* (HitsAhead): so the scans of the parts make the scan of the text.       *)
(***************************************************************************)
EXTENDS Redact, SequenceTheorems, FiniteSetTheorems, WellFoundedInduction, TLAPS

\* A set of numbers has a least one.
LEMMA LeastPlace ==
  ASSUME NEW T, T \subseteq Nat, T # {}
  PROVE  \E m \in T : \A k \in T : m <= k
<1>1. PICK m \in T : \A k \in T : ~(<<k, m>> \in OpToRel(<, Nat))
  BY NatLessThanWellFounded, WFMin
<1>2. \A k \in Nat : k < m => <<k, m>> \in OpToRel(<, Nat)
  BY DEF OpToRel
<1>3. \A k \in T : k \in Nat /\ m \in Nat /\ ~(k < m)
  BY <1>1, <1>2
<1> QED BY <1>3

\* A bounded set of numbers has a greatest one.
LEMMA GreatestPlace ==
  ASSUME NEW T, T \subseteq Nat, T # {}, NEW b \in Nat, \A x \in T : x <= b
  PROVE  \E m \in T : \A k \in T : k <= m
<1> DEFINE U == {b - x : x \in T}
<1>1. U \subseteq Nat
  <2>1. \A x \in T : b - x \in Nat
    OBVIOUS
  <2> QED BY <2>1
<1>2. U # {}
  OBVIOUS
<1>3. PICK d \in U : \A e \in U : d <= e
  BY <1>1, <1>2, LeastPlace
<1>4. PICK m \in T : d = b - m
  BY <1>3
<1>5. \A k \in T : b - m <= b - k
  BY <1>3, <1>4
<1>6. \A k \in T : k <= m
  BY <1>5
<1> QED BY <1>6

-----------------------------------------------------------------------------
(* Values and patterns.                                                    *)

\* A pattern is a text of at least one letter.
LEMMA PatternType ==
  ASSUME NEW v \in Patterns
  PROVE  v \in Seq(Letters) /\ Len(v) \in Nat \ {0}
<1>1. PICK n \in Maskable : v = Values[n]
  BY DEF Patterns
<1>2. n \in 1..Len(Values)
  BY MaskableBound, ValuesAreTexts, LenProperties
<1>3. v \in Seq(Letters)
  BY <1>1, <1>2, ValuesAreTexts, ElementOfSeq
<1> QED BY <1>3, EmptySeq DEF Patterns

\* There is a bound on the lengths of the values.
LEMMA ValuesBounded ==
  \E b \in Nat : \A v \in Patterns : Len(v) <= b
<1> DEFINE L == Len(Values)
           Bound(k, b) == \A n \in 1..k : Len(Values[n]) <= b
           Bad == {k \in 0..L : ~\E b \in Nat : Bound(k, b)}
<1>1. L \in Nat /\ DOMAIN Values = 1..L
  BY ValuesAreTexts, LenProperties
<1>2. \A n \in 1..L : Len(Values[n]) \in Nat
  BY ValuesAreTexts, ElementOfSeq, LenProperties
<1>3. Bound(0, 0)
  OBVIOUS
<1>4. ASSUME NEW k \in 0..L, k # L, NEW b \in Nat, Bound(k, b)
      PROVE  \E c \in Nat : Bound(k + 1, c)
  <2>1. k + 1 \in 1..L
    <3> HIDE DEF L, Bound
    <3> QED BY <1>1, <1>4
  <2>2. Len(Values[k + 1]) \in Nat
    BY <1>2, <2>1
  <2>3. \A n \in 1..(k + 1) : n \in 1..L /\ (n \in 1..k \/ n = k + 1)
    BY <1>1, <2>1
  <2>4. ASSUME NEW n \in 1..(k + 1)
        PROVE  Len(Values[n]) <= b + Len(Values[k + 1])
    <3>1. CASE n = k + 1
      BY <2>2, <3>1
    <3>2. CASE n \in 1..k
      <4>1. Len(Values[n]) \in Nat /\ Len(Values[n]) <= b
        BY <1>2, <1>4, <2>3, <3>2
      <4> QED BY <2>2, <4>1
    <3> QED BY <2>3, <3>1, <3>2
  <2>5. b + Len(Values[k + 1]) \in Nat
    BY <2>2
  <2> QED BY <2>4, <2>5
<1>5. Bad = {}
  <2> SUFFICES ASSUME Bad # {} PROVE FALSE
    OBVIOUS
  <2>1. \A k \in Bad : k \in 0..L /\ ~\E b \in Nat : Bound(k, b)
    OBVIOUS
  <2>2. \A k \in 0..L : k \notin Bad => \E b \in Nat : Bound(k, b)
    OBVIOUS
  <2> HIDE DEF Bad, L, Bound
  <2>3. Bad \subseteq Nat
    BY <1>1, <2>1
  <2>4. PICK k \in Bad : \A j \in Bad : k <= j
    BY <2>3, LeastPlace
  <2>5. k # 0
    BY <1>3, <2>1
  <2>6. k - 1 \in 0..L /\ k - 1 # L /\ k - 1 \notin Bad /\ (k - 1) + 1 = k
    BY <1>1, <2>1, <2>3, <2>4, <2>5
  <2>7. PICK b \in Nat : Bound(k - 1, b)
    BY <2>2, <2>6
  <2>8. \E c \in Nat : Bound((k - 1) + 1, c)
    BY <1>4, <2>6, <2>7
  <2> QED BY <2>1, <2>6, <2>8
<1>6. L \notin Bad
  BY <1>5
<1>7. PICK b \in Nat : Bound(L, b)
  BY <1>1, <1>6
<1> QED BY <1>1, <1>7, MaskableBound DEF Patterns

\* MaxLen is the length of a pattern that no other exceeds.
LEMMA MaxLenIsLongest ==
  ASSUME Patterns # {}
  PROVE  /\ MaxLen \in Nat \ {0}
         /\ \A v \in Patterns : Len(v) <= MaxLen
<1> DEFINE Lens == {Len(v) : v \in Patterns}
<1>1. Lens \subseteq Nat \ {0} /\ Lens # {}
  BY PatternType
<1>2. \E m \in Lens : \A k \in Lens : k <= m
  <2>1. Lens \subseteq Nat
    BY <1>1
  <2>2. PICK b \in Nat : \A k \in Lens : k <= b
    BY ValuesBounded
  <2> QED BY <1>1, <2>1, <2>2, GreatestPlace
<1>3. PICK m \in Lens : \A v \in Patterns : Len(v) <= m
  BY <1>2
<1>4. MaxLen \in Lens /\ \A v \in Patterns : Len(v) <= MaxLen
  BY <1>3 DEF MaxLen
<1> QED BY <1>1, <1>4

-----------------------------------------------------------------------------
(* One step of a scan.                                                     *)

StepLen(data, i) ==
  IF Hits(data, i) = {} THEN 1 ELSE Len(Longest(Hits(data, i)))
StepName(data, i) ==
  IF Hits(data, i) = {} THEN 0 ELSE NameOf(Longest(Hits(data, i)))

\* The first of the names of a pattern is one.
LEMMA NameIsBound ==
  ASSUME NEW v \in Patterns
  PROVE  NameOf(v) \in Maskable /\ NameOf(v) \in 1..Len(Values)
<1> DEFINE Named == {n \in Maskable : Values[n] = v}
<1>1. Maskable \subseteq 1..Len(Values)
  BY MaskableBound, ValuesAreTexts, LenProperties
<1>2. Len(Values) \in Nat
  BY ValuesAreTexts, LenProperties
<1>3. Named \subseteq Nat /\ Named # {}
  <2>1. \A n \in Named : n \in Nat
    BY <1>1, <1>2
  <2>2. \E n \in Maskable : Values[n] = v
    BY DEF Patterns
  <2> QED BY <2>1, <2>2
<1>4. PICK n \in Named : \A m \in Named : n <= m
  BY <1>3, LeastPlace
<1>5. NameOf(v) \in Maskable
  BY <1>4 DEF NameOf
<1> QED BY <1>1, <1>5

\* The longest of the values that match is one of them.
LEMMA LongestHit ==
  ASSUME NEW data \in Seq(Letters), NEW i \in 1..Len(data), Hits(data, i) # {}
  PROVE  /\ Longest(Hits(data, i)) \in Hits(data, i)
         /\ \A v \in Hits(data, i) : Len(v) <= Len(Longest(Hits(data, i)))
<1> DEFINE Lens == {Len(v) : v \in Hits(data, i)}
<1>1. Len(data) \in Nat
  BY LenProperties
<1>2. \A v \in Hits(data, i) : v \in Patterns /\ i + Len(v) <= Len(data) + 1
  BY DEF Hits
<1>3. Lens \subseteq Nat /\ Lens # {}
  BY <1>2, PatternType
<1>4. \A k \in Lens : k <= Len(data) + 1
  BY <1>1, <1>2, PatternType
<1>5. PICK m \in Lens : \A k \in Lens : k <= m
  <2>1. Len(data) + 1 \in Nat
    BY <1>1
  <2> HIDE DEF Lens
  <2> QED BY <1>3, <1>4, <2>1, GreatestPlace
<1>6. PICK v \in Hits(data, i) : \A w \in Hits(data, i) : Len(w) <= Len(v)
  BY <1>5
<1> QED BY <1>6 DEF Longest

\* A step of a scan goes on by at least one letter, within the text.
LEMMA StepType ==
  ASSUME NEW data \in Seq(Letters), NEW i \in 1..Len(data)
  PROVE  /\ StepLen(data, i) \in Nat \ {0}
         /\ i + StepLen(data, i) <= Len(data) + 1
         /\ StepName(data, i) \in 0..Len(Values)
         /\ StepName(data, i) = 0 <=> Hits(data, i) = {}
         /\ StepLen(data, i) > 1 => StepName(data, i) # 0
         /\ \A v \in Hits(data, i) : Len(v) <= StepLen(data, i)
<1>1. Len(data) \in Nat /\ Len(Values) \in Nat
  BY ValuesAreTexts, LenProperties
<1>2. CASE Hits(data, i) = {}
  BY <1>1, <1>2 DEF StepLen, StepName
<1>3. CASE Hits(data, i) # {}
  <2> DEFINE v == Longest(Hits(data, i))
  <2>1. v \in Hits(data, i) /\ \A w \in Hits(data, i) : Len(w) <= Len(v)
    BY <1>3, LongestHit
  <2>2. v \in Patterns /\ i + Len(v) <= Len(data) + 1
    BY <2>1 DEF Hits
  <2>3. StepLen(data, i) = Len(v) /\ StepName(data, i) = NameOf(v)
    BY <1>3 DEF StepLen, StepName
  <2>4. Len(v) \in Nat \ {0} /\ NameOf(v) \in 1..Len(Values)
    BY <2>2, PatternType, NameIsBound
  <2> HIDE DEF v
  <2> QED BY <1>1, <1>3, <2>1, <2>2, <2>3, <2>4
<1> QED BY <1>2, <1>3

-----------------------------------------------------------------------------
(* The scan of a text is defined.                                          *)

\* What a scan says of place i, f being what it says of the places after it.
Body(f, data, offset, limit, i) ==
  IF i > limit
  THEN [pieces |-> <<>>, next |-> i]
  ELSE [pieces |-> <<[at |-> offset + i, len |-> StepLen(data, i),
                      name |-> StepName(data, i)]>>
                     \o f[i + StepLen(data, i)].pieces,
        next |-> f[i + StepLen(data, i)].next]

\* What a scan finds at a place depends only on the places after it.
LEMMA BodyLooksAhead ==
  ASSUME NEW data \in Seq(Letters), NEW offset \in Nat,
         NEW limit \in 0..Len(data), NEW i \in 1..(Len(data) + 1), NEW f, NEW g,
         \A j \in (i + 1)..(Len(data) + 1) : f[j] = g[j]
  PROVE  Body(f, data, offset, limit, i) = Body(g, data, offset, limit, i)
<1>1. Len(data) \in Nat
  BY LenProperties
<1>2. CASE i > limit
  BY <1>2 DEF Body
<1>3. CASE ~(i > limit)
  <2>1. i \in 1..Len(data)
    BY <1>1, <1>3
  <2>2. i + StepLen(data, i) \in (i + 1)..(Len(data) + 1)
    BY <1>1, <2>1, StepType
  <2> QED BY <1>3, <2>2 DEF Body
<1> QED BY <1>2, <1>3

\* Built from the end of the text to its beginning.
LEMMA ScanExists ==
  ASSUME NEW data \in Seq(Letters), NEW offset \in Nat,
         NEW limit \in 0..Len(data)
  PROVE  \E f : f = [i \in 1..(Len(data) + 1) |->
                       Body(f, data, offset, limit, i)]
<1> DEFINE n == Len(data)
           Places(k) == (n + 1 - k)..(n + 1)
           Known(k, f) == f = [i \in Places(k) |-> Body(f, data, offset, limit, i)]
           Bad == {k \in 0..n : ~\E f : Known(k, f)}
<1>1. n \in Nat
  BY LenProperties
<1>2. \E f : Known(0, f)
  <2> DEFINE f == [i \in Places(0) |-> [pieces |-> <<>>, next |-> i]]
  <2>1. \A i \in Places(0) : i > limit
    BY <1>1
  <2>2. f = [i \in Places(0) |-> Body(f, data, offset, limit, i)]
    BY <2>1 DEF Body
  <2> QED BY <2>2
<1>3. ASSUME NEW k \in 0..n, k # n, NEW g, Known(k, g)
      PROVE  \E f : Known(k + 1, f)
  <2> DEFINE m == n - k
             f == [i \in Places(k + 1) |->
                    IF i = m THEN Body(g, data, offset, limit, m) ELSE g[i]]
  <2>1. /\ m \in 1..n /\ Places(k + 1) = m..(n + 1) /\ Places(k) = (m + 1)..(n + 1)
        /\ \A i \in Places(k + 1) : i \in 1..(n + 1)
    <3> HIDE DEF n, Known
    <3> QED BY <1>1, <1>3
  <2>2. ASSUME NEW i \in Places(k + 1)
        PROVE  f[i] = Body(f, data, offset, limit, i)
    <3>1. \A j \in (i + 1)..(n + 1) : j \in Places(k + 1) /\ j # m
      <4> HIDE DEF n, Known, f
      <4> QED BY <1>1, <2>1
    <3>2. \A j \in (i + 1)..(n + 1) : f[j] = g[j]
      BY <3>1
    <3>3. Body(f, data, offset, limit, i) = Body(g, data, offset, limit, i)
      <4> HIDE DEF f, Known
      <4> QED BY <2>1, <3>2, BodyLooksAhead, SMTT(30)
    <3>4. CASE i = m
      <4>1. f[i] = Body(g, data, offset, limit, i)
        BY <3>4
      <4> QED BY <3>3, <4>1
    <3>5. CASE i # m
      <4>1. f[i] = g[i]
        BY <3>5
      <4>2. i \in Places(k)
        <5> HIDE DEF n, f, Known
        <5> QED BY <1>1, <2>1, <3>5
      <4>3. g[i] = Body(g, data, offset, limit, i)
        BY <1>3, <4>2
      <4> QED BY <3>3, <4>1, <4>3
    <3> QED BY <3>4, <3>5
  <2>3. f = [i \in Places(k + 1) |-> Body(f, data, offset, limit, i)]
    <3>1. f = [i \in Places(k + 1) |-> f[i]]
      OBVIOUS
    <3> HIDE DEF f, Places
    <3> QED BY <2>2, <3>1
  <2> HIDE DEF f
  <2> QED BY <2>3
<1>4. Bad = {}
  <2> SUFFICES ASSUME Bad # {} PROVE FALSE
    OBVIOUS
  <2>1. \A k \in Bad : k \in 0..n /\ ~\E f : Known(k, f)
    OBVIOUS
  <2>2. \A k \in 0..n : k \notin Bad => \E f : Known(k, f)
    OBVIOUS
  <2> HIDE DEF Bad, n, Known
  <2>3. Bad \subseteq Nat
    BY <1>1, <2>1
  <2>4. PICK k \in Bad : \A j \in Bad : k <= j
    BY <2>3, LeastPlace
  <2>5. k # 0
    BY <1>2, <2>1
  <2>6. k - 1 \in 0..n /\ k - 1 # n /\ k - 1 \notin Bad /\ (k - 1) + 1 = k
    BY <1>1, <2>1, <2>3, <2>4, <2>5
  <2>7. PICK g : Known(k - 1, g)
    BY <2>2, <2>6
  <2>8. \E f : Known((k - 1) + 1, f)
    BY <1>3, <2>6, <2>7
  <2> QED BY <2>1, <2>6, <2>8
<1>5. n \in 0..n /\ n \notin Bad
  BY <1>1, <1>4
<1>6. PICK f : Known(n, f)
  BY <1>5
<1>7. Places(n) = 1..(n + 1)
  <2> HIDE DEF n
  <2> QED BY <1>1
<1> QED BY <1>6, <1>7

\* The places are looked at in order, whatever function says the rest.
LEMMA ScanBody ==
  ASSUME NEW data \in Seq(Letters), NEW offset \in Nat,
         NEW limit \in 0..Len(data)
  PROVE  \E f : /\ f = [i \in 1..(Len(data) + 1) |->
                          Body(f, data, offset, limit, i)]
                /\ Scan(data, offset, limit) = f[1]
<1> DEFINE F(f) == [i \in 1..(Len(data) + 1) |-> Body(f, data, offset, limit, i)]
<1>1. Scan(data, offset, limit) = (CHOOSE f : f = F(f))[1]
  BY DEF Scan, Body, StepLen, StepName
<1>2. \E f : f = F(f)
  BY ScanExists
<1> HIDE DEF F
<1>3. (CHOOSE f : f = F(f)) = F(CHOOSE f : f = F(f))
  BY <1>2
<1> QED BY <1>1, <1>3 DEF F

-----------------------------------------------------------------------------
(* What a scan returns.                                                    *)

End(p) == p.at + p.len

\* The pieces are those of the places x to y - 1 of the text, without a gap
\* and without an overlap, each what a step at its place makes; the data are
\* the text from the place after offset.
Tiles(data, offset, pieces, x, y) ==
  /\ pieces \in Seq(Piece)
  /\ x \in Nat /\ y \in Nat /\ x <= y
  /\ pieces = <<>> => x = y
  /\ pieces # <<>> => pieces[1].at = x /\ End(pieces[Len(pieces)]) = y
  /\ \A k \in 1..Len(pieces) :
       /\ x <= pieces[k].at /\ End(pieces[k]) <= y
       /\ k < Len(pieces) => End(pieces[k]) = pieces[k + 1].at
       /\ pieces[k].at - offset \in 1..Len(data)
       /\ pieces[k].len = StepLen(data, pieces[k].at - offset)
       /\ pieces[k].name = StepName(data, pieces[k].at - offset)
  /\ \A i \in x..(y - 1) : \E k \in 1..Len(pieces) :
       pieces[k].at <= i /\ i < End(pieces[k])

\* No pieces cover nothing.
LEMMA NoTiles ==
  ASSUME NEW data, NEW offset, NEW x \in Nat
  PROVE  Tiles(data, offset, <<>>, x, x)
<1>1. <<>> \in Seq(Piece) /\ Len(<<>>) = 0
  BY EmptySeq
<1>2. x..(x - 1) = {} /\ 1..0 = {}
  OBVIOUS
<1> QED BY <1>1, <1>2 DEF Tiles

\* One piece that is the step at its place covers that step.
LEMMA OneTile ==
  ASSUME NEW data \in Seq(Letters), NEW offset \in Nat, NEW i \in 1..Len(data)
  PROVE  Tiles(data, offset,
               <<[at |-> offset + i, len |-> StepLen(data, i),
                  name |-> StepName(data, i)]>>,
               offset + i, offset + i + StepLen(data, i))
<1> DEFINE p == [at |-> offset + i, len |-> StepLen(data, i),
                 name |-> StepName(data, i)]
<1>1. /\ p \in Piece /\ p.at = offset + i /\ p.len = StepLen(data, i)
      /\ p.name = StepName(data, i)
      /\ p.at - offset = i /\ p.at \in Nat /\ p.len \in Nat \ {0}
  BY StepType, LenProperties DEF Piece
<1> HIDE DEF p
<1>2. /\ <<p>> \in Seq(Piece) /\ Len(<<p>>) = 1 /\ <<p>>[1] = p /\ <<p>> # <<>>
  BY <1>1
<1>3. \A k \in 1..Len(<<p>>) : k = 1
  BY <1>2
<1>4. Tiles(data, offset, <<p>>, p.at, p.at + p.len)
  BY <1>1, <1>2, <1>3 DEF Tiles, End
<1> QED BY <1>1, <1>4 DEF p

\* Pieces up to a place and pieces from it on cover both.
LEMMA JoinTiles ==
  ASSUME NEW data, NEW offset, NEW p, NEW q, NEW x, NEW y, NEW z,
         Tiles(data, offset, p, x, y), Tiles(data, offset, q, y, z)
  PROVE  Tiles(data, offset, p \o q, x, z)
<1> DEFINE r == p \o q
<1>1. p \in Seq(Piece) /\ q \in Seq(Piece) /\ x \in Nat /\ y \in Nat /\ z \in Nat
  BY DEF Tiles
<1>2. /\ r \in Seq(Piece) /\ Len(r) = Len(p) + Len(q)
      /\ \A k \in 1..(Len(p) + Len(q)) :
           r[k] = IF k <= Len(p) THEN p[k] ELSE q[k - Len(p)]
  BY <1>1, ConcatProperties
<1>3. Len(p) \in Nat /\ Len(q) \in Nat
  BY <1>1, LenProperties
<1>4. CASE p = <<>>
  BY <1>1, <1>4, ConcatEmptySeq DEF Tiles
<1>5. CASE q = <<>>
  BY <1>1, <1>5, ConcatEmptySeq DEF Tiles
<1>6. CASE p # <<>> /\ q # <<>>
  <2>1. Len(p) > 0 /\ Len(q) > 0 /\ r # <<>>
    <3>1. Len(p) \in Nat \ {0} /\ Len(q) \in Nat \ {0}
      BY <1>1, <1>6, EmptySeq
    <3>2. Len(r) # Len(<<>>)
      BY <1>2, <3>1, EmptySeq
    <3> QED BY <3>1, <3>2
  <2>2. /\ p[1].at = x /\ End(p[Len(p)]) = y /\ q[1].at = y /\ End(q[Len(q)]) = z
        /\ x <= y /\ y <= z
    BY <1>6 DEF Tiles
  <2> HIDE DEF r
  <2>3. r[1] = p[1] /\ r[Len(r)] = q[Len(q)]
    BY <1>2, <1>3, <2>1
  <2>4. \A k \in 1..Len(p) : r[k] = p[k]
    BY <1>2, <1>3
  <2>5. \A k \in 1..Len(q) : k + Len(p) \in 1..Len(r) /\ r[k + Len(p)] = q[k]
    BY <1>2, <1>3
  <2>6. ASSUME NEW k \in 1..Len(r)
        PROVE  /\ x <= r[k].at /\ End(r[k]) <= z
               /\ k < Len(r) => End(r[k]) = r[k + 1].at
               /\ r[k].at - offset \in 1..Len(data)
               /\ r[k].len = StepLen(data, r[k].at - offset)
               /\ r[k].name = StepName(data, r[k].at - offset)
    <3>1. CASE k <= Len(p)
      <4>1. k \in 1..Len(p) /\ r[k] = p[k]
        BY <1>3, <2>4, <3>1
      <4>2. End(p[k]) \in Nat /\ End(p[k]) <= z
        <5>1. p[k] \in Piece /\ End(p[k]) <= y
          BY <1>1, <4>1, ElementOfSeq DEF Tiles
        <5>2. p[k].at \in Nat /\ p[k].len \in Nat
          BY <5>1 DEF Piece
        <5>3. End(p[k]) \in Nat
          BY <5>2 DEF End
        <5>4. y \in Nat /\ z \in Nat /\ y <= z /\ End(p[k]) <= y
          BY <1>1, <2>2, <5>1
        <5> QED BY <5>3, <5>4
      <4>3. k < Len(p) => End(p[k]) = p[k + 1].at /\ r[k + 1] = p[k + 1]
        <5>1. k < Len(p) => k + 1 \in 1..Len(p)
          BY <1>3, <4>1
        <5> QED BY <2>4, <4>1, <5>1 DEF Tiles
      <4>4. k = Len(p) => r[k + 1] = q[1]
        BY <1>2, <1>3, <2>1, <2>5
      <4>5. End(r[k]) = r[k + 1].at
        BY <1>3, <2>2, <3>1, <4>1, <4>3, <4>4
      <4> QED BY <4>1, <4>2, <4>5 DEF Tiles
    <3>2. CASE ~(k <= Len(p))
      <4> DEFINE j == k - Len(p)
      <4>1. j \in 1..Len(q) /\ r[k] = q[j] /\ k = j + Len(p)
        BY <1>2, <1>3, <3>2
      <4>2. x <= q[j].at
        <5>1. q[j] \in Piece /\ y <= q[j].at
          BY <1>1, <4>1, ElementOfSeq DEF Tiles
        <5> QED BY <1>1, <2>2, <5>1 DEF Piece
      <4>3. k < Len(r) => j < Len(q) /\ j + 1 \in 1..Len(q) /\ k + 1 = (j + 1) + Len(p)
        BY <1>2, <1>3, <4>1
      <4>4. k < Len(r) => End(r[k]) = r[k + 1].at
        BY <2>5, <4>1, <4>3, ZenonT(60) DEF Tiles
      <4> HIDE DEF j
      <4> QED BY <4>1, <4>2, <4>4 DEF Tiles
    <3> QED BY <3>1, <3>2
  <2>7. ASSUME NEW i \in x..(z - 1)
        PROVE  \E k \in 1..Len(r) : r[k].at <= i /\ i < End(r[k])
    <3>1. CASE i < y
      <4>1. i \in x..(y - 1)
        BY <1>1, <3>1
      <4>2. PICK k \in 1..Len(p) : p[k].at <= i /\ i < End(p[k])
        BY <4>1 DEF Tiles
      <4>3. k \in 1..Len(r) /\ r[k] = p[k]
        BY <1>2, <1>3, <2>4
      <4> QED BY <4>2, <4>3
    <3>2. CASE ~(i < y)
      <4>1. i \in y..(z - 1)
        BY <1>1, <3>2
      <4>2. PICK k \in 1..Len(q) : q[k].at <= i /\ i < End(q[k])
        BY <4>1 DEF Tiles
      <4> QED BY <2>5, <4>2
    <3> QED BY <3>1, <3>2
  <2>8. r[1].at = x /\ End(r[Len(r)]) = z /\ x <= z
    BY <1>1, <2>2, <2>3
  <2> QED BY <1>1, <1>2, <2>1, <2>6, <2>7, <2>8 DEF Tiles, r
<1> QED BY <1>4, <1>5, <1>6

\* The pieces of a scan, and where it stops.
Scanned(data, offset, limit, i, r) ==
  /\ r.next \in Nat /\ i <= r.next /\ limit < r.next /\ r.next <= Len(data) + 1
  /\ Tiles(data, offset, r.pieces, offset + i, offset + r.next)
  /\ \A k \in 1..Len(r.pieces) : r.pieces[k].at <= offset + limit

\* If the scan is right from the places after i on, it is from i.
LEMMA ScanStep ==
  ASSUME NEW data \in Seq(Letters), NEW offset \in Nat,
         NEW limit \in 0..Len(data), NEW i \in 1..(Len(data) + 1), NEW f,
         \A j \in (i + 1)..(Len(data) + 1) : Scanned(data, offset, limit, j, f[j])
  PROVE  Scanned(data, offset, limit, i, Body(f, data, offset, limit, i))
<1>1. Len(data) \in Nat
  BY LenProperties
<1>2. CASE i > limit
  <2>1. Tiles(data, offset, <<>>, offset + i, offset + i)
    BY NoTiles
  <2>2. Len(<<>>) = 0 /\ 1..0 = {}
    BY EmptySeq
  <2>3. Body(f, data, offset, limit, i) = [pieces |-> <<>>, next |-> i]
    BY <1>2 DEF Body
  <2> QED BY <1>1, <1>2, <2>1, <2>2, <2>3 DEF Scanned
<1>3. CASE ~(i > limit)
  <2> DEFINE l == StepLen(data, i)
             p == [at |-> offset + i, len |-> l, name |-> StepName(data, i)]
             r == f[i + l]
  <2>1. i \in 1..Len(data)
    BY <1>1, <1>3
  <2>2. l \in Nat \ {0} /\ i + l \in (i + 1)..(Len(data) + 1)
    BY <1>1, <2>1, StepType
  <2>3. Body(f, data, offset, limit, i) = [pieces |-> <<p>> \o r.pieces, next |-> r.next]
    BY <1>3 DEF Body
  <2>4. Scanned(data, offset, limit, i + l, r)
    BY <2>2
  <2>5. Tiles(data, offset, <<p>>, offset + i, offset + i + l)
    BY <2>1, OneTile
  <2>6. p.at = offset + i
    OBVIOUS
  <2> HIDE DEF p, r, l
  <2>7. offset + (i + l) = offset + i + l
    BY <2>2
  <2>8. Tiles(data, offset, <<p>> \o r.pieces, offset + i, offset + r.next)
    BY <2>4, <2>5, <2>7, JoinTiles DEF Scanned
  <2>9. ASSUME NEW k \in 1..Len(<<p>> \o r.pieces)
        PROVE  (<<p>> \o r.pieces)[k].at <= offset + limit
    <3>1. <<p>> \in Seq(Piece) /\ r.pieces \in Seq(Piece)
      BY <2>4, <2>5 DEF Tiles, Scanned
    <3>2. Len(<<p>>) = 1 /\ <<p>>[1] = p /\ Len(r.pieces) \in Nat
      BY <3>1, LenProperties
    <3>3. (<<p>> \o r.pieces)[k] = IF k <= 1 THEN <<p>>[k] ELSE r.pieces[k - 1]
      BY <3>1, <3>2, ConcatProperties
    <3>4. k = 1 \/ k - 1 \in 1..Len(r.pieces)
      BY <3>1, <3>2, ConcatProperties
    <3>5. CASE k = 1
      BY <1>1, <1>3, <2>6, <3>2, <3>3, <3>5
    <3>6. CASE k # 1 /\ k - 1 \in 1..Len(r.pieces)
      <4>1. ~(k <= 1)
        BY <3>2, <3>6
      <4> QED BY <2>4, <3>3, <3>6, <4>1 DEF Scanned
    <3> QED BY <3>4, <3>5, <3>6
  <2>10. /\ r.next \in Nat /\ i <= r.next /\ limit < r.next
         /\ r.next <= Len(data) + 1
    BY <1>1, <2>2, <2>4 DEF Scanned
  <2> QED BY <2>3, <2>8, <2>9, <2>10 DEF Scanned
<1> QED BY <1>2, <1>3

\* A scan covers its text up to where it stops.
LEMMA ScanTiles ==
  ASSUME NEW data \in Seq(Letters), NEW offset \in Nat,
         NEW limit \in 0..Len(data)
  PROVE  Scanned(data, offset, limit, 1, Scan(data, offset, limit))
<1> DEFINE n == Len(data)
<1>1. n \in Nat
  BY LenProperties
<1>2. PICK f : /\ f = [i \in 1..(n + 1) |-> Body(f, data, offset, limit, i)]
               /\ Scan(data, offset, limit) = f[1]
  BY ScanBody
<1> DEFINE Good(i) == Scanned(data, offset, limit, i, f[i])
           Bad == {k \in 0..n : ~Good(n + 1 - k)}
<1>3. ASSUME NEW i \in 1..(n + 1), \A j \in (i + 1)..(n + 1) : Good(j)
      PROVE  Good(i)
  <2>1. f[i] = Body(f, data, offset, limit, i)
    BY <1>2
  <2>2. Scanned(data, offset, limit, i, Body(f, data, offset, limit, i))
    BY <1>3, ScanStep
  <2> QED BY <2>1, <2>2
<1>4. Bad = {}
  <2> SUFFICES ASSUME Bad # {} PROVE FALSE
    OBVIOUS
  <2>1. \A k \in Bad : k \in 0..n /\ ~Good(n + 1 - k)
    OBVIOUS
  <2>2. \A k \in 0..n : k \notin Bad => Good(n + 1 - k)
    OBVIOUS
  <2> HIDE DEF Bad, n, Good
  <2>3. Bad \subseteq Nat
    BY <1>1, <2>1
  <2>4. PICK k \in Bad : \A j \in Bad : k <= j
    BY <2>3, LeastPlace
  <2>5. n + 1 - k \in 1..(n + 1)
    BY <1>1, <2>1
  <2>6. ASSUME NEW j \in (n + 1 - k + 1)..(n + 1) PROVE Good(j)
    <3>1. n + 1 - j \in 0..n /\ n + 1 - j < k /\ n + 1 - (n + 1 - j) = j
      BY <1>1, <2>1, <2>3
    <3>2. n + 1 - j \notin Bad
      BY <1>1, <2>3, <2>4, <3>1
    <3>3. Good(n + 1 - (n + 1 - j))
      BY <2>2, <3>1, <3>2
    <3> QED BY <3>1, <3>3
  <2> QED BY <1>3, <2>1, <2>5, <2>6
<1>5. Good(1)
  <2>1. n \in 0..n /\ n + 1 - n = 1
    BY <1>1
  <2> QED BY <1>4, <2>1
<1> QED BY <1>2, <1>5

-----------------------------------------------------------------------------
(* Two tilings of one text from one place agree.                           *)

\* Two tilings agree in every piece that both have.
LEMMA TilesAgree ==
  ASSUME NEW data, NEW offset, NEW p, NEW q, NEW x, NEW y, NEW z,
         Tiles(data, offset, p, x, y), Tiles(data, offset, q, x, z)
  PROVE  \A k \in 1..Len(p) : k \in 1..Len(q) => p[k] = q[k]
<1> DEFINE Bad == {k \in 1..Len(p) : k \in 1..Len(q) /\ p[k] # q[k]}
<1>1. /\ p \in Seq(Piece) /\ q \in Seq(Piece)
      /\ Len(p) \in Nat /\ Len(q) \in Nat
  BY LenProperties DEF Tiles
<1>2. ASSUME NEW k \in 1..Len(p), k \in 1..Len(q), p[k].at = q[k].at
      PROVE  p[k] = q[k]
  <2>1. p[k] \in Piece /\ q[k] \in Piece
    BY <1>1, <1>2, ElementOfSeq
  <2>2. p[k].len = q[k].len /\ p[k].name = q[k].name
    BY <1>2 DEF Tiles
  <2> QED BY <1>2, <2>1, <2>2 DEF Piece
<1>3. SUFFICES ASSUME Bad # {} PROVE FALSE
  OBVIOUS
<1>4. \A k \in Bad : k \in 1..Len(p) /\ k \in 1..Len(q) /\ p[k] # q[k]
  OBVIOUS
<1>5. \A k \in 1..Len(p) : k \in 1..Len(q) /\ k \notin Bad => p[k] = q[k]
  OBVIOUS
<1> HIDE DEF Bad
<1>6. Bad \subseteq Nat
  BY <1>1, <1>4
<1>7. PICK k \in Bad : \A j \in Bad : k <= j
  BY <1>3, <1>6, LeastPlace
<1>8. k \in 1..Len(p) /\ k \in 1..Len(q) /\ p[k] # q[k]
  BY <1>4
<1>9. CASE k = 1
  <2>1. p # <<>> /\ q # <<>>
    BY <1>1, <1>8, EmptySeq
  <2>2. p[1].at = q[1].at
    BY <2>1 DEF Tiles
  <2> QED BY <1>2, <1>8, <1>9, <2>2
<1>10. CASE k # 1
  <2> DEFINE j == k - 1
  <2>1. /\ j \in 1..Len(p) /\ j \in 1..Len(q) /\ j < Len(p) /\ j < Len(q)
        /\ j < k /\ j + 1 = k /\ j \in Nat /\ k \in Nat
    BY <1>1, <1>8, <1>10
  <2> HIDE DEF j
  <2>2. j \notin Bad
    BY <1>7, <2>1
  <2>3. p[j] = q[j]
    BY <1>5, <2>1, <2>2
  <2>4. End(p[j]) = p[k].at /\ End(q[j]) = q[k].at
    BY <2>1 DEF Tiles
  <2> QED BY <1>2, <1>8, <2>3, <2>4
<1> QED BY <1>9, <1>10

\* Of two tilings from one place the shorter begins the longer.
LEMMA TilesPrefix ==
  ASSUME NEW data \in Seq(Letters), NEW offset, NEW p, NEW q,
         NEW x, NEW y, NEW z,
         Tiles(data, offset, p, x, y), Tiles(data, offset, q, x, z), y <= z
  PROVE  IsPrefix(p, q)
<1>1. /\ p \in Seq(Piece) /\ q \in Seq(Piece)
      /\ Len(p) \in Nat /\ Len(q) \in Nat
      /\ x \in Nat /\ y \in Nat /\ z \in Nat
  BY LenProperties DEF Tiles
<1>2. \A k \in 1..Len(p) :
        p[k].at \in Nat /\ p[k].len \in Nat \ {0} /\ p[k].at < y
  <2> SUFFICES ASSUME NEW k \in 1..Len(p)
               PROVE  /\ p[k].at \in Nat /\ p[k].len \in Nat \ {0}
                      /\ p[k].at < y
    OBVIOUS
  <2>1. p[k] \in Piece
    BY <1>1, ElementOfSeq
  <2>2. p[k].at - offset \in 1..Len(data)
        /\ p[k].len = StepLen(data, p[k].at - offset)
        /\ p[k].at + p[k].len <= y
    BY DEF Tiles, End
  <2>3. p[k].len \in Nat \ {0}
    BY <2>2, StepType
  <2>4. p[k].at \in Nat
    BY <2>1 DEF Piece
  <2> QED BY <1>1, <2>2, <2>3, <2>4
<1>3. Len(p) <= Len(q)
  <2> SUFFICES ASSUME Len(q) < Len(p) PROVE FALSE
    BY <1>1
  <2>1. CASE q = <<>>
    <3>1. Len(q) = 0 /\ 1 \in 1..Len(p) /\ p # <<>>
      BY <1>1, <2>1, EmptySeq
    <3>2. p[1].at = x /\ x = z
      BY <2>1, <3>1 DEF Tiles
    <3> QED BY <1>1, <1>2, <3>1, <3>2
  <2>2. CASE q # <<>>
    <3> DEFINE n == Len(q)
    <3>1. /\ n \in 1..Len(q) /\ n \in 1..Len(p) /\ n < Len(p)
          /\ n + 1 \in 1..Len(p)
      BY <1>1, <2>2, EmptySeq
    <3>2. p[n] = q[n]
      BY <3>1, TilesAgree
    <3>3. End(q[n]) = z
      BY <2>2 DEF Tiles
    <3>4. End(p[n]) = p[n + 1].at
      BY <3>1 DEF Tiles
    <3>5. p[n + 1].at = z /\ p[n + 1].at < y
      BY <1>2, <3>1, <3>2, <3>3, <3>4
    <3> QED BY <1>1, <3>5
  <2> QED BY <2>1, <2>2
<1>4. SubSeq(q, 1, Len(p)) = p
  <2>1. \A i \in 1..Len(p) : i \in 1..Len(q) /\ q[i] \in Piece /\ q[i] = p[i]
    BY <1>1, <1>3, TilesAgree, ElementOfSeq
  <2>2. /\ SubSeq(q, 1, Len(p)) \in Seq(Piece)
        /\ Len(SubSeq(q, 1, Len(p))) = IF 1 <= Len(p) THEN Len(p) - 1 + 1 ELSE 0
        /\ \A i \in 1..(Len(p) - 1 + 1) : SubSeq(q, 1, Len(p))[i] = q[1 + i - 1]
    BY <1>1, <2>1, SubSeqProperties
  <2>3. Len(SubSeq(q, 1, Len(p))) = Len(p)
    BY <1>1, <2>2
  <2>4. \A i \in 1..Len(p) : SubSeq(q, 1, Len(p))[i] = p[i]
    BY <1>1, <2>1, <2>2
  <2> QED BY <1>1, <2>2, <2>3, <2>4, SeqEqual
<1>5. SubSeq(p, 1, Len(p)) = p
  BY <1>1, SubSeqFull
<1> QED BY <1>3, <1>4, <1>5 DEF IsPrefix

\* Two tilings of the same places are the same.
LEMMA TilesEqual ==
  ASSUME NEW data \in Seq(Letters), NEW offset, NEW p, NEW q, NEW x, NEW y,
         Tiles(data, offset, p, x, y), Tiles(data, offset, q, x, y)
  PROVE  p = q
<1>1. /\ p \in Seq(Piece) /\ q \in Seq(Piece) /\ y <= y
      /\ Len(p) \in Nat /\ Len(q) \in Nat
  BY LenProperties DEF Tiles
<1>2. IsPrefix(p, q) /\ IsPrefix(q, p)
  BY <1>1, TilesPrefix
<1>3. Len(p) = Len(q)
  BY <1>1, <1>2 DEF IsPrefix
<1> QED BY <1>1, <1>3, TilesAgree, SeqEqual

-----------------------------------------------------------------------------
(* A part of a text.                                                       *)

\* The letters b + 1 to g of a text, by their places.
LEMMA PartType ==
  ASSUME NEW data \in Seq(Letters), NEW b \in 0..Len(data), NEW g \in b..Len(data)
  PROVE  /\ SubSeq(data, b + 1, g) \in Seq(Letters)
         /\ Len(SubSeq(data, b + 1, g)) = g - b
<1>1. Len(data) \in Nat
  BY LenProperties
<1>2. b + 1 \in Int /\ g \in Int /\ \A i \in (b + 1)..g : i \in 1..Len(data)
  BY <1>1
<1>3. \A i \in (b + 1)..g : data[i] \in Letters
  BY <1>2, ElementOfSeq
<1>4. /\ SubSeq(data, b + 1, g) \in Seq(Letters)
      /\ Len(SubSeq(data, b + 1, g)) = IF b + 1 <= g THEN g - (b + 1) + 1 ELSE 0
  BY <1>2, <1>3, SubSeqProperties
<1> QED BY <1>1, <1>4

\* In a part match the values that match in the text and end within it.
LEMMA HitsOfPart ==
  ASSUME NEW data \in Seq(Letters), NEW b \in 0..Len(data), NEW g \in b..Len(data),
         NEW i \in 1..(g - b)
  PROVE  \A v : v \in Hits(SubSeq(data, b + 1, g), i)
                 <=> v \in Hits(data, b + i) /\ b + i + Len(v) <= g + 1
<1> DEFINE part == SubSeq(data, b + 1, g)
<1>1. Len(data) \in Nat /\ part \in Seq(Letters) /\ Len(part) = g - b
  BY PartType, LenProperties
<1>2. ASSUME NEW v \in Patterns
      PROVE  v \in Hits(part, i) <=> v \in Hits(data, b + i) /\ b + i + Len(v) <= g + 1
  <2>1. Len(v) \in Nat \ {0}
    BY PatternType
  <2>2. i + Len(v) <= Len(part) + 1 <=> b + i + Len(v) <= g + 1
    BY <1>1, <2>1
  <2>3. b + i + Len(v) <= g + 1 => b + i + Len(v) <= Len(data) + 1
    BY <1>1, <2>1
  <2>4. ASSUME b + i + Len(v) <= g + 1
        PROVE  SubSeq(part, i, i + Len(v) - 1) = SubSeq(data, b + i, b + i + Len(v) - 1)
    <3>1. /\ b + 1 \in 1..Len(data) /\ g \in 1..Len(data)
          /\ i \in 1..(g - (b + 1) + 1) /\ i + Len(v) - 1 \in 1..(g - (b + 1) + 1)
      BY <1>1, <2>1, <2>4
    <3>2. SubSeq(part, i, i + Len(v) - 1)
            = SubSeq(data, (b + 1) + i - 1, (b + 1) + (i + Len(v) - 1) - 1)
      BY <3>1, SubSeqOfSubSeq
    <3>3. (b + 1) + i - 1 = b + i /\ (b + 1) + (i + Len(v) - 1) - 1 = b + i + Len(v) - 1
      BY <1>1, <2>1
    <3> QED BY <3>2, <3>3
  <2> HIDE DEF part
  <2> QED BY <2>2, <2>3, <2>4 DEF Hits
<1> QED BY <1>2 DEF Hits

\* So a step in a part is one in the text, if the part goes on far enough.
LEMMA HitsAhead ==
  ASSUME NEW data \in Seq(Letters), NEW b \in 0..Len(data), NEW g \in b..Len(data),
         NEW i \in 1..(g - b), i + CarryLen <= g - b, Patterns # {}
  PROVE  Hits(SubSeq(data, b + 1, g), i) = Hits(data, b + i)
<1>1. Len(data) \in Nat /\ MaxLen \in Nat \ {0}
  BY LenProperties, MaxLenIsLongest
<1>2. ASSUME NEW v \in Hits(data, b + i) PROVE b + i + Len(v) <= g + 1
  <2>1. v \in Patterns
    BY DEF Hits
  <2>2. Len(v) \in Nat /\ Len(v) <= MaxLen
    BY <2>1, PatternType, MaxLenIsLongest
  <2> QED BY <1>1, <2>2 DEF CarryLen
<1>3. \A v : v \in Hits(SubSeq(data, b + 1, g), i)
              <=> v \in Hits(data, b + i) /\ b + i + Len(v) <= g + 1
  BY HitsOfPart
<1> QED BY <1>2, <1>3

\* Pieces cover a text if those of another cover it with the same steps.
LEMMA Retile ==
  ASSUME NEW data, NEW offset, NEW other, NEW shift, NEW p, NEW x, NEW y,
         Tiles(data, offset, p, x, y),
         \A k \in 1..Len(p) :
           /\ p[k].at - shift \in 1..Len(other)
           /\ Hits(other, p[k].at - shift) = Hits(data, p[k].at - offset)
  PROVE  Tiles(other, shift, p, x, y)
BY DEF Tiles, StepLen, StepName

-----------------------------------------------------------------------------
(* A turn of the redactor.                                                 *)

\* A text redacted at once is covered to its end.
LEMMA RedactedTiles ==
  ASSUME NEW data \in Seq(Letters)
  PROVE  Tiles(data, 0, Redacted(data), 1, Len(data) + 1)
<1>1. Len(data) \in Nat
  BY LenProperties
<1> DEFINE r == Scan(data, 0, Len(data))
<1>2. Scanned(data, 0, Len(data), 1, r)
  BY <1>1, ScanTiles
<1> HIDE DEF r
<1>3. r.next \in Nat /\ r.next = Len(data) + 1
  BY <1>1, <1>2 DEF Scanned
<1>4. 0 + 1 = 1 /\ 0 + r.next = Len(data) + 1
  BY <1>1, <1>3
<1>5. Tiles(data, 0, r.pieces, 0 + 1, 0 + r.next)
  BY <1>2 DEF Scanned
<1>6. Tiles(data, 0, r.pieces, 1, Len(data) + 1)
  BY <1>4, <1>5
<1> QED BY <1>6 DEF r, Redacted

LEMMA SafeEndType ==
  ASSUME NEW n \in Nat, Patterns # {}
  PROVE  SafeEnd(n) \in 0..n /\ SafeEnd(n) \in 0..SafeEnd(n)
<1>1. CarryLen \in Nat
  BY MaxLenIsLongest DEF CarryLen
<1> QED BY <1>1 DEF SafeEnd

\* What a read lets go are the next pieces of the whole text, and unless it
\* stops short all but less than the longest secret.
LEMMA ReadPart ==
  ASSUME NEW data \in Seq(Letters), NEW b \in 0..Len(data), NEW g \in b..Len(data),
         NEW p, Tiles(data, 0, p, 1, b + 1), Patterns # {},
         \A k \in 1..Len(p) : p[k].at + CarryLen <= g,
         NEW safe \in 0..SafeEnd(g - b),
         NEW r, r = Scan(SubSeq(data, b + 1, g), b, safe)
  PROVE  /\ r.next \in 1..(g - b + 1)
         /\ Tiles(data, 0, p \o r.pieces, 1, (b + r.next - 1) + 1)
         /\ \A k \in 1..Len(p \o r.pieces) : (p \o r.pieces)[k].at + CarryLen <= g
         /\ safe = SafeEnd(g - b) => g - (b + r.next - 1) < MaxLen
<1> DEFINE part == SubSeq(data, b + 1, g)
<1>1. /\ Len(data) \in Nat /\ MaxLen \in Nat \ {0} /\ CarryLen \in Nat
      /\ CarryLen = MaxLen - 1 /\ b \in Nat /\ g \in Nat /\ b <= g /\ g <= Len(data)
  BY LenProperties, MaxLenIsLongest DEF CarryLen
<1>2. part \in Seq(Letters) /\ Len(part) = g - b
  BY PartType
<1>3. /\ safe \in 0..(g - b) /\ safe \in Nat
      /\ safe > 0 => safe <= g - b - CarryLen
      /\ safe = SafeEnd(g - b) => g - b - safe <= CarryLen
  BY <1>1 DEF SafeEnd
<1> HIDE DEF part
<1>4. Scanned(part, b, safe, 1, r)
  BY <1>1, <1>2, <1>3, ScanTiles DEF part
<1>5. /\ r.next \in Nat /\ 1 <= r.next /\ safe < r.next /\ r.next <= g - b + 1
      /\ Tiles(part, b, r.pieces, b + 1, b + r.next)
      /\ \A k \in 1..Len(r.pieces) : r.pieces[k].at <= b + safe
  BY <1>2, <1>4 DEF Scanned
<1>6. \A k \in 1..Len(r.pieces) :
        /\ r.pieces[k].at \in Nat
        /\ r.pieces[k].at - b \in 1..(g - b)
        /\ r.pieces[k].at + CarryLen <= g
  <2> SUFFICES ASSUME NEW k \in 1..Len(r.pieces)
               PROVE  /\ r.pieces[k].at \in Nat
                      /\ r.pieces[k].at - b \in 1..(g - b)
                      /\ r.pieces[k].at + CarryLen <= g
    OBVIOUS
  <2>1. r.pieces[k] \in Piece /\ r.pieces[k].at - b \in 1..(g - b)
        /\ b + 1 <= r.pieces[k].at /\ r.pieces[k].at <= b + safe
    BY <1>2, <1>5, ElementOfSeq DEF Tiles
  <2> DEFINE a == r.pieces[k].at
  <2>2. a \in Nat
    BY <2>1 DEF Piece
  <2>3. a - b \in 1..(g - b) /\ b + 1 <= a /\ a <= b + safe
    BY <2>1
  <2> HIDE DEF a
  <2>4. a + CarryLen <= g
    BY <1>1, <1>3, <2>2, <2>3
  <2> QED BY <2>2, <2>3, <2>4 DEF a
<1>7. Tiles(data, 0, r.pieces, b + 1, b + r.next)
  <2>1. ASSUME NEW k \in 1..Len(r.pieces)
        PROVE  /\ r.pieces[k].at - 0 \in 1..Len(data)
               /\ Hits(data, r.pieces[k].at - 0) = Hits(part, r.pieces[k].at - b)
    <3> DEFINE a == r.pieces[k].at
    <3>1. a \in Nat /\ a - b \in 1..(g - b) /\ a + CarryLen <= g
      BY <1>6
    <3> HIDE DEF a
    <3>2. (a - b) + CarryLen <= g - b /\ b + (a - b) = a /\ a - 0 = a
      BY <1>1, <3>1
    <3>3. a \in 1..Len(data)
      BY <1>1, <3>1
    <3>4. Hits(part, a - b) = Hits(data, b + (a - b))
      BY <3>1, <3>2, HitsAhead DEF part
    <3> QED BY <3>2, <3>3, <3>4 DEF a
  <2>2. Tiles(part, b, r.pieces, b + 1, b + r.next)
    BY <1>5
  <2> QED BY <2>1, <2>2, Retile
<1>8. Tiles(data, 0, p \o r.pieces, 1, b + r.next)
  BY <1>7, JoinTiles
<1>9. (b + r.next - 1) + 1 = b + r.next
  BY <1>1, <1>5
<1>10. ASSUME NEW k \in 1..Len(p \o r.pieces)
       PROVE  (p \o r.pieces)[k].at + CarryLen <= g
  <2>1. p \in Seq(Piece) /\ r.pieces \in Seq(Piece)
    BY <1>7 DEF Tiles
  <2>2. Len(p) \in Nat /\ Len(r.pieces) \in Nat
    BY <2>1, LenProperties
  <2>3. /\ k \in 1..(Len(p) + Len(r.pieces))
        /\ (p \o r.pieces)[k] = IF k <= Len(p) THEN p[k] ELSE r.pieces[k - Len(p)]
    BY <2>1, ConcatProperties
  <2>4. CASE k <= Len(p)
    BY <2>2, <2>3, <2>4
  <2>5. CASE ~(k <= Len(p))
    <3>1. k - Len(p) \in 1..Len(r.pieces)
      BY <2>2, <2>3, <2>5
    <3> QED BY <1>6, <2>3, <2>5, <3>1
  <2> QED BY <2>4, <2>5
<1>11. safe = SafeEnd(g - b) => g - (b + r.next - 1) < MaxLen
  BY <1>1, <1>3, <1>5, SMTT(30)
<1> QED BY <1>1, <1>5, <1>8, <1>9, <1>10, <1>11, SMTT(30)

\* At the end of the output the rest is redacted as in what was written, up
\* to where it stops.
LEMMA LastPart ==
  ASSUME NEW data \in Seq(Letters), NEW b \in 0..Len(data), NEW g \in b..Len(data),
         NEW p, Tiles(data, 0, p, 1, b + 1), Patterns # {},
         \A k \in 1..Len(p) : p[k].at + CarryLen <= g,
         NEW limit \in 0..(g - b),
         NEW r, r = Scan(SubSeq(data, b + 1, g), b, limit)
  PROVE  /\ r.next \in 1..(g - b + 1)
         /\ limit = g - b => r.next = g - b + 1
         /\ Tiles(SubSeq(data, 1, g), 0, p \o r.pieces, 1, (b + r.next - 1) + 1)
<1> DEFINE whole == SubSeq(data, 1, g)
           part == SubSeq(data, b + 1, g)
<1>1. /\ Len(data) \in Nat /\ MaxLen \in Nat \ {0} /\ CarryLen \in Nat
      /\ b \in Nat /\ g \in Nat /\ b <= g /\ g <= Len(data)
      /\ 0 \in 0..Len(data) /\ g \in 0..Len(data) /\ 0 + 1 = 1 /\ g - 0 = g
  BY LenProperties, MaxLenIsLongest DEF CarryLen
<1>2. whole = SubSeq(data, 0 + 1, g)
  BY <1>1
<1>3. whole \in Seq(Letters) /\ Len(whole) = g
  BY <1>1, <1>2, PartType
<1>4. part \in Seq(Letters) /\ Len(part) = g - b
  BY PartType
<1>5. \A i \in 1..(g - b) : Hits(part, i) = Hits(whole, b + i)
  <2> SUFFICES ASSUME NEW i \in 1..(g - b)
               PROVE  Hits(part, i) = Hits(whole, b + i)
    OBVIOUS
  <2>1. b \in 0..Len(whole) /\ g \in b..Len(whole)
    BY <1>1, <1>3
  <2>2. SubSeq(whole, b + 1, g) = part
    <3>1. /\ 1 \in 1..Len(data) /\ g \in 1..Len(data)
          /\ b + 1 \in 1..(g - 1 + 1) /\ g \in 1..(g - 1 + 1)
      BY <1>1
    <3>2. SubSeq(whole, b + 1, g) = SubSeq(data, 1 + (b + 1) - 1, 1 + g - 1)
      BY <3>1, SubSeqOfSubSeq
    <3>3. 1 + (b + 1) - 1 = b + 1 /\ 1 + g - 1 = g
      BY <1>1
    <3> QED BY <3>2, <3>3
  <2> HIDE DEF part, whole
  <2>3. \A v : v \in Hits(part, i)
                <=> v \in Hits(whole, b + i) /\ b + i + Len(v) <= g + 1
    <3>1. \A v : v \in Hits(SubSeq(whole, b + 1, g), i)
                  <=> v \in Hits(whole, b + i) /\ b + i + Len(v) <= g + 1
      BY <1>3, <2>1, HitsOfPart
    <3> QED BY <2>2, <3>1
  <2>4. \A v \in Hits(whole, b + i) : b + i + Len(v) <= g + 1
    BY <1>3 DEF Hits
  <2> QED BY <2>3, <2>4
<1> HIDE DEF part, whole
<1>6. limit \in 0..Len(part) /\ limit \in Nat
  BY <1>1, <1>4
<1>7. Scanned(part, b, limit, 1, r)
  BY <1>1, <1>4, <1>6, ScanTiles DEF part
<1>8. /\ r.next \in 1..(g - b + 1) /\ (limit = g - b => r.next = g - b + 1)
      /\ Tiles(part, b, r.pieces, b + 1, b + r.next)
  <2>1. /\ r.next \in Nat /\ 1 <= r.next /\ limit < r.next /\ r.next <= Len(part) + 1
        /\ Tiles(part, b, r.pieces, b + 1, b + r.next)
    BY <1>7 DEF Scanned
  <2> QED BY <1>1, <1>4, <1>6, <2>1
<1>9. Tiles(whole, 0, r.pieces, b + 1, b + r.next)
  <2>1. ASSUME NEW k \in 1..Len(r.pieces)
        PROVE  /\ r.pieces[k].at - 0 \in 1..Len(whole)
               /\ Hits(whole, r.pieces[k].at - 0) = Hits(part, r.pieces[k].at - b)
    <3> DEFINE a == r.pieces[k].at
    <3>1. r.pieces[k] \in Piece /\ a - b \in 1..(g - b)
      BY <1>4, <1>8, ElementOfSeq DEF Tiles
    <3>2. a \in Nat
      BY <3>1 DEF Piece
    <3> HIDE DEF a
    <3>3. b + (a - b) = a /\ a - 0 = a /\ a \in 1..g
      BY <1>1, <3>1, <3>2
    <3>4. Hits(part, a - b) = Hits(whole, b + (a - b))
      BY <1>5, <3>1
    <3> QED BY <1>3, <3>3, <3>4 DEF a
  <2> QED BY <1>8, <2>1, Retile
<1>10. Tiles(whole, 0, p, 1, b + 1)
  <2>1. ASSUME NEW k \in 1..Len(p)
        PROVE  /\ p[k].at - 0 \in 1..Len(whole)
               /\ Hits(whole, p[k].at - 0) = Hits(data, p[k].at - 0)
    <3>1. p[k] \in Piece /\ p[k].at - 0 \in 1..Len(data)
      BY ElementOfSeq DEF Tiles
    <3>2. p[k].at \in Nat
      BY <3>1 DEF Piece
    <3> DEFINE i == p[k].at
    <3>3. i \in 1..(g - 0) /\ i + CarryLen <= g - 0 /\ 0 + i = i /\ i - 0 = i
      BY <1>1, <3>1, <3>2
    <3> HIDE DEF i
    <3>4. Hits(SubSeq(data, 0 + 1, g), i) = Hits(data, 0 + i)
      BY <1>1, <3>3, HitsAhead
    <3> QED BY <1>1, <1>2, <1>3, <3>3, <3>4 DEF i
  <2> QED BY <2>1, Retile
<1>11. Tiles(whole, 0, p \o r.pieces, 1, b + r.next)
  BY <1>9, <1>10, JoinTiles
<1>12. (b + r.next - 1) + 1 = b + r.next
  BY <1>1, <1>8
<1> QED BY <1>8, <1>11, <1>12 DEF whole

-----------------------------------------------------------------------------
(* What arrives of what was written.                                       *)

\* The newlines before a place, of which there are finitely many.
Before(t, i) == {j \in 1..(i - 1) : t[j] = Newline}

LEMMA BeforeFinite ==
  ASSUME NEW t, NEW i \in Nat
  PROVE  IsFiniteSet(Before(t, i)) /\ Cardinality(Before(t, i)) \in Nat
<1>1. IsFiniteSet(1..(i - 1))
  BY FS_Interval
<1>2. IsFiniteSet(Before(t, i))
  BY <1>1, FS_Subset DEF Before
<1> QED BY <1>2, FS_CardinalityType

\* A place moves on with those before it, ...
LEMMA AtMonotone ==
  ASSUME NEW t, NEW i \in Nat, NEW j \in Nat, i <= j
  PROVE  At(t, i) \in Nat /\ At(t, j) \in Nat /\ At(t, i) + (j - i) <= At(t, j)
<1>1. Before(t, i) \subseteq Before(t, j)
  BY DEF Before
<1>2. Cardinality(Before(t, i)) <= Cardinality(Before(t, j))
  BY <1>1, BeforeFinite, FS_Subset
<1>3. Cardinality(Before(t, i)) \in Nat /\ Cardinality(Before(t, j)) \in Nat
  BY BeforeFinite
<1>4. CASE Mode = "pty"
  <2>1. /\ At(t, i) = i + Cardinality(Before(t, i))
        /\ At(t, j) = j + Cardinality(Before(t, j))
    BY <1>4 DEF At, Before
  <2> QED BY <1>2, <1>3, <2>1
<1>5. CASE Mode # "pty"
  <2>1. At(t, i) = i /\ At(t, j) = j
    BY <1>5 DEF At
  <2> QED BY <2>1
<1> QED BY <1>4, <1>5

\* ... and no further where none of them is a newline.
LEMMA AtPlain ==
  ASSUME NEW t, NEW i \in Nat \ {0}, NEW j \in Nat, i <= j,
         Mode # "pty" \/ \A m \in i..(j - 1) : t[m] # Newline
  PROVE  At(t, j) = At(t, i) + (j - i)
<1>1. CASE Mode = "pty"
  <2>1. \A m \in 1..(j - 1) : m \in 1..(i - 1) \/ m \in i..(j - 1)
    OBVIOUS
  <2>2. \A m \in 1..(i - 1) : m \in 1..(j - 1)
    OBVIOUS
  <2>3. Before(t, i) = Before(t, j)
    BY <1>1, <2>1, <2>2 DEF Before
  <2>4. /\ At(t, i) = i + Cardinality(Before(t, i))
        /\ At(t, j) = j + Cardinality(Before(t, j))
    BY <1>1 DEF At, Before
  <2> QED BY <2>3, <2>4, BeforeFinite
<1>2. CASE Mode # "pty"
  <2>1. At(t, i) = i /\ At(t, j) = j
    BY <1>2 DEF At
  <2> QED BY <2>1
<1> QED BY <1>1, <1>2

\* The letter that place k of what arrives stems from.
Origin(t, k, i) == At(t, i) <= k /\ k < At(t, i + 1)

LEMMA OriginExists ==
  ASSUME NEW t \in Seq(Letters), NEW k \in 1..(At(t, Len(t) + 1) - 1)
  PROVE  \E i \in 1..Len(t) : Origin(t, k, i)
<1> DEFINE Reach == {i \in 1..Len(t) : At(t, i) <= k}
<1>1. Len(t) \in Nat /\ At(t, Len(t) + 1) \in Nat
  BY AtMonotone, LenProperties
<1>2. At(t, 1) = 1
  <2>1. Before(t, 1) = {}
    BY DEF Before
  <2>2. Cardinality(Before(t, 1)) = 0
    BY <2>1, FS_EmptySet
  <2> QED BY <2>2 DEF At, Before
<1>3. 1 \in Reach
  <2>1. Len(t) # 0
    BY <1>1, <1>2
  <2> QED BY <1>1, <1>2, <2>1
<1>4. Reach \subseteq Nat /\ \A i \in Reach : i <= Len(t)
  BY <1>1
<1>5. PICK i \in Reach : \A j \in Reach : j <= i
  <2> HIDE DEF Reach
  <2> QED BY <1>1, <1>3, <1>4, GreatestPlace
<1>6. i \in 1..Len(t) /\ At(t, i) <= k
  OBVIOUS
<1>7. k < At(t, i + 1)
  <2>1. CASE i = Len(t)
    BY <1>1, <2>1
  <2>2. CASE i # Len(t)
    <3>1. i + 1 \in 1..Len(t) /\ i + 1 \in Nat /\ ~(i + 1 <= i)
      BY <1>1, <1>6, <2>2
    <3>2. ~(At(t, i + 1) <= k)
      BY <1>5, <3>1
    <3>3. At(t, i + 1) \in Nat
      BY <3>1, AtMonotone
    <3> QED BY <1>1, <3>2, <3>3
  <2> QED BY <2>1, <2>2
<1> QED BY <1>6, <1>7 DEF Origin

LEMMA OriginUnique ==
  ASSUME NEW t \in Seq(Letters), NEW k \in Nat, NEW i \in 1..Len(t),
         NEW j \in 1..Len(t), Origin(t, k, i), Origin(t, k, j)
  PROVE  i = j
<1>1. Len(t) \in Nat
  BY LenProperties
<1>2. ASSUME NEW a \in 1..Len(t), NEW b \in 1..Len(t), a < b,
             Origin(t, k, a), Origin(t, k, b)
      PROVE  FALSE
  <2>1. a + 1 \in Nat /\ b \in Nat /\ a + 1 <= b
    BY <1>1, <1>2
  <2>2. /\ At(t, a + 1) \in Nat /\ At(t, b) \in Nat
        /\ At(t, a + 1) + (b - (a + 1)) <= At(t, b)
    BY <2>1, AtMonotone
  <2> QED BY <1>2, <2>1, <2>2 DEF Origin
<1> QED BY <1>1, <1>2

LEMMA ArrivedOrigin ==
  ASSUME NEW t \in Seq(Letters), NEW k \in 1..(At(t, Len(t) + 1) - 1)
  PROVE  \E i \in 1..Len(t) :
           /\ Origin(t, k, i)
           /\ Arrived(t)[k] = IF k + 1 = At(t, i + 1) THEN t[i] ELSE Return
<1> DEFINE i == CHOOSE i \in 1..Len(t) : Origin(t, k, i)
<1>1. i \in 1..Len(t) /\ Origin(t, k, i)
  BY OriginExists
<1>2. Arrived(t)[k] = IF k + 1 = At(t, i + 1) THEN t[i] ELSE Return
  BY DEF Arrived, Origin
<1> QED BY <1>1, <1>2

\* What arrives is a text.
LEMMA ArrivedIsText ==
  ASSUME NEW t \in Seq(Letters)
  PROVE  /\ Arrived(t) \in Seq(Letters)
         /\ Len(Arrived(t)) = At(t, Len(t) + 1) - 1
<1>1. Len(t) \in Nat
  BY LenProperties
<1> DEFINE n == At(t, Len(t) + 1) - 1
<1>2. n \in Nat
  <2>1. /\ At(t, 0) \in Nat /\ At(t, Len(t) + 1) \in Nat
        /\ At(t, 0) + (Len(t) + 1 - 0) <= At(t, Len(t) + 1)
    BY <1>1, AtMonotone
  <2> QED BY <1>1, <2>1
<1>3. \A k \in 1..n : Arrived(t)[k] \in Letters
  BY ArrivedOrigin, LineEnds, ElementOfSeq
<1>4. Arrived(t) = [k \in 1..n |-> Arrived(t)[k]]
  BY DEF Arrived
<1> HIDE DEF n
<1>5. Arrived(t) \in [1..n -> Letters]
  BY <1>3, <1>4
<1>6. Arrived(t) \in Seq(Letters)
  BY <1>2, <1>5
<1>7. Len(Arrived(t)) = n
  BY <1>2, <1>5, <1>6, LenProperties
<1> QED BY <1>6, <1>7 DEF n

\* A value that is not converted arrives where it was written.
LEMMA HitArrives ==
  ASSUME NEW t \in Seq(Letters), NEW i \in 1..Len(t), NEW v \in Hits(t, i),
         Mode # "pty" \/ Newline \notin ToSet(v),
         NEW w \in Nat, w <= Len(Arrived(t)), At(t, i + Len(v)) <= w + 1
  PROVE  v \in Hits(SubSeq(Arrived(t), 1, w), At(t, i)) /\ At(t, i) \in Nat \ {0}
<1> DEFINE a == At(t, i)
           l == Len(v)
           r == Arrived(t)
<1>1. Len(t) \in Nat /\ i \in Nat \ {0}
  BY LenProperties
<1>2. v \in Patterns /\ v \in Seq(Letters) /\ l \in Nat \ {0} /\ i + l <= Len(t) + 1
  BY PatternType DEF Hits
<1>3. v = SubSeq(t, i, i + l - 1)
  BY DEF Hits
<1>4. \A d \in 0..(l - 1) : i + d \in 1..Len(t) /\ v[d + 1] = t[i + d]
  <2> TAKE d \in 0..(l - 1)
  <2>1. i + d \in 1..Len(t)
    BY <1>1, <1>2
  <2>2. i + l - 1 \in 1..Len(t) /\ d + 1 \in 1..(i + l - 1 - i + 1)
    BY <1>1, <1>2
  <2>3. SubSeq(t, i, i + l - 1)[d + 1] = t[i + (d + 1) - 1]
    BY <1>1, <2>2, SubSeqProperties
  <2> HIDE DEF l
  <2>4. i + (d + 1) - 1 = i + d
    BY <1>1, <1>2
  <2> QED BY <1>3, <2>1, <2>3, <2>4
<1>5. Mode # "pty" \/ \A m \in i..(i + l - 1) : t[m] # Newline
  <2> SUFFICES ASSUME Mode = "pty", NEW m \in i..(i + l - 1) PROVE t[m] # Newline
    OBVIOUS
  <2>1. m - i \in 0..(l - 1) /\ i + (m - i) = m /\ m - i + 1 \in 1..l
    BY <1>1, <1>2
  <2>2. v[m - i + 1] = t[m]
    BY <1>4, <2>1
  <2>3. v[m - i + 1] \in ToSet(v)
    BY <1>2, <2>1, LenProperties DEF ToSet
  <2> QED BY <2>2, <2>3
<1> HIDE DEF l
<1>6. \A d \in 0..l : At(t, i + d) = a + d
  <2> TAKE d \in 0..l
  <2>1. i + d \in Nat /\ i <= i + d /\ (i + d) - i = d
    BY <1>1, <1>2
  <2>2. \A m \in i..((i + d) - 1) : m \in i..(i + l - 1)
    BY <1>1, <1>2
  <2> QED BY <1>1, <1>5, <2>1, <2>2, AtPlain
<1>7. a \in Nat \ {0}
  <2>1. At(t, 0) \in Nat /\ At(t, i) \in Nat /\ At(t, 0) + (i - 0) <= At(t, i)
    BY <1>1, AtMonotone
  <2> QED BY <1>1, <2>1
<1>8. r \in Seq(Letters) /\ Len(r) \in Nat /\ Len(r) = At(t, Len(t) + 1) - 1
  BY ArrivedIsText, LenProperties
<1>9. a + l <= w + 1 /\ w <= Len(r)
  BY <1>2, <1>6 DEF l
<1> HIDE DEF a
<1>10. \A d \in 0..(l - 1) : r[a + d] = v[d + 1]
  <2> TAKE d \in 0..(l - 1)
  <2>1. d \in 0..l /\ d + 1 \in 0..l /\ d \in Nat
    BY <1>2
  <2>2. At(t, i + d) = a + d /\ At(t, i + (d + 1)) = a + (d + 1)
    BY <1>6, <2>1
  <2>3. a + d \in 1..(At(t, Len(t) + 1) - 1) /\ a + d \in Nat
    BY <1>2, <1>7, <1>8, <1>9, <2>1
  <2>4. (i + d) + 1 = i + (d + 1) /\ a + (d + 1) = (a + d) + 1
    BY <1>1, <1>7, <2>1
  <2>5. i + d \in 1..Len(t) /\ Origin(t, a + d, i + d)
    BY <1>4, <1>7, <2>1, <2>2, <2>4 DEF Origin
  <2>6. PICK o \in 1..Len(t) :
          /\ Origin(t, a + d, o)
          /\ r[a + d] = IF (a + d) + 1 = At(t, o + 1) THEN t[o] ELSE Return
    BY <2>3, ArrivedOrigin
  <2>7. o = i + d
    BY <2>3, <2>5, <2>6, OriginUnique
  <2> QED BY <1>4, <2>2, <2>4, <2>6, <2>7
<1> HIDE DEF r
<1> DEFINE whole == SubSeq(r, 1, w)
<1>11. whole \in Seq(Letters) /\ Len(whole) = w /\ whole = SubSeq(r, 0 + 1, w)
  <2>1. 0 \in 0..Len(r) /\ w \in 0..Len(r) /\ 0 + 1 = 1 /\ w - 0 = w
    BY <1>8, <1>9
  <2> QED BY <1>8, <2>1, PartType
<1>12. \A k \in 1..w : whole[k] = r[k]
  <2>1. \A k \in 1..w : k \in 1..(w - 1 + 1) /\ 1 + k - 1 = k
    OBVIOUS
  <2>2. CASE w = 0
    BY <2>2
  <2>3. CASE w # 0
    <3>1. w \in 1..Len(r) /\ 1 \in 1..Len(r)
      BY <1>8, <1>9, <2>3
    <3> QED BY <1>8, <2>1, <3>1, SubSeqProperties
  <2> QED BY <2>2, <2>3
<1> HIDE DEF whole
<1>13. SubSeq(whole, a, a + l - 1) = v
  <2>1. a \in 1..w /\ a + l - 1 \in 1..w /\ a <= a + l - 1
        /\ (a + l - 1) - a + 1 = l
    BY <1>2, <1>7, <1>9
  <2>2. /\ SubSeq(whole, a, a + l - 1) \in Seq(Letters)
        /\ Len(SubSeq(whole, a, a + l - 1)) = l
        /\ \A k \in 1..l : SubSeq(whole, a, a + l - 1)[k] = whole[a + k - 1]
    <3>1. \A k \in a..(a + l - 1) : whole[k] \in Letters
      <4>1. \A k \in a..(a + l - 1) : k \in 1..w
        BY <1>2, <1>7, <1>9
      <4> QED BY <1>11, <4>1, ElementOfSeq
    <3>2. a \in 1..Len(whole) /\ a + l - 1 \in 1..Len(whole) /\ a <= a + l - 1
      BY <1>11, <2>1
    <3> DEFINE e == a + l - 1
    <3>3. e - a + 1 = l
      BY <2>1
    <3>4. a \in 1..Len(whole) /\ e \in 1..Len(whole) /\ a <= e
      BY <3>2
    <3> HIDE DEF e
    <3>5. /\ SubSeq(whole, a, e) \in Seq(Letters)
          /\ Len(SubSeq(whole, a, e)) = e - a + 1
          /\ \A k \in 1..(e - a + 1) : SubSeq(whole, a, e)[k] = whole[a + k - 1]
      BY <1>11, <3>4, SubSeqProperties
    <3> QED BY <3>3, <3>5 DEF e
  <2>3. ASSUME NEW k \in 1..l PROVE SubSeq(whole, a, a + l - 1)[k] = v[k]
    <3>1. k - 1 \in 0..(l - 1) /\ (k - 1) + 1 = k /\ a + (k - 1) = a + k - 1
          /\ a + k - 1 \in 1..w
      BY <1>2, <1>7, <1>9
    <3>2. r[a + (k - 1)] = v[(k - 1) + 1]
      BY <1>10, <3>1
    <3> QED BY <1>12, <2>2, <3>1, <3>2
  <2>4. Len(v) = l
    BY DEF l
  <2> QED BY <1>2, <2>2, <2>3, <2>4, SeqEqual
<1>14. v \in Hits(whole, a)
  BY <1>2, <1>9, <1>11, <1>13 DEF Hits, l
<1> QED BY <1>7, <1>14 DEF whole, a, r

-----------------------------------------------------------------------------
(* The invariant.                                                          *)

Typed ==
  /\ terminals \in Terminals /\ platform \in Platforms /\ said \in Outputs
  /\ text \in [Streams -> Seq(Letters)]
  /\ written \in [Streams -> Nat] /\ got \in [Streams -> Nat]
  /\ base \in [Streams -> Nat]
  /\ out \in [Streams -> Seq(Piece)]
  /\ reader \in [Streams -> {"read", "ended", "failed", "lost", "none"}]
  /\ child \in {"run", "exited"}
  /\ holders \in SUBSET {"command", "background"}
  /\ main \in {"read", "wait", "join", "exited"}

Counted(s) == base[s] <= got[s] /\ got[s] <= written[s] /\ written[s] <= Len(text[s])

\* As long as there may be more, the output is the beginning of the redacted
\* text, and no more than a secret can need is held back.
Cut(s) ==
  reader[s] \in {"read", "failed"} =>
    /\ Tiles(text[s], 0, out[s], 1, base[s] + 1)
    /\ \A k \in 1..Len(out[s]) : out[s][k].at + CarryLen <= got[s]
    /\ got[s] - base[s] < MaxLen

\* At the end it is all that was written, redacted.
Whole(s) ==
  reader[s] = "ended" =>
    base[s] = got[s] /\ Tiles(Sofar(s), 0, out[s], 1, base[s] + 1)

\* After a write that failed it is the beginning of one or the other.
Part(s) ==
  reader[s] = "lost" =>
    \/ /\ Tiles(text[s], 0, out[s], 1, base[s] + 1)
       /\ \A k \in 1..Len(out[s]) : out[s][k].at + CarryLen <= got[s]
    \/ /\ holders = {} /\ got[s] = written[s]
       /\ Tiles(Sofar(s), 0, out[s], 1, base[s] + 1)

\* Nobody reads but to mask; what was read to its end has no writer.
Reader(s) ==
  /\ reader[s] = "none" => base[s] = 0
  /\ reader[s] # "none" => Patterns # {}
  /\ reader[s] \in {"ended", "failed"} => holders = {} /\ got[s] = written[s]

Stream(s) == Counted(s) /\ Cut(s) /\ Whole(s) /\ Part(s) /\ Reader(s)

\* The order in which lade reads and waits.
Course ==
  /\ Mode = "plain" => \A s \in Streams : reader[s] = "none"
  /\ Mode = "pty" => reader["err"] = "none"
  /\ main = "read" => Mode = "pty"
  /\ main = "join" => Mode = "piped"
  /\ main = "wait" /\ Mode = "pty" => reader["out"] # "read"
  /\ main = "exited" => \A s \in Streams : reader[s] # "read"

IInv ==
  /\ Typed
  /\ text = [s \in Streams |-> Arrived(said[s])]
  /\ \A s \in Streams : Stream(s)
  /\ Course

\* What the command will write is a text.
LEMMA TextType ==
  ASSUME Typed, NEW s \in Streams
  PROVE  text[s] \in Seq(Letters) /\ Len(text[s]) \in Nat
<1>1. text[s] \in Seq(Letters)
  BY DEF Typed
<1> QED BY <1>1, LenProperties

\* The way of running does not change.
LEMMA ModeSame ==
  ASSUME UNCHANGED terminals
  PROVE  Mode' = Mode
BY DEF Mode

\* Nor does what arrives.
LEMMA TextSame ==
  ASSUME IInv, UNCHANGED <<terminals, said, text>>
  PROVE  (text = [s \in Streams |-> Arrived(said[s])])'
BY ModeSame DEF IInv, Arrived, At

\* There are three ways of running, one of them without masks.
LEMMA ModeKnown ==
  /\ Mode \in {"plain", "pty", "piped"}
  /\ Mode = "plain" <=> Patterns = {}
<1>1. CASE Patterns = {}
  BY <1>1 DEF Mode
<1>2. CASE Patterns # {} /\ terminals = {"stdin", "stdout"}
  BY <1>2 DEF Mode
<1>3. CASE Patterns # {} /\ terminals # {"stdin", "stdout"}
  BY <1>3 DEF Mode
<1> QED BY <1>1, <1>2, <1>3

\* The invariant holds at the start.
LEMMA InitInv == Init => IInv
<1> SUFFICES ASSUME Init PROVE IInv
  OBVIOUS
<1>1. Typed
  <2>1. <<>> \in Seq(Piece)
    BY EmptySeq
  <2>2. /\ text \in [Streams -> Seq(Letters)]
    <3>1. \A s \in Streams : said[s] \in Seq(Letters)
      BY OutputsAreTexts DEF Init
    <3> QED BY <3>1, ArrivedIsText DEF Init
  <2>3. /\ reader \in [Streams -> {"read", "ended", "failed", "lost", "none"}]
        /\ main \in {"read", "wait", "join", "exited"}
    BY DEF Init
  <2> QED BY <2>1, <2>2, <2>3 DEF Init, Typed
<1>2. ASSUME NEW s \in Streams
      PROVE  Stream(s)
  <2>1. base[s] = 0 /\ got[s] = 0 /\ written[s] = 0 /\ out[s] = <<>>
    BY DEF Init
  <2>2. reader[s] \in {"read", "none"} /\ (reader[s] # "none" => Patterns # {})
    BY ModeKnown DEF Init
  <2>3. Tiles(text[s], 0, <<>>, 1, 0 + 1)
    BY NoTiles
  <2>4. Counted(s)
    BY <1>1, <2>1, TextType DEF Counted
  <2>5. Cut(s)
    <3>1. Len(<<>>) = 0 /\ 1..0 = {}
      BY EmptySeq
    <3>2. Patterns # {} => 0 - 0 < MaxLen
      BY MaxLenIsLongest
    <3> QED BY <2>1, <2>2, <2>3, <3>1, <3>2 DEF Cut
  <2> QED BY <2>1, <2>2, <2>4, <2>5 DEF Stream, Whole, Part, Reader
<1>3. Course
  <2>1. Mode \in {"plain", "pty", "piped"}
    BY ModeKnown
  <2>2. CASE Mode = "pty"
    BY <2>2 DEF Init, Course, Streams
  <2>3. CASE Mode = "plain"
    BY <2>3 DEF Init, Course, Streams
  <2>4. CASE Mode = "piped"
    BY <2>4 DEF Init, Course, Streams
  <2> QED BY <2>1, <2>2, <2>3, <2>4
<1> QED BY <1>1, <1>2, <1>3 DEF Init, IInv

\* A stream that no step touches.
LEMMA StreamSame ==
  ASSUME IInv, NEW s \in Streams, UNCHANGED text, holders = {} => holders' = {},
         got'[s] = got[s], base'[s] = base[s], out'[s] = out[s],
         reader'[s] = reader[s], written'[s] = written[s]
  PROVE  Stream(s)'
<1>1. Counted(s) /\ Cut(s) /\ Whole(s) /\ Part(s) /\ Reader(s)
  BY DEF IInv, Stream
<1>2. Counted(s)'
  BY <1>1 DEF Counted
<1>3. Cut(s)'
  BY <1>1 DEF Cut
<1>4. Sofar(s)' = Sofar(s)
  BY DEF Sofar
<1>5. Whole(s)'
  BY <1>1, <1>4 DEF Whole
<1>6. Reader(s)'
  BY <1>1 DEF Reader
<1>7. Part(s)'
  <2>1. /\ text'[s] = text[s] /\ Sofar(s)' = Sofar(s)
    BY <1>4
  <2> QED BY <1>1, <2>1 DEF Part
<1> QED BY <1>2, <1>3, <1>5, <1>6, <1>7 DEF Stream

\* Steps of the command and its processes keep the invariant.
LEMMA CommandInv == ASSUME IInv, Command PROVE IInv'
<1>1. CASE Fork \/ Exit \/ \E h \in holders : Close(h)
  <2>1. /\ UNCHANGED <<chosen, written, stream, main>>
        /\ holders' \in SUBSET {"command", "background"}
        /\ child' \in {"run", "exited"}
        /\ holders = {} => holders' = {}
    BY <1>1 DEF Fork, Exit, Close, IInv, Typed
  <2>2. \A s \in Streams : Stream(s)'
    BY <2>1, StreamSame DEF chosen, stream
  <2>3. Typed'
    BY <2>1 DEF IInv, Typed, chosen, stream
  <2>4. Course'
    BY <2>1, ModeSame DEF IInv, Course, chosen, stream
  <2> QED BY <2>1, <2>2, <2>3, <2>4, TextSame DEF IInv, chosen
<1>2. ASSUME NEW s \in Streams, Write(s) PROVE IInv'
  <2>1. /\ UNCHANGED <<terminals, platform, said, text, got, base, out, reader, child,
                      holders, main>>
        /\ holders # {} /\ reader[s] # "none" /\ written[s] < Len(text[s])
        /\ written' = [written EXCEPT ![s] = @ + 1]
    BY <1>2 DEF Write, chosen, stream
  <2>2. Typed /\ Counted(s) /\ Cut(s) /\ Part(s) /\ Reader(s)
    BY DEF IInv, Stream
  <2>3. /\ written[s] \in Nat /\ written'[s] = written[s] + 1
        /\ \A t \in Streams : t # s => written'[t] = written[t]
        /\ written' \in [Streams -> Nat]
    BY <2>1, <2>2 DEF Typed
  <2>4. Typed'
    BY <2>1, <2>2, <2>3 DEF Typed
  <2>5. Stream(s)'
    <3>1. reader[s] \notin {"ended", "failed"}
      BY <2>1, <2>2 DEF Reader
    <3>2. Counted(s)'
      <4>1. got[s] \in Nat /\ Len(text[s]) \in Nat
        BY <2>2, TextType DEF Typed
      <4>2. got[s] <= written[s] + 1 /\ written[s] + 1 <= Len(text[s])
        BY <2>1, <2>2, <2>3, <4>1 DEF Counted
      <4>3. base[s] <= got[s]
        BY <2>2 DEF Counted
      <4> QED BY <2>1, <2>3, <4>2, <4>3 DEF Counted
    <3>3. Cut(s)' /\ Part(s)' /\ Reader(s)'
      BY <2>1, <2>2, <3>1 DEF Cut, Part, Reader
    <3> QED BY <2>1, <3>1, <3>2, <3>3 DEF Stream, Whole
  <2>6. ASSUME NEW t \in Streams, t # s
        PROVE  Stream(t)'
    BY <2>1, <2>3, <2>6, StreamSame
  <2>7. Course'
    BY <2>1, ModeSame DEF IInv, Course
  <2> QED BY <2>1, <2>4, <2>5, <2>6, <2>7, TextSame DEF IInv
<1> QED BY <1>1, <1>2 DEF Command

\* Steps of the main thread keep it.
LEMMA MainInv == ASSUME IInv, Main PROVE IInv'
<1>1. /\ UNCHANGED <<terminals, platform, said, text, written, got, base, out, reader,
                    child, holders>>
      /\ main' \in {"read", "wait", "join", "exited"}
  BY DEF Main, chosen, stream
<1>2. \A s \in Streams : Stream(s)'
  BY <1>1, StreamSame
<1>3. Typed'
  BY <1>1 DEF IInv, Typed
<1>4. Course'
  <2>1. Mode' = Mode /\ Mode \in {"plain", "pty", "piped"}
    BY <1>1, ModeSame, ModeKnown
  <2>2. CASE main = "read"
    BY <1>1, <2>1, <2>2 DEF Main, IInv, Course
  <2>3. CASE main = "wait"
    <3>1. Mode # "piped" => \A s \in Streams : reader[s] # "read"
      BY <2>1, <2>3 DEF IInv, Course, Streams
    <3> QED BY <1>1, <2>1, <2>3, <3>1 DEF Main, IInv, Course
  <2>4. CASE main = "join"
    BY <1>1, <2>1, <2>4 DEF Main, IInv, Course
  <2> QED BY <2>2, <2>3, <2>4 DEF Main
<1> QED BY <1>1, <1>2, <1>3, <1>4, TextSame DEF IInv

\* A read of some letters keeps it.
LEMMA ReadInv ==
  ASSUME IInv, NEW s \in Streams, NEW n \in 1..Chunk, Read(s, n)
  PROVE  IInv'
<1> DEFINE data == text[s]
           b == base[s]
           g == got[s] + n
           r == Scan(SubSeq(data, b + 1, g), b, SafeEnd(g - b))
<1>1. Typed /\ Counted(s) /\ Cut(s) /\ Reader(s)
  BY DEF IInv, Stream
<1>2. reader[s] = "read" /\ n \in Nat /\ n <= written[s] - got[s] /\ Patterns # {}
  BY <1>1, ChunkPositive DEF Read, Available, Reader
<1>3. /\ data \in Seq(Letters) /\ Len(data) \in Nat
      /\ base[s] \in Nat /\ got[s] \in Nat /\ written[s] \in Nat
  BY <1>1, TextType DEF Typed
<1>4. /\ b \in 0..Len(data) /\ g \in b..Len(data) /\ g <= written[s]
      /\ got[s] <= g /\ g \in Nat
  BY <1>1, <1>2, <1>3 DEF Counted
<1>5. /\ out' = [out EXCEPT ![s] = out[s] \o r.pieces]
      /\ base' = [base EXCEPT ![s] = b + r.next - 1]
      /\ got' = [got EXCEPT ![s] = g]
      /\ UNCHANGED <<terminals, platform, said, text, written, reader, child, holders, main>>
  <2>1. got[s] + n - base[s] = g - b
    BY <1>2, <1>3
  <2> QED BY <2>1 DEF Read, LetGo, Buffer, chosen
<1>6. /\ Tiles(data, 0, out[s], 1, b + 1)
      /\ \A k \in 1..Len(out[s]) : out[s][k].at + CarryLen <= g
  <2>1. /\ Tiles(data, 0, out[s], 1, b + 1)
        /\ \A k \in 1..Len(out[s]) : out[s][k].at + CarryLen <= got[s]
    BY <1>1, <1>2 DEF Cut
  <2>2. ASSUME NEW k \in 1..Len(out[s]) PROVE out[s][k].at + CarryLen <= g
    <3>1. out[s][k] \in Piece
      BY <1>1, ElementOfSeq DEF Typed
    <3>2. out[s][k].at \in Nat
      BY <3>1 DEF Piece
    <3>3. CarryLen \in Nat
      BY <1>2, MaxLenIsLongest DEF CarryLen
    <3>4. out[s][k].at + CarryLen <= got[s]
      BY <2>1
    <3> HIDE DEF g
    <3> QED BY <1>3, <1>4, <3>2, <3>3, <3>4
  <2> QED BY <2>1, <2>2
<1> HIDE DEF data, b, g, r
<1>7. /\ r.next \in 1..(g - b + 1)
      /\ Tiles(data, 0, out[s] \o r.pieces, 1, (b + r.next - 1) + 1)
      /\ \A k \in 1..Len(out[s] \o r.pieces) :
           (out[s] \o r.pieces)[k].at + CarryLen <= g
      /\ g - (b + r.next - 1) < MaxLen
  <2>1. g - b \in Nat
    BY <1>3, <1>4
  <2>2. SafeEnd(g - b) \in 0..SafeEnd(g - b)
    BY <1>2, <2>1, SafeEndType
  <2> QED BY <1>2, <1>3, <1>4, <1>6, <2>2, ReadPart DEF r
<1>8. /\ b + r.next - 1 \in Nat /\ b + r.next - 1 <= g
  BY <1>3, <1>4, <1>7, SMTT(30)
<1>9. /\ out'[s] = out[s] \o r.pieces /\ base'[s] = b + r.next - 1 /\ got'[s] = g
      /\ \A t \in Streams : t # s =>
           out'[t] = out[t] /\ base'[t] = base[t] /\ got'[t] = got[t]
  BY <1>1, <1>5 DEF Typed
<1>10. Typed'
  <2>1. out[s] \o r.pieces \in Seq(Piece)
    BY <1>7 DEF Tiles
  <2>2. out' \in [Streams -> Seq(Piece)]
    BY <1>1, <1>5, <2>1 DEF Typed
  <2>3. base' \in [Streams -> Nat] /\ got' \in [Streams -> Nat]
    BY <1>1, <1>4, <1>5, <1>8 DEF Typed
  <2> QED BY <1>1, <1>5, <2>2, <2>3 DEF Typed
<1>11. Stream(s)'
  <2>1. Counted(s)'
    BY <1>1, <1>4, <1>5, <1>8, <1>9 DEF Counted
  <2>2. text'[s] = data /\ reader'[s] = "read"
    BY <1>2, <1>5 DEF data
  <2>3. Cut(s)'
    BY <1>7, <1>9, <2>2 DEF Cut
  <2>4. Whole(s)' /\ Part(s)' /\ Reader(s)'
    BY <1>2, <2>2 DEF Whole, Part, Reader
  <2> QED BY <2>1, <2>3, <2>4 DEF Stream
<1>12. ASSUME NEW t \in Streams, t # s
       PROVE  Stream(t)'
  BY <1>5, <1>9, <1>12, StreamSame
<1>13. Course'
  BY <1>5, ModeSame DEF IInv, Course
<1> QED BY <1>5, <1>10, <1>11, <1>12, <1>13, TextSame DEF IInv

\* The end of a stream keeps it: the rest is shown.
LEMMA ReadNothingInv ==
  ASSUME IInv, NEW s \in Streams, ReadNothing(s)
  PROVE  IInv'
<1> DEFINE data == text[s]
           b == base[s]
           g == got[s]
           r == Scan(SubSeq(data, b + 1, g), b, g - b)
<1>1. Typed /\ Counted(s) /\ Cut(s) /\ Reader(s)
  BY DEF IInv, Stream
<1>2. /\ data \in Seq(Letters) /\ Len(data) \in Nat
      /\ b \in Nat /\ g \in Nat /\ written[s] \in Nat
  BY <1>1, TextType DEF Typed
<1>3. /\ reader[s] = "read" /\ holders = {} /\ g = written[s] /\ Patterns # {}
  BY <1>1, <1>2 DEF ReadNothing, Ended, Available, Reader
<1>4. b \in 0..Len(data) /\ g \in b..Len(data)
  BY <1>1, <1>2 DEF Counted
<1>5. /\ out' = [out EXCEPT ![s] = out[s] \o r.pieces]
      /\ base' = [base EXCEPT ![s] = b + r.next - 1]
      /\ reader' = [reader EXCEPT ![s] = "ended"]
      /\ UNCHANGED <<terminals, platform, said, text, written, got, child, holders, main>>
  BY DEF ReadNothing, LetGo, Buffer, chosen
<1>6. /\ Tiles(data, 0, out[s], 1, b + 1)
      /\ \A k \in 1..Len(out[s]) : out[s][k].at + CarryLen <= g
  BY <1>1, <1>3 DEF Cut
<1> HIDE DEF data, b, g, r
<1>7. b + r.next - 1 = g /\ Tiles(SubSeq(data, 1, g), 0, out[s] \o r.pieces, 1, g + 1)
  <2>1. g - b \in 0..(g - b)
    BY <1>2, <1>4
  <2> DEFINE limit == g - b
  <2>2. r = Scan(SubSeq(data, b + 1, g), b, limit)
    BY DEF r
  <2>3. limit \in 0..(g - b) /\ limit = g - b
    BY <2>1
  <2> HIDE DEF limit
  <2>4. /\ r.next = g - b + 1
        /\ Tiles(SubSeq(data, 1, g), 0, out[s] \o r.pieces, 1, (b + r.next - 1) + 1)
    BY <1>2, <1>3, <1>4, <1>6, <2>2, <2>3, LastPart, ZenonT(60)
  <2>5. b + r.next - 1 = g
    BY <1>2, <2>4
  <2> QED BY <2>4, <2>5
<1>8. /\ out'[s] = out[s] \o r.pieces /\ base'[s] = g /\ reader'[s] = "ended"
      /\ \A t \in Streams : t # s =>
           out'[t] = out[t] /\ base'[t] = base[t] /\ reader'[t] = reader[t]
  BY <1>1, <1>5, <1>7 DEF Typed
<1>9. Typed'
  <2>1. out[s] \o r.pieces \in Seq(Piece)
    BY <1>7 DEF Tiles
  <2>2. out' \in [Streams -> Seq(Piece)]
    BY <1>1, <1>5, <2>1 DEF Typed
  <2>3. base' \in [Streams -> Nat]
    BY <1>1, <1>2, <1>5, <1>7 DEF Typed
  <2>4. reader' \in [Streams -> {"read", "ended", "failed", "lost", "none"}]
    BY <1>1, <1>5 DEF Typed
  <2> QED BY <1>1, <1>5, <2>2, <2>3, <2>4 DEF Typed
<1>10. Stream(s)'
  <2>1. got'[s] = g /\ got[s] = g /\ written'[s] = written[s] /\ text'[s] = data
    BY <1>5 DEF g, data
  <2>2. g <= g /\ g <= written[s] /\ written[s] <= Len(data)
    BY <1>1, <1>2, <1>3 DEF Counted, data
  <2>3. Counted(s)'
    BY <1>8, <2>1, <2>2 DEF Counted
  <2>4. Sofar(s)' = SubSeq(data, 1, g)
    BY <1>3, <2>1 DEF Sofar
  <2>5. Whole(s)'
    BY <1>7, <1>8, <2>1, <2>4 DEF Whole
  <2>6. Cut(s)'
    BY <1>8 DEF Cut
  <2>7. Reader(s)'
    BY <1>3, <1>5, <1>8, <2>1 DEF Reader
  <2>8. Part(s)'
    BY <1>8 DEF Part
  <2> QED BY <2>3, <2>5, <2>6, <2>7, <2>8 DEF Stream
<1>11. ASSUME NEW t \in Streams, t # s
       PROVE  Stream(t)'
  BY <1>5, <1>8, <1>11, StreamSame
<1>12. Course'
  <2>1. \A t \in Streams : /\ reader'[t] = "none" <=> reader[t] = "none"
                           /\ reader'[t] = "read" => reader[t] = "read"
    BY <1>3, <1>8
  <2>2. Mode' = Mode
    BY <1>5, ModeSame
  <2> QED BY <1>5, <2>1, <2>2 DEF IInv, Course, Streams
<1> QED BY <1>5, <1>9, <1>10, <1>11, <1>12, TextSame DEF IInv

\* A read that fails keeps it: the rest stays back.
LEMMA ReadErrorInv ==
  ASSUME IInv, NEW s \in Streams, ReadError(s)
  PROVE  IInv'
<1>1. Typed /\ Counted(s) /\ Cut(s) /\ Reader(s)
  BY DEF IInv, Stream
<1>2. got[s] \in Nat /\ written[s] \in Nat
  BY <1>1 DEF Typed
<1>3. reader[s] = "read" /\ holders = {} /\ got[s] = written[s]
  BY <1>2 DEF ReadError, Ended, Available
<1>4. /\ reader' = [reader EXCEPT ![s] = "failed"]
      /\ UNCHANGED <<terminals, platform, said, text, written, got, base, out, child,
                    holders, main>>
  BY DEF ReadError, chosen
<1>5. /\ reader'[s] = "failed"
      /\ \A t \in Streams : t # s => reader'[t] = reader[t]
      /\ reader' \in [Streams -> {"read", "ended", "failed", "lost", "none"}]
  BY <1>1, <1>4 DEF Typed
<1>6. Typed'
  BY <1>1, <1>4, <1>5 DEF Typed
<1>7. Stream(s)'
  BY <1>1, <1>3, <1>4, <1>5 DEF Stream, Counted, Cut, Whole, Part, Reader
<1>8. ASSUME NEW t \in Streams, t # s
      PROVE  Stream(t)'
  BY <1>4, <1>5, <1>8, StreamSame
<1>9. Course'
  <2>1. \A t \in Streams : /\ reader'[t] = "none" <=> reader[t] = "none"
                           /\ reader'[t] = "read" => reader[t] = "read"
    BY <1>3, <1>5
  <2>2. Mode' = Mode
    BY <1>4, ModeSame
  <2> QED BY <1>4, <2>1, <2>2 DEF IInv, Course, Streams
<1> QED BY <1>4, <1>6, <1>7, <1>8, <1>9, TextSame DEF IInv

\* A write that fails leaves the beginning of what it should have written.
LEMMA WriteFailsInv ==
  ASSUME IInv, NEW s \in Streams, NEW n \in 0..Chunk,
         NEW limit \in 0..Len(text[s]), WriteFails(s, n, limit)
  PROVE  IInv'
<1> DEFINE data == text[s]
           b == base[s]
           g == got[s] + n
           r == Scan(SubSeq(data, b + 1, g), b, limit)
<1>1. Typed /\ Counted(s) /\ Cut(s) /\ Reader(s)
  BY DEF IInv, Stream
<1>2. /\ reader[s] = "read" /\ n \in Nat /\ Patterns # {} /\ limit \in Nat
      /\ data \in Seq(Letters) /\ Len(data) \in Nat
      /\ b \in Nat /\ got[s] \in Nat /\ written[s] \in Nat
  BY <1>1, ChunkPositive, TextType DEF WriteFails, Reader, Typed
<1>3. /\ limit <= g - b
      /\ \/ n \in 1..(written[s] - got[s]) /\ limit <= SafeEnd(g - b)
         \/ n = 0 /\ holders = {} /\ written[s] - got[s] = 0
  <2>1. limit <= got[s] + n - base[s]
    BY DEF WriteFails
  <2>2. \/ n \in 1..Available(s) /\ limit <= SafeEnd(got[s] + n - base[s])
        \/ n = 0 /\ Ended(s)
    BY DEF WriteFails
  <2>3. got[s] + n - base[s] = g - b
    BY <1>2
  <2> QED BY <2>1, <2>2, <2>3 DEF Ended, Available
<1>4. /\ b \in 0..Len(data) /\ g \in b..Len(data) /\ g <= written[s]
      /\ got[s] <= g /\ g \in Nat /\ limit \in 0..(g - b)
  BY <1>1, <1>2, <1>3, SMTT(30) DEF Counted
<1>5. /\ out' = [out EXCEPT ![s] = out[s] \o r.pieces]
      /\ base' = [base EXCEPT ![s] = b + r.next - 1]
      /\ got' = [got EXCEPT ![s] = g]
      /\ reader' = [reader EXCEPT ![s] = "lost"]
      /\ UNCHANGED <<terminals, platform, said, text, written, child, holders, main>>
  BY DEF WriteFails, LetGo, Buffer, chosen
<1>6. /\ Tiles(data, 0, out[s], 1, b + 1)
      /\ \A k \in 1..Len(out[s]) : out[s][k].at + CarryLen <= g
  <2>1. /\ Tiles(data, 0, out[s], 1, b + 1)
        /\ \A k \in 1..Len(out[s]) : out[s][k].at + CarryLen <= got[s]
    BY <1>1, <1>2 DEF Cut
  <2>2. ASSUME NEW k \in 1..Len(out[s]) PROVE out[s][k].at + CarryLen <= g
    <3>1. out[s][k] \in Piece
      BY <1>1, ElementOfSeq DEF Typed
    <3>2. out[s][k].at \in Nat
      BY <3>1 DEF Piece
    <3>3. CarryLen \in Nat
      BY <1>2, MaxLenIsLongest DEF CarryLen
    <3>4. out[s][k].at + CarryLen <= got[s]
      BY <2>1
    <3> HIDE DEF g
    <3> QED BY <1>2, <1>4, <3>2, <3>3, <3>4, SMTT(30)
  <2> QED BY <2>1, <2>2
<1> HIDE DEF data, b, g, r
<1>7. /\ r.next \in 1..(g - b + 1)
      /\ out[s] \o r.pieces \in Seq(Piece)
      /\ \/ /\ Tiles(data, 0, out[s] \o r.pieces, 1, (b + r.next - 1) + 1)
            /\ \A k \in 1..Len(out[s] \o r.pieces) :
                 (out[s] \o r.pieces)[k].at + CarryLen <= g
         \/ /\ holders = {} /\ g = written[s]
            /\ Tiles(SubSeq(data, 1, g), 0, out[s] \o r.pieces, 1, (b + r.next - 1) + 1)
  <2>1. CASE n \in 1..(written[s] - got[s]) /\ limit <= SafeEnd(g - b)
    <3>1. limit \in 0..SafeEnd(g - b)
      BY <1>2, <1>4, <2>1, SafeEndType
    <3>2. /\ r.next \in 1..(g - b + 1)
          /\ Tiles(data, 0, out[s] \o r.pieces, 1, (b + r.next - 1) + 1)
          /\ \A k \in 1..Len(out[s] \o r.pieces) :
               (out[s] \o r.pieces)[k].at + CarryLen <= g
      BY <1>2, <1>4, <1>6, <3>1, ReadPart DEF r
    <3> QED BY <3>2 DEF Tiles
  <2>2. CASE n = 0 /\ holders = {} /\ written[s] - got[s] = 0
    <3>1. g = written[s]
      BY <1>2, <2>2 DEF g
    <3>2. /\ r.next \in 1..(g - b + 1)
          /\ Tiles(SubSeq(data, 1, g), 0, out[s] \o r.pieces, 1, (b + r.next - 1) + 1)
      BY <1>2, <1>4, <1>6, LastPart DEF r
    <3> QED BY <2>2, <3>1, <3>2 DEF Tiles
  <2> QED BY <1>3, <2>1, <2>2
<1>8. /\ b + r.next - 1 \in Nat /\ b + r.next - 1 <= g
  <2>1. r.next \in 1..(g - b + 1)
    BY <1>7
  <2> QED BY <1>2, <1>4, <2>1
<1>9. /\ out'[s] = out[s] \o r.pieces /\ base'[s] = b + r.next - 1 /\ got'[s] = g
      /\ reader'[s] = "lost"
      /\ \A t \in Streams : t # s =>
           /\ out'[t] = out[t] /\ base'[t] = base[t]
           /\ got'[t] = got[t] /\ reader'[t] = reader[t]
  BY <1>1, <1>5 DEF Typed
<1>10. Typed'
  <2>1. out' \in [Streams -> Seq(Piece)]
    BY <1>1, <1>5, <1>7 DEF Typed
  <2>2. base' \in [Streams -> Nat] /\ got' \in [Streams -> Nat]
    BY <1>1, <1>4, <1>5, <1>8 DEF Typed
  <2>3. reader' \in [Streams -> {"read", "ended", "failed", "lost", "none"}]
    BY <1>1, <1>5 DEF Typed
  <2> QED BY <1>1, <1>5, <2>1, <2>2, <2>3 DEF Typed
<1>11. Stream(s)'
  <2>1. Counted(s)'
    BY <1>1, <1>4, <1>5, <1>8, <1>9 DEF Counted
  <2>2. text'[s] = data /\ written'[s] = written[s] /\ holders' = holders
    BY <1>5 DEF data
  <2>3. Cut(s)' /\ Whole(s)' /\ Reader(s)'
    BY <1>2, <1>9 DEF Cut, Whole, Reader
  <2>4. Sofar(s)' = SubSeq(data, 1, written[s])
    BY <2>2 DEF Sofar
  <2>5. Part(s)'
    BY <1>7, <1>9, <2>2, <2>4 DEF Part
  <2> QED BY <2>1, <2>3, <2>5 DEF Stream
<1>12. ASSUME NEW t \in Streams, t # s
       PROVE  Stream(t)'
  BY <1>5, <1>9, <1>12, StreamSame
<1>13. Course'
  <2>1. \A t \in Streams : /\ reader'[t] = "none" <=> reader[t] = "none"
                           /\ reader'[t] = "read" => reader[t] = "read"
    BY <1>2, <1>9
  <2>2. Mode' = Mode
    BY <1>5, ModeSame
  <2> QED BY <1>5, <2>1, <2>2 DEF IInv, Course, Streams
<1> QED BY <1>5, <1>10, <1>11, <1>12, <1>13, TextSame DEF IInv

\* The invariant holds in every state.
LEMMA Invariance == Spec => []IInv
<1>1. IInv /\ [Next]_vars => IInv'
  <2> SUFFICES ASSUME IInv, [Next]_vars PROVE IInv'
    OBVIOUS
  <2>1. CASE Lade
    BY <2>1, MainInv, ReadInv, ReadNothingInv, ReadErrorInv DEF Lade
  <2>2. CASE Command
    BY <2>2, CommandInv
  <2>4. CASE OutputFails
    BY <2>4, WriteFailsInv DEF OutputFails
  <2>3. CASE UNCHANGED vars
    <3>1. UNCHANGED <<terminals, platform, said, text, written, got, base, out, reader,
                      child, holders, main>>
      BY <2>3 DEF vars
    <3>2. \A s \in Streams : Stream(s)'
      BY <3>1, StreamSame
    <3>3. Typed'
      BY <3>1 DEF IInv, Typed
    <3>4. Course'
      BY <3>1, ModeSame DEF IInv, Course
    <3> QED BY <3>1, <3>2, <3>3, <3>4, TextSame DEF IInv
  <2> QED BY <2>1, <2>2, <2>3, <2>4 DEF Next
<1> QED BY InitInv, <1>1, PTL DEF Spec

-----------------------------------------------------------------------------
(* The properties.                                                         *)

(***************************************************************************)
(* The counts of what was written, read and let go stay in order, and the  *)
(* other variables keep their types, for any values and any texts.         *)
(***************************************************************************)
THEOREM TypeCorrect == Spec => []TypeOK
<1>1. IInv => TypeOK
  BY DEF IInv, Stream, Typed, Counted, TypeOK
<1> QED BY <1>1, Invariance, PTL

(***************************************************************************)
(* Whatever the reads are, the output is the beginning of the whole text   *)
(* redacted at once, and at the end all of it: a secret cut in two by a    *)
(* read is masked as one that is not, and nothing else is.                 *)
(***************************************************************************)
THEOREM ChunkingIsInvisible == Spec => []ChunkingInvisible
<1>1. IInv => ChunkingInvisible
  <2> SUFFICES ASSUME IInv, NEW s \in Streams
               PROVE  /\ reader[s] = "read" => IsPrefix(out[s], Redacted(text[s]))
                      /\ reader[s] = "ended" => out[s] = Redacted(Sofar(s))
    BY DEF ChunkingInvisible
  <2>1. /\ text[s] \in Seq(Letters) /\ Len(text[s]) \in Nat
        /\ base[s] \in Nat /\ got[s] \in Nat /\ written[s] \in Nat
        /\ base[s] <= got[s] /\ got[s] <= written[s] /\ written[s] <= Len(text[s])
    BY TextType DEF IInv, Stream, Typed, Counted
  <2>2. ASSUME reader[s] = "read" PROVE IsPrefix(out[s], Redacted(text[s]))
    <3>1. Tiles(text[s], 0, out[s], 1, base[s] + 1)
      BY <2>2 DEF IInv, Stream, Cut
    <3>2. Tiles(text[s], 0, Redacted(text[s]), 1, Len(text[s]) + 1)
      BY <2>1, RedactedTiles
    <3>3. base[s] + 1 <= Len(text[s]) + 1
      BY <2>1
    <3> QED BY <2>1, <3>1, <3>2, <3>3, TilesPrefix
  <2>3. ASSUME reader[s] = "ended" PROVE out[s] = Redacted(Sofar(s))
    <3>1. /\ Tiles(Sofar(s), 0, out[s], 1, base[s] + 1)
          /\ base[s] = written[s]
      BY <2>3 DEF IInv, Stream, Whole, Reader
    <3>2. Sofar(s) \in Seq(Letters) /\ Len(Sofar(s)) = written[s]
      <4>1. /\ 0 \in 0..Len(text[s]) /\ written[s] \in 0..Len(text[s])
            /\ 0 + 1 = 1 /\ written[s] - 0 = written[s]
        BY <2>1
      <4>2. /\ SubSeq(text[s], 0 + 1, written[s]) \in Seq(Letters)
            /\ Len(SubSeq(text[s], 0 + 1, written[s])) = written[s] - 0
        BY <2>1, <4>1, PartType
      <4> QED BY <4>1, <4>2 DEF Sofar
    <3>3. Tiles(Sofar(s), 0, Redacted(Sofar(s)), 1, Len(Sofar(s)) + 1)
      BY <3>2, RedactedTiles
    <3>4. Tiles(Sofar(s), 0, Redacted(Sofar(s)), 1, base[s] + 1)
      BY <3>1, <3>2, <3>3
    <3> QED BY <3>1, <3>2, <3>4, TilesEqual
  <2> QED BY <2>2, <2>3
<1> QED BY <1>1, Invariance, PTL

\* A value that matches in the text is under a mask of its pieces.
LEMMA HitIsMasked ==
  ASSUME NEW data \in Seq(Letters), NEW p, NEW y \in Nat,
         Tiles(data, 0, p, 1, y + 1), NEW i \in 1..y, NEW v \in Hits(data, i)
  PROVE  \E q \in ToSet(p) :
           /\ q.name # 0
           /\ \/ q.at < i /\ i < q.at + q.len
              \/ q.at = i /\ q.len >= Len(v)
<1>1. i \in 1..(y + 1 - 1)
  OBVIOUS
<1>2. PICK k \in 1..Len(p) : p[k].at <= i /\ i < End(p[k])
  BY <1>1 DEF Tiles
<1> DEFINE q == p[k]
           a == q.at
<1>3. /\ p \in Seq(Piece) /\ a - 0 \in 1..Len(data)
      /\ q.len = StepLen(data, a - 0) /\ q.name = StepName(data, a - 0)
  BY DEF Tiles
<1>4. q \in Piece /\ q \in ToSet(p)
  <2>1. DOMAIN p = 1..Len(p)
    BY <1>3, LenProperties
  <2> QED BY <1>3, <2>1, ElementOfSeq DEF ToSet
<1>5. a \in Nat /\ q.len \in Nat
  BY <1>4 DEF Piece
<1>6. a <= i /\ i < a + q.len
  BY <1>2 DEF End
<1> HIDE DEF a, q
<1>7. a - 0 = a /\ a \in 1..Len(data)
  BY <1>3, <1>5
<1>8. /\ q.len = StepLen(data, a) /\ q.name = StepName(data, a)
  BY <1>3, <1>7
<1>9. CASE a = i
  <2>1. StepName(data, i) # 0 /\ Len(v) <= StepLen(data, i)
    BY <1>7, <1>9, StepType
  <2>2. v \in Patterns
    BY DEF Hits
  <2>3. q.name # 0 /\ Len(v) <= q.len /\ Len(v) \in Nat
    BY <1>8, <1>9, <2>1, <2>2, PatternType
  <2>4. q.at = i /\ q.len >= Len(v)
    BY <1>5, <1>9, <2>3 DEF a
  <2> QED BY <1>4, <2>3, <2>4
<1>10. CASE a # i
  <2>1. a < i /\ q.len > 1
    BY <1>5, <1>6, <1>10
  <2>2. q.name # 0
    BY <1>7, <1>8, <2>1, StepType
  <2>3. q.at < i /\ i < q.at + q.len
    BY <1>6, <2>1 DEF a
  <2> QED BY <1>4, <2>2, <2>3
<1> QED BY <1>9, <1>10

(***************************************************************************)
(* No masked value can be read in the output, whatever the values have in  *)
(* common and wherever a read ends, but for a value of several lines       *)
(* written to a pseudo terminal.                                           *)
(***************************************************************************)
THEOREM SecretsAreMasked == Spec => []NoSecretInClear
<1>1. IInv => NoSecretInClear
  <2> SUFFICES ASSUME IInv, NEW s \in Streams, NEW i \in 1..Len(said[s]),
                      NEW v \in Hits(said[s], i),
                      Mode # "pty" \/ Newline \notin ToSet(v),
                      At(said[s], i) <= base[s],
                      At(said[s], i + Len(v)) <= written[s] + 1
               PROVE  \E p \in ToSet(out[s]) :
                        /\ p.name # 0
                        /\ \/ /\ p.at < At(said[s], i)
                              /\ At(said[s], i) < p.at + p.len
                           \/ p.at = At(said[s], i) /\ p.len >= Len(v)
    BY DEF NoSecretInClear, Masked
  <2> DEFINE a == At(said[s], i)
  <2>1. /\ text[s] \in Seq(Letters) /\ Len(text[s]) \in Nat
        /\ base[s] \in Nat /\ got[s] \in Nat /\ written[s] \in Nat
        /\ base[s] <= got[s] /\ got[s] <= written[s] /\ written[s] <= Len(text[s])
    BY TextType DEF IInv, Stream, Typed, Counted
  <2>2. said[s] \in Seq(Letters) /\ text[s] = Arrived(said[s])
    BY OutputsAreTexts DEF IInv, Typed
  <2>3. v \in Hits(Sofar(s), a) /\ a \in Nat \ {0}
    BY <2>1, <2>2, HitArrives DEF Sofar
  <2> HIDE DEF a
  <2>4. a \in 1..base[s]
    BY <2>1, <2>3 DEF a
  <2>5. /\ 0 \in 0..Len(text[s]) /\ written[s] \in 0..Len(text[s])
        /\ 0 + 1 = 1 /\ written[s] - 0 = written[s] /\ 0 + a = a
        /\ a \in 1..(written[s] - 0)
    BY <2>1, <2>4
  <2>6. Sofar(s) = SubSeq(text[s], 0 + 1, written[s])
    BY <2>5 DEF Sofar
  <2>7. v \in Hits(text[s], 0 + a)
    BY <2>1, <2>3, <2>5, <2>6, HitsOfPart
  <2>8. Sofar(s) \in Seq(Letters)
    BY <2>1, <2>5, <2>6, PartType
  <2>9. CASE Tiles(text[s], 0, out[s], 1, base[s] + 1)
    BY <2>1, <2>4, <2>5, <2>7, <2>9, HitIsMasked DEF a
  <2>10. CASE Tiles(Sofar(s), 0, out[s], 1, base[s] + 1)
    BY <2>1, <2>3, <2>4, <2>8, <2>10, HitIsMasked DEF a
  <2>11. CASE reader[s] = "none"
    BY <2>4, <2>11 DEF IInv, Stream, Reader
  <2>12. reader[s] # "none" =>
           \/ Tiles(text[s], 0, out[s], 1, base[s] + 1)
           \/ Tiles(Sofar(s), 0, out[s], 1, base[s] + 1)
    BY DEF IInv, Stream, Typed, Cut, Whole, Part
  <2> QED BY <2>9, <2>10, <2>11, <2>12
<1> QED BY <1>1, Invariance, PTL

(***************************************************************************)
(* Less than the longest secret waits for more output, and lade ends only  *)
(* when it has read all that was written, unless its own output failed.    *)
(***************************************************************************)
THEOREM LittleIsHeldBack == Spec => []HeldBack
<1>1. IInv => HeldBack
  <2> SUFFICES ASSUME IInv, NEW s \in Streams, reader[s] \notin {"none", "lost"}
               PROVE  /\ got[s] - base[s] < MaxLen
                      /\ main = "exited" => got[s] = written[s]
    BY DEF HeldBack
  <2>1. reader[s] \in {"read", "ended", "failed"} /\ got[s] \in Nat
    BY DEF IInv, Typed
  <2>2. reader[s] = "ended" => got[s] - base[s] < MaxLen
    <3>1. MaxLen \in Nat \ {0}
      BY MaxLenIsLongest DEF IInv, Stream, Reader
    <3> QED BY <2>1, <3>1 DEF IInv, Stream, Whole
  <2>3. reader[s] # "ended" => got[s] - base[s] < MaxLen
    BY <2>1 DEF IInv, Stream, Cut
  <2>4. main = "exited" => got[s] = written[s]
    BY <2>1 DEF IInv, Stream, Course, Reader
  <2> QED BY <2>2, <2>3, <2>4
<1> QED BY <1>1, Invariance, PTL
=============================================================================
