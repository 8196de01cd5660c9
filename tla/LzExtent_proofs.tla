-------------------------- MODULE LzExtent_proofs ---------------------------
(***************************************************************************)
(* Proofs about LzExtent, for every memory and every call: a report is     *)
(* well formed, a consistent one comes true, and a call that returns       *)
(* without its output reaching its stream is reported as consistent.  The  *)
(* scan is defined by recursion; its equation at every point of the loop   *)
(* comes first.                                                            *)
(***************************************************************************)
EXTENDS LzExtent, WellFoundedInduction, TLAPS

-----------------------------------------------------------------------------
(***************************************************************************)
(* Tokens.                                                                 *)
(***************************************************************************)
\* A quotient and what it leaves.
LEMMA DivBounds ==
  ASSUME NEW n \in Nat, NEW d \in Nat \ {0}
  PROVE  n \div d \in Nat /\ d * (n \div d) <= n /\ n < d * (n \div d) + d
OBVIOUS

\* A token length is one of a whole number of units.
LEMMA UnitsOfByte ==
  /\ MaxLength \in Nat \ {0} /\ LengthUnit * MaxLength = ByteModulus
  /\ \A high \in Byte : UpperBits(high) \in 0 .. MaxLength - 1
<1>1. ByteModulus \in Nat \ {0} /\ LengthUnit \in Nat \ {0} /\ ByteModulus % LengthUnit = 0
  BY SizesAssumption
<1>2. ByteModulus = LengthUnit * (ByteModulus \div LengthUnit) + (ByteModulus % LengthUnit)
  BY <1>1
<1>3. PICK q \in Nat : q = MaxLength /\ LengthUnit * q = ByteModulus
  BY <1>1, <1>2, DivBounds DEF MaxLength
<1>4. q # 0
  BY <1>1, <1>3
<1>5. ASSUME NEW high \in Byte PROVE UpperBits(high) \in 0 .. q - 1
  <2>1. high \in Nat /\ high < LengthUnit * q
    BY <1>1, <1>3 DEF Byte
  <2>2. PICK u \in Nat : u = UpperBits(high) /\ LengthUnit * u <= high
    BY <1>1, <2>1, DivBounds DEF UpperBits
  <2>3. u < q
    BY <1>1, <2>1, <2>2
  <2> QED
    BY <1>3, <2>2, <2>3
<1> QED
  BY <1>3, <1>4, <1>5

\* A token takes one or two bytes and yields at least one.
LEMMA TokensHaveSize ==
  ASSUME NEW bits \in Byte, NEW high \in Byte
  PROVE  BytesOf(bits) \in 1 .. 2 /\ SizeOf(bits, high) \in 1 .. MaxLength
<1>1. TokenLength(high) \in 1 .. MaxLength
  BY UnitsOfByte DEF TokenLength
<1> QED
  BY <1>1, UnitsOfByte DEF BytesOf, SizeOf

\* The control bits that remain are a byte.
LEMMA HalfIsByte == ASSUME NEW bits \in Byte PROVE bits \div 2 \in Byte /\ bits \div 2 <= bits
<1>1. bits \in Nat
  BY SizesAssumption DEF Byte
<1>2. bits \div 2 \in Nat /\ bits \div 2 <= bits
  BY <1>1, DivBounds
<1> QED
  BY <1>2, SizesAssumption DEF Byte

-----------------------------------------------------------------------------
(***************************************************************************)
(* The loop's equation.  ScanFrom is defined by recursion; that there is   *)
(* such a function follows from the bytes left: what the loop yields at a  *)
(* point depends on points with fewer of them.                             *)
(***************************************************************************)
Memories == [Address -> Byte]
Left(from, p) == RamSize - from - p[1]

AfterToken(m, from, p) ==
  <<p[1] + BytesOf(p[3]), p[2] + SizeOf(p[3], m[from + p[1]]), p[3] \div 2>>
AfterControlByte(m, from, p) == <<p[1] + 1, p[2], m[from + p[1]]>>

LoopBody(m, from, limit, f, p) ==
  IF p[3] > 1 THEN
    IF BytesOf(p[3]) > RamSize - from - p[1] THEN Extent("truncated", p[1], p[2])
    ELSE IF ~Fits(SizeOf(p[3], m[from + p[1]]), limit, p[2])
      THEN Extent("exceeds", p[1] + BytesOf(p[3]), p[2])
    ELSE f[<<p[1] + BytesOf(p[3]), p[2] + SizeOf(p[3], m[from + p[1]]), p[3] \div 2>>]
  ELSE IF RamSize - from - p[1] <= 0 THEN Extent("missing", p[1], p[2])
  ELSE IF m[from + p[1]] = 0 THEN Extent("complete", p[1] + 1, p[2])
  ELSE f[<<p[1] + 1, p[2], m[from + p[1]]>>]

\* The parts of a point.
LEMMA PointsAre ==
  ASSUME NEW p \in Points
  PROVE  p = <<p[1], p[2], p[3]>> /\ p[1] \in Nat /\ p[2] \in Nat /\ p[3] \in Byte /\ p[3] \in Nat
BY SizesAssumption DEF Points, Byte

\* Inside memory a point leads to a point.
LEMMA PointsLead ==
  ASSUME NEW m \in Memories, NEW from \in Address, NEW p \in Points, Left(from, p) > 0
  PROVE  /\ from + p[1] \in Address /\ m[from + p[1]] \in Byte
         /\ SizeOf(p[3], m[from + p[1]]) \in 1 .. MaxLength /\ BytesOf(p[3]) \in 1 .. 2
         /\ AfterToken(m, from, p) \in Points /\ AfterControlByte(m, from, p) \in Points
<1>1. p[1] \in Nat /\ p[2] \in Nat /\ p[3] \in Byte /\ from \in Nat
  BY PointsAre, SizesAssumption DEF Address
<1>2. from + p[1] \in Address
  BY <1>1, SizesAssumption DEF Left, Address
<1>3. m[from + p[1]] \in Byte
  BY <1>2 DEF Memories
<1>4. /\ SizeOf(p[3], m[from + p[1]]) \in 1 .. MaxLength
      /\ BytesOf(p[3]) \in 1 .. 2 /\ p[3] \div 2 \in Byte
  BY <1>1, <1>3, TokensHaveSize, HalfIsByte
<1>5. MaxLength \in Nat
  BY UnitsOfByte
<1>6. /\ p[1] + BytesOf(p[3]) \in Nat /\ p[1] + 1 \in Nat
      /\ p[2] + SizeOf(p[3], m[from + p[1]]) \in Nat
  BY <1>1, <1>4, <1>5
<1> QED
  BY <1>1, <1>2, <1>3, <1>4, <1>6 DEF AfterToken, AfterControlByte, Points

\* What the loop yields depends only on points further on.
LEMMA LoopLooksAhead ==
  ASSUME NEW m \in Memories, NEW from \in Address, NEW limit, NEW p \in Points, NEW f, NEW g,
         \A q \in Points : q[1] > p[1] /\ Left(from, p) > 0 => f[q] = g[q]
  PROVE  LoopBody(m, from, limit, f, p) = LoopBody(m, from, limit, g, p)
<1>1. p[1] \in Nat /\ p[3] \in Byte /\ from \in Nat /\ RamSize \in Nat
  BY PointsAre, SizesAssumption DEF Address
<1>2. CASE Left(from, p) > 0
  <2>1. /\ AfterToken(m, from, p) \in Points /\ AfterControlByte(m, from, p) \in Points
        /\ BytesOf(p[3]) \in 1 .. 2
    BY <1>2, PointsLead
  <2>2. AfterToken(m, from, p)[1] > p[1] /\ AfterControlByte(m, from, p)[1] > p[1]
    BY <1>1, <2>1 DEF AfterToken, AfterControlByte
  <2>3. /\ f[AfterToken(m, from, p)] = g[AfterToken(m, from, p)]
        /\ f[AfterControlByte(m, from, p)] = g[AfterControlByte(m, from, p)]
    BY <1>2, <2>1, <2>2
  <2> QED
    BY <2>3, Zenon DEF LoopBody, AfterToken, AfterControlByte
<1>3. CASE ~(Left(from, p) > 0)
  <2>1. BytesOf(p[3]) > RamSize - from - p[1] /\ RamSize - from - p[1] <= 0
    BY <1>1, <1>3 DEF Left, BytesOf
  <2> QED
    BY <2>1, Zenon DEF LoopBody
<1> QED
  BY <1>2, <1>3

\* A solution of the equation where at most k bytes are left.
Solves(m, from, limit, f, k) ==
  \A p \in Points : Left(from, p) <= k => f[p] = LoopBody(m, from, limit, f, p)

\* Up to any number of bytes left there is a solution, by the least exception.
LEMMA SolutionsExist ==
  ASSUME NEW m \in Memories, NEW from \in Address, NEW limit
  PROVE  \A k \in Nat : \E f : Solves(m, from, limit, f, k)
<1> DEFINE Unsolved == {k \in Nat : ~ \E f : Solves(m, from, limit, f, k)}
<1> SUFFICES ASSUME Unsolved # {} PROVE FALSE
  OBVIOUS
<1>1. PICK k \in Unsolved : \A j \in Unsolved : ~ (<<j, k>> \in OpToRel(<, Nat))
  <2>1. Unsolved \subseteq Nat
    OBVIOUS
  <2> HIDE DEF Unsolved
  <2> QED
    BY <2>1, NatLessThanWellFounded, WFMin
<1>2. k \in Nat /\ ~ \E f : Solves(m, from, limit, f, k)
  OBVIOUS
<1>3. ASSUME NEW p \in Points PROVE p[1] \in Nat /\ Left(from, p) \in Int
  BY <1>3, PointsAre, SizesAssumption DEF Address, Left
<1>4. PICK f : k = 0 \/ Solves(m, from, limit, f, k - 1)
  <2>1. CASE k = 0
    BY <2>1
  <2>2. CASE k # 0
    <3>1. k - 1 \in Nat /\ k - 1 < k
      BY <1>2, <2>2
    <3>2. k - 1 \notin Unsolved
      BY <1>1, <1>2, <3>1 DEF OpToRel
    <3> QED
      BY <3>1, <3>2
  <2> QED
    BY <2>1, <2>2
<1> DEFINE g == [p \in Points |-> LoopBody(m, from, limit, f, p)]
<1>5. ASSUME NEW p \in Points, Left(from, p) <= k
      PROVE  g[p] = LoopBody(m, from, limit, g, p)
  <2>1. ASSUME NEW q \in Points, q[1] > p[1], Left(from, p) > 0 PROVE f[q] = g[q]
    <3>1. k # 0 /\ Left(from, q) <= k - 1
      BY <1>2, <1>3, <1>5, <2>1, SizesAssumption DEF Left, Address
    <3>2. f[q] = LoopBody(m, from, limit, f, q)
      BY <1>4, <3>1 DEF Solves
    <3> QED
      BY <3>2
  <2>2. g[p] = LoopBody(m, from, limit, f, p)
    OBVIOUS
  <2> HIDE DEF g
  <2> QED
    BY <2>1, <2>2, LoopLooksAhead
<1>6. Solves(m, from, limit, g, k)
  <2> HIDE DEF g
  <2> QED
    BY <1>5 DEF Solves
<1> QED
  BY <1>2, <1>6

\* The scan is a solution at every point.
LEMMA ScanLoops ==
  ASSUME NEW m \in Memories, NEW from \in Address, NEW limit, NEW p \in Points
  PROVE  ScanFrom(m, from, limit)[p] = LoopBody(m, from, limit, ScanFrom(m, from, limit), p)
<1>1. PICK f : Solves(m, from, limit, f, RamSize)
  BY SolutionsExist, SizesAssumption
<1>2. ASSUME NEW q \in Points PROVE f[q] = LoopBody(m, from, limit, f, q)
  <2>1. Left(from, q) <= RamSize
    BY PointsAre, SizesAssumption DEF Left, Address
  <2> QED
    BY <1>1, <2>1 DEF Solves
<1> DEFINE g == [q \in Points |-> LoopBody(m, from, limit, f, q)]
<1>3. ASSUME NEW q \in Points PROVE g[q] = LoopBody(m, from, limit, g, q)
  <2>1. \A r \in Points : f[r] = g[r]
    BY <1>2
  <2>2. g[q] = LoopBody(m, from, limit, f, q)
    OBVIOUS
  <2> HIDE DEF g
  <2> QED
    BY <2>1, <2>2, LoopLooksAhead
<1>4. g = [q \in Points |-> LoopBody(m, from, limit, g, q)]
  BY <1>3
<1>5. \E h : h = [q \in Points |-> LoopBody(m, from, limit, h, q)]
  <2> HIDE DEF g
  <2> QED
    BY <1>4
<1>6. LET h == ScanFrom(m, from, limit)
      IN  h = [q \in Points |-> LoopBody(m, from, limit, h, q)]
  BY <1>5 DEF ScanFrom, LoopBody
<1> DEFINE h == ScanFrom(m, from, limit)
<1>7. h = [q \in Points |-> LoopBody(m, from, limit, h, q)]
  BY <1>6
<1> HIDE DEF h
<1>8. h[p] = LoopBody(m, from, limit, h, p)
  BY <1>7
<1> QED
  BY <1>8 DEF h

\* The two ways on, and the ends.
LEMMA ScanGoesOn ==
  ASSUME NEW m \in Memories, NEW from \in Address, NEW limit, NEW p \in Points
  PROVE  LET scan == ScanFrom(m, from, limit)
             bytes == BytesOf(p[3])
             size == SizeOf(p[3], m[from + p[1]])
         IN  /\ p[3] > 1 /\ bytes > Left(from, p) => scan[p] = Extent("truncated", p[1], p[2])
             /\ p[3] > 1 /\ bytes <= Left(from, p) /\ ~Fits(size, limit, p[2]) =>
                  scan[p] = Extent("exceeds", p[1] + bytes, p[2])
             /\ p[3] > 1 /\ bytes <= Left(from, p) /\ Fits(size, limit, p[2]) =>
                  scan[p] = scan[AfterToken(m, from, p)]
             /\ p[3] <= 1 /\ Left(from, p) <= 0 => scan[p] = Extent("missing", p[1], p[2])
             /\ p[3] <= 1 /\ Left(from, p) > 0 /\ m[from + p[1]] = 0 =>
                  scan[p] = Extent("complete", p[1] + 1, p[2])
             /\ p[3] <= 1 /\ Left(from, p) > 0 /\ m[from + p[1]] # 0 =>
                  scan[p] = scan[AfterControlByte(m, from, p)]
<1>1. /\ p[3] \in Nat /\ BytesOf(p[3]) \in Int /\ Left(from, p) \in Int
      /\ Left(from, p) = RamSize - from - p[1]
  BY PointsAre, SizesAssumption DEF BytesOf, Left, Address
<1>2. /\ (p[3] <= 1 <=> ~(p[3] > 1))
      /\ (BytesOf(p[3]) <= Left(from, p) <=> ~(BytesOf(p[3]) > Left(from, p)))
      /\ (Left(from, p) <= 0 <=> ~(Left(from, p) > 0))
  BY <1>1
<1> DEFINE scan == ScanFrom(m, from, limit)
<1>3. scan[p] = LoopBody(m, from, limit, scan, p)
  BY ScanLoops
<1> HIDE DEF scan
<1>4. ASSUME p[3] > 1, BytesOf(p[3]) > Left(from, p)
      PROVE  scan[p] = Extent("truncated", p[1], p[2])
  BY <1>1, <1>3, <1>4, Zenon DEF LoopBody
<1>5. ASSUME p[3] > 1, BytesOf(p[3]) <= Left(from, p)
      PROVE  scan[p] = IF ~Fits(SizeOf(p[3], m[from + p[1]]), limit, p[2])
                         THEN Extent("exceeds", p[1] + BytesOf(p[3]), p[2])
                         ELSE scan[AfterToken(m, from, p)]
  BY <1>1, <1>2, <1>3, <1>5, Zenon DEF LoopBody, AfterToken
<1>6. ASSUME p[3] <= 1, Left(from, p) <= 0
      PROVE  scan[p] = Extent("missing", p[1], p[2])
  BY <1>1, <1>2, <1>3, <1>6, Zenon DEF LoopBody
<1>7. ASSUME p[3] <= 1, Left(from, p) > 0
      PROVE  scan[p] = IF m[from + p[1]] = 0 THEN Extent("complete", p[1] + 1, p[2])
                                             ELSE scan[AfterControlByte(m, from, p)]
  BY <1>1, <1>2, <1>3, <1>7, Zenon DEF LoopBody, AfterControlByte
<1> QED
  BY <1>4, <1>5, <1>6, <1>7, Zenon DEF scan

Statuses == {"complete", "truncated", "exceeds", "missing"}
Ahead(r, p, from, limit) ==
  /\ r.status \in Statuses
  /\ r.sourceBytes \in p[1] .. RamSize - from
  /\ r.outputBytes \in p[2] .. limit

\* What the scan reports is not behind the point it started at, and in bounds.
LEMMA ScanStaysInBounds ==
  ASSUME NEW m \in Memories, NEW from \in Address, NEW limit \in Nat
  PROVE  \A p \in Points : Left(from, p) >= 0 /\ p[2] <= limit =>
                             Ahead(ScanFrom(m, from, limit)[p], p, from, limit)
<1> DEFINE scan == ScanFrom(m, from, limit)
<1> DEFINE Beyond(p) == ~ Ahead(scan[p], p, from, limit)
<1> DEFINE Bad == {k \in Nat : \E p \in Points : Left(from, p) = k /\ p[2] <= limit /\ Beyond(p)}
<1> HIDE DEF scan
<1>1. ASSUME NEW p \in Points
      PROVE  /\ p[1] \in Nat /\ p[2] \in Nat /\ p[3] \in Nat /\ p[3] \in Byte
             /\ Left(from, p) \in Int /\ Left(from, p) = RamSize - from - p[1]
  BY <1>1, PointsAre, SizesAssumption DEF Address, Left
<1>2. SUFFICES ASSUME Bad # {} PROVE FALSE
  <2> SUFFICES ASSUME NEW p \in Points, Left(from, p) >= 0, p[2] <= limit, Beyond(p)
               PROVE  Bad # {}
    BY DEF scan
  <2>1. Left(from, p) \in Nat
    BY <1>1
  <2> QED
    BY <2>1
<1>3. PICK k \in Bad : \A j \in Bad : ~ (<<j, k>> \in OpToRel(<, Nat))
  <2>1. Bad \subseteq Nat
    OBVIOUS
  <2> HIDE DEF Bad
  <2> QED
    BY <1>2, <2>1, NatLessThanWellFounded, WFMin
<1>4. PICK p \in Points : Left(from, p) = k /\ p[2] <= limit /\ Beyond(p)
  OBVIOUS
<1>5. k \in Nat
  OBVIOUS
<1>6. ASSUME NEW q \in Points, q[1] > p[1], Left(from, q) >= 0, q[2] <= limit, q[2] >= p[2],
             scan[p] = scan[q]
      PROVE  FALSE
  <2>1. Left(from, q) \in Nat /\ Left(from, q) < k
    BY <1>1, <1>4, <1>5, <1>6, SizesAssumption DEF Address
  <2>2. Left(from, q) \notin Bad
    BY <1>3, <1>5, <2>1 DEF OpToRel
  <2>3. Ahead(scan[q], q, from, limit)
    BY <1>6, <2>1, <2>2
  <2>4. Ahead(scan[p], p, from, limit)
    BY <1>1, <1>4, <1>6, <2>3 DEF Ahead
  <2> QED
    BY <1>4, <2>4
<1>7. \A status, input, output :
        /\ Extent(status, input, output).status = status
        /\ Extent(status, input, output).sourceBytes = input
        /\ Extent(status, input, output).outputBytes = output
  BY DEF Extent
<1>8. \A status \in Statuses, input \in p[1] .. RamSize - from :
        scan[p] # Extent(status, input, p[2])
  BY <1>1, <1>4, <1>7 DEF Ahead
<1>9. p[1] \in p[1] .. RamSize - from /\ RamSize - from \in Int
  BY <1>1, <1>4, <1>5, SizesAssumption DEF Address
<1>10. BytesOf(p[3]) \in 1 .. 2
  BY DEF BytesOf
<1>11. ASSUME BytesOf(p[3]) <= Left(from, p), p[3] > 1 PROVE FALSE
  <2>1. p[1] + BytesOf(p[3]) \in p[1] .. RamSize - from /\ Left(from, p) > 0
    BY <1>1, <1>9, <1>10, <1>11
  <2>2. Fits(SizeOf(p[3], m[from + p[1]]), limit, p[2])
    BY <1>8, <1>11, <2>1, ScanGoesOn DEF scan, Statuses
  <2>3. /\ SizeOf(p[3], m[from + p[1]]) \in 1 .. MaxLength /\ MaxLength \in Nat
        /\ AfterToken(m, from, p) \in Points
    BY <2>1, PointsLead, UnitsOfByte
  <2>4. /\ AfterToken(m, from, p)[1] = p[1] + BytesOf(p[3])
        /\ AfterToken(m, from, p)[2] = p[2] + SizeOf(p[3], m[from + p[1]])
    BY DEF AfterToken
  <2>5. AfterToken(m, from, p)[2] <= limit /\ AfterToken(m, from, p)[2] >= p[2]
    BY <1>1, <2>2, <2>3, <2>4 DEF Fits
  <2>6. AfterToken(m, from, p)[1] > p[1] /\ Left(from, AfterToken(m, from, p)) >= 0
    BY <1>1, <1>9, <1>10, <2>1, <2>3, <2>4
  <2>7. scan[p] = scan[AfterToken(m, from, p)]
    BY <1>11, <2>2, ScanGoesOn DEF scan
  <2> QED
    BY <1>6, <2>3, <2>5, <2>6, <2>7
<1>12. ASSUME Left(from, p) > 0, p[3] <= 1 PROVE FALSE
  <2>1. p[1] + 1 \in p[1] .. RamSize - from
    BY <1>1, <1>9, <1>12
  <2>2. m[from + p[1]] # 0
    BY <1>8, <1>12, <2>1, ScanGoesOn DEF scan, Statuses
  <2>3. AfterControlByte(m, from, p) \in Points
    BY <1>12, PointsLead
  <2>4. AfterControlByte(m, from, p)[1] = p[1] + 1 /\ AfterControlByte(m, from, p)[2] = p[2]
    BY DEF AfterControlByte
  <2>5. AfterControlByte(m, from, p)[1] > p[1] /\ Left(from, AfterControlByte(m, from, p)) >= 0
    BY <1>1, <1>9, <1>12, <2>1, <2>3, <2>4
  <2>6. scan[p] = scan[AfterControlByte(m, from, p)]
    BY <1>12, <2>2, ScanGoesOn DEF scan
  <2> QED
    BY <1>1, <1>4, <1>6, <2>3, <2>4, <2>5, <2>6
<1>13. ASSUME BytesOf(p[3]) > Left(from, p), p[3] > 1 PROVE FALSE
  BY <1>8, <1>9, <1>13, ScanGoesOn DEF scan, Statuses
<1>14. ASSUME Left(from, p) <= 0, p[3] <= 1 PROVE FALSE
  BY <1>8, <1>9, <1>14, ScanGoesOn DEF scan, Statuses
<1> QED
  BY <1>1, <1>10, <1>11, <1>12, <1>13, <1>14

-----------------------------------------------------------------------------
\* The length the game reads off a token is the one the scan does.
LEMMA LengthIsTokenLength ==
  ASSUME NEW high \in Byte
  PROVE  (CHOOSE n \in 1 .. MaxLength : n % MaxLength = high \div LengthUnit) = TokenLength(high)
<1>1. PICK u \in 0 .. MaxLength - 1 : u = high \div LengthUnit
  BY UnitsOfByte DEF UpperBits
<1>2. MaxLength \in Nat \ {0}
  BY UnitsOfByte
<1>3. \A M \in Nat \ {0} : \A n \in 1 .. M : n % M = IF n = M THEN 0 ELSE n
  OBVIOUS
<1>4. \A n \in 1 .. MaxLength : n % MaxLength = u <=> n = TokenLength(high)
  <2>1. TokenLength(high) = IF u = 0 THEN MaxLength ELSE u
    BY <1>1 DEF TokenLength, UpperBits
  <2>2. \A n \in 1 .. MaxLength : n % MaxLength = IF n = MaxLength THEN 0 ELSE n
    BY <1>2, <1>3, Zenon
  <2> QED
    BY <1>1, <1>2, <2>1, <2>2
<1>5. TokenLength(high) \in 1 .. MaxLength
  BY <1>1, <1>2 DEF TokenLength, UpperBits
<1> QED
  BY <1>1, <1>4, <1>5

-----------------------------------------------------------------------------
(***************************************************************************)
(* A scan that passes a point either goes on as from there or has ended    *)
(* because the output so far exceeds the limit.                            *)
(***************************************************************************)
Passes(m, from, limit, p) ==
  LET scan == ScanFrom(m, from, limit)
  IN  \/ scan[Start] = scan[p] /\ p[2] <= limit
      \/ scan[Start].status = "exceeds" /\ p[2] > limit

\* Every scan passes its start.
LEMMA StartPasses ==
  ASSUME NEW m, NEW from, NEW limit \in Nat
  PROVE  Start \in Points /\ Passes(m, from, limit, Start)
<1>1. Start \in Points
  <2>1. 1 \in Byte
    BY SizesAssumption DEF Byte
  <2> QED
    BY <2>1 DEF Start, Points
<1>2. Start[2] = 0
  BY DEF Start
<1> QED
  BY <1>1, <1>2 DEF Passes

\* A scan that passes a point before a token passes the one behind it.
LEMMA PassesToken ==
  ASSUME NEW m \in Memories, NEW from \in Address, NEW limit \in Nat, NEW p \in Points,
         p[3] > 1, BytesOf(p[3]) <= Left(from, p), Passes(m, from, limit, p)
  PROVE  Passes(m, from, limit, AfterToken(m, from, p))
<1> DEFINE scan == ScanFrom(m, from, limit)
<1> DEFINE size == SizeOf(p[3], m[from + p[1]])
<1>1. p[1] \in Nat /\ p[2] \in Nat /\ Left(from, p) \in Int
  BY PointsAre, SizesAssumption DEF Address, Left
<1>2. Left(from, p) > 0
  BY <1>1 DEF BytesOf
<1>3. size \in Nat /\ size > 0
  BY <1>2, PointsLead, UnitsOfByte
<1>4. AfterToken(m, from, p)[2] = p[2] + size
  BY DEF AfterToken
<1>5. CASE p[2] > limit
  <2>1. scan[Start].status = "exceeds"
    BY <1>1, <1>5 DEF Passes
  <2>2. AfterToken(m, from, p)[2] > limit
    BY <1>1, <1>3, <1>4, <1>5
  <2> QED
    BY <2>1, <2>2 DEF Passes
<1>6. CASE p[2] <= limit /\ Fits(size, limit, p[2])
  <2>1. scan[Start] = scan[p]
    BY <1>1, <1>6 DEF Passes
  <2>2. scan[p] = scan[AfterToken(m, from, p)]
    BY <1>6, ScanGoesOn
  <2>3. AfterToken(m, from, p)[2] <= limit
    BY <1>1, <1>3, <1>4, <1>6 DEF Fits
  <2> QED
    BY <2>1, <2>2, <2>3 DEF Passes
<1>7. CASE p[2] <= limit /\ ~ Fits(size, limit, p[2])
  <2>1. scan[Start] = scan[p]
    BY <1>1, <1>7 DEF Passes
  <2>2. scan[p] = Extent("exceeds", p[1] + BytesOf(p[3]), p[2])
    BY <1>7, ScanGoesOn
  <2>3. AfterToken(m, from, p)[2] > limit
    BY <1>1, <1>3, <1>4, <1>7 DEF Fits
  <2> QED
    BY <2>1, <2>2, <2>3 DEF Passes, Extent
<1> QED
  BY <1>1, <1>5, <1>6, <1>7

\* The same of a control byte other than the terminator.
LEMMA PassesControlByte ==
  ASSUME NEW m \in Memories, NEW from \in Address, NEW limit \in Nat, NEW p \in Points,
         p[3] <= 1, Left(from, p) > 0, m[from + p[1]] # 0, Passes(m, from, limit, p)
  PROVE  Passes(m, from, limit, AfterControlByte(m, from, p))
<1>1. ScanFrom(m, from, limit)[p] = ScanFrom(m, from, limit)[AfterControlByte(m, from, p)]
  BY ScanGoesOn
<1>2. AfterControlByte(m, from, p)[2] = p[2]
  BY DEF AfterControlByte
<1> QED
  BY <1>1, <1>2 DEF Passes

\* A complete scan that passes a point has a whole token there, and room for it.
LEMMA CompleteLooksAhead ==
  ASSUME NEW m \in Memories, NEW from \in Address, NEW limit \in Nat, NEW p \in Points,
         Left(from, p) >= 0, Passes(m, from, limit, p),
         ScanFrom(m, from, limit)[Start].status = "complete"
  PROVE  LET extent == ScanFrom(m, from, limit)[Start]
         IN  /\ extent.sourceBytes \in p[1] .. RamSize - from
             /\ extent.outputBytes \in p[2] .. limit
             /\ p[3] > 1 => /\ p[1] + BytesOf(p[3]) <= extent.sourceBytes
                            /\ p[2] + 1 <= extent.outputBytes
             /\ p[3] <= 1 => p[1] + 1 <= extent.sourceBytes
<1> DEFINE scan == ScanFrom(m, from, limit)
<1> DEFINE extent == scan[Start]
<1>1. /\ p[1] \in Nat /\ p[2] \in Nat /\ p[3] \in Nat
      /\ Left(from, p) \in Int /\ Left(from, p) = RamSize - from - p[1]
  BY PointsAre, SizesAssumption DEF Address, Left
<1>2. extent = scan[p] /\ p[2] <= limit
  BY DEF Passes
<1>3. \A status, input, output : Extent(status, input, output).status = status
  BY DEF Extent
<1>4. \A status \in {"truncated", "exceeds", "missing"} : \A input, output :
        scan[p] # Extent(status, input, output)
  BY <1>2, <1>3
<1>5. Ahead(extent, p, from, limit)
  BY <1>2, ScanStaysInBounds
<1>6. ASSUME p[3] > 1
      PROVE  p[1] + BytesOf(p[3]) <= extent.sourceBytes /\ p[2] + 1 <= extent.outputBytes
  <2>1. BytesOf(p[3]) \in 1 .. 2
    BY DEF BytesOf
  <2>2. BytesOf(p[3]) <= Left(from, p)
    <3>1. ~(BytesOf(p[3]) > Left(from, p))
      BY <1>4, <1>6, ScanGoesOn
    <3> QED
      BY <1>1, <2>1, <3>1
  <2>3. Left(from, p) > 0
    BY <1>1, <2>1, <2>2
  <2>4. SizeOf(p[3], m[from + p[1]]) \in 1 .. MaxLength /\ MaxLength \in Nat
    BY <2>3, PointsLead, UnitsOfByte
  <2>5. Fits(SizeOf(p[3], m[from + p[1]]), limit, p[2])
    BY <1>4, <1>6, <2>2, ScanGoesOn
  <2>6. extent = scan[AfterToken(m, from, p)]
    BY <1>2, <1>6, <2>2, <2>5, ScanGoesOn
  <2>7. /\ AfterToken(m, from, p)[1] = p[1] + BytesOf(p[3])
        /\ AfterToken(m, from, p)[2] = p[2] + SizeOf(p[3], m[from + p[1]])
        /\ AfterToken(m, from, p) \in Points
    BY <2>3, PointsLead DEF AfterToken
  <2>8. AfterToken(m, from, p)[2] <= limit /\ Left(from, AfterToken(m, from, p)) >= 0
    <3>1. Left(from, AfterToken(m, from, p)) = RamSize - from - (p[1] + BytesOf(p[3]))
      BY <2>7 DEF Left
    <3>2. RamSize \in Nat /\ from \in Nat
      BY SizesAssumption DEF Address
    <3> QED
      BY <1>1, <2>1, <2>2, <2>4, <2>5, <2>7, <3>1, <3>2 DEF Fits
  <2>9. Ahead(extent, AfterToken(m, from, p), from, limit)
    BY <2>6, <2>7, <2>8, ScanStaysInBounds
  <2> QED
    BY <1>1, <2>1, <2>4, <2>7, <2>9 DEF Ahead
<1>7. ASSUME p[3] <= 1 PROVE p[1] + 1 <= extent.sourceBytes
  <2>1. Left(from, p) > 0
    <3>1. ~ (Left(from, p) <= 0)
      BY <1>7, <1>4, ScanGoesOn
    <3> QED
      BY <1>1, <3>1
  <2>2. CASE m[from + p[1]] = 0
    <3>1. extent = Extent("complete", p[1] + 1, p[2])
      BY <1>2, <1>7, <2>1, <2>2, ScanGoesOn
    <3> QED
      BY <1>1, <3>1 DEF Extent
  <2>3. CASE m[from + p[1]] # 0
    <3>1. extent = scan[AfterControlByte(m, from, p)]
      BY <1>2, <1>7, <2>1, <2>3, ScanGoesOn
    <3>2. /\ AfterControlByte(m, from, p)[1] = p[1] + 1
          /\ AfterControlByte(m, from, p)[2] = p[2]
          /\ AfterControlByte(m, from, p) \in Points
      BY <2>1, PointsLead DEF AfterControlByte
    <3>3. Left(from, AfterControlByte(m, from, p)) >= 0
      <4>1. Left(from, AfterControlByte(m, from, p)) = RamSize - from - (p[1] + 1)
        BY <3>2 DEF Left
      <4>2. RamSize \in Nat /\ from \in Nat
        BY SizesAssumption DEF Address
      <4> QED
        BY <1>1, <2>1, <4>1, <4>2
    <3>4. Ahead(extent, AfterControlByte(m, from, p), from, limit)
      BY <1>2, <3>1, <3>2, <3>3, ScanStaysInBounds
    <3> QED
      BY <1>1, <3>2, <3>4 DEF Ahead
  <2> QED
    BY <2>2, <2>3
<1> QED
  BY <1>5, <1>6, <1>7 DEF Ahead

-----------------------------------------------------------------------------
(***************************************************************************)
(* Where the decompressor is, as a point of the loop: the next boundary    *)
(* between tokens, with what is left to copy counted as output.            *)
(***************************************************************************)
Point ==
  IF stage = "token" THEN <<source - call.entry, destination - call.output, control>>
  ELSE IF stage = "copy"
    THEN <<source - call.entry, destination - call.output + length, control \div 2>>
  ELSE <<source - call.entry, destination - call.output, 1>>

StateTyped ==
  /\ call \in Calls /\ ram \in Memories
  /\ source \in call.entry .. RamSize /\ destination \in call.output .. RamSize
  /\ outputStart \in Address /\ control \in Byte /\ length \in 0 .. MaxLength
  /\ stage \in Stages
  /\ IF stage = "prologue"
       THEN source = call.entry /\ destination = call.output
       ELSE outputStart = call.output
  /\ stage \in {"token", "copy"} => control > 1
  /\ stage = "copy" => length >= 1

\* The parts of a call.
LEMMA CallIs ==
  ASSUME call \in Calls
  PROVE  /\ call.entry \in Address /\ call.output \in Address /\ call.limit \in Nat
         /\ call.entry \in Nat /\ call.output \in Nat /\ call.listed \in BOOLEAN
<1>1. call \in [entry : Address, output : Address, limit : Nat, listed : BOOLEAN]
  BY CallsAssumption
<1> QED
  BY <1>1, SizesAssumption DEF Address

\* The decompressor is entered at the start of a stream.
LEMMA InitStateTyped == Init => StateTyped
<1> SUFFICES ASSUME Init PROVE StateTyped
  OBVIOUS
<1>1. /\ call.entry \in Address /\ call.output \in Address
      /\ call.entry \in Nat /\ call.output \in Nat
  BY CallIs DEF Init
<1>2. RamSize \in Nat /\ 0 \in Address /\ 0 \in Byte
  BY SizesAssumption DEF Address, Byte
<1>3. call.entry \in call.entry .. RamSize /\ call.output \in call.output .. RamSize
  BY <1>1, <1>2 DEF Address
<1>4. ram \in Memories
  BY RamImagesAssumption DEF Init, Memories
<1> QED
  BY <1>1, <1>2, <1>3, <1>4, UnitsOfByte DEF Init, StateTyped, Stages

\* A guard bit remains until the tokens are through.
LEMMA HalfIsPositive ==
  ASSUME NEW bits \in Byte, bits > 1
  PROVE  bits \div 2 \in Byte /\ bits \div 2 >= 1
<1>1. bits \in Nat
  BY SizesAssumption DEF Byte
<1> QED
  BY <1>1, HalfIsByte

\* After the control bits that remain comes a token or the next control byte.
LEMMA AfterControlIs ==
  ASSUME NEW bits \in Byte
  PROVE  /\ AfterControl(bits) \in {"token", "control"}
         /\ AfterControl(bits) = "token" <=> bits > 1
BY DEF AfterControl

\* A reference is read whole, and its length is the scan's.
LEMMA ReferenceLength ==
  ASSUME StateTyped, ReadReference
  PROVE  /\ source \in Address /\ source + 1 \in Address /\ ram[source] \in Byte
         /\ length' = TokenLength(ram[source]) /\ length' \in 1 .. MaxLength
<1>1. source \in Nat /\ source + 1 \in Address
  BY CallIs, SizesAssumption DEF StateTyped, ReadReference, IsMapped
<1>2. source \in Address
  BY <1>1, SizesAssumption DEF Address
<1>3. ram[source] \in Byte
  BY <1>2 DEF StateTyped, Memories
<1>4. length' = TokenLength(ram[source])
  BY <1>3, LengthIsTokenLength DEF ReadReference
<1>5. TokenLength(ram[source]) \in 1 .. MaxLength
  BY <1>3, UnitsOfByte DEF TokenLength
<1> QED
  BY <1>1, <1>2, <1>3, <1>4, <1>5

\* Every step keeps the types.
LEMMA StepStateTyped ==
  ASSUME StateTyped, [Next]_vars
  PROVE  StateTyped'
<1>1. /\ call.entry \in Nat /\ call.output \in Nat /\ RamSize \in Nat /\ MaxLength \in Nat
      /\ call.entry \in Address /\ call.output \in Address
      /\ source \in Nat /\ destination \in Nat /\ control \in Nat
      /\ source >= call.entry /\ destination >= call.output
  BY CallIs, SizesAssumption, UnitsOfByte DEF StateTyped, Byte
<1>2. CASE UNCHANGED vars
  BY <1>2 DEF vars, StateTyped
<1>3. CASE CutOff
  BY <1>3 DEF CutOff, StateTyped
<1>4. CASE SetOutputStart
  BY <1>1, <1>4 DEF SetOutputStart, StateTyped, Stages
<1>5. CASE Strays
  BY <1>5 DEF Strays, StateTyped, Stages
<1>6. CASE ReadControl
  <2>1. source \in Address /\ ram[source] \in Byte /\ source + 1 \in call.entry .. RamSize
    BY <1>1, <1>6 DEF ReadControl, IsMapped, StateTyped, Memories, Address
  <2>2. /\ AfterControl(ram[source]) \in {"token", "control"}
        /\ AfterControl(ram[source]) = "token" <=> ram[source] > 1
    BY <2>1, AfterControlIs
  <2>3. stage' \in {"done", "token", "control"} /\ (stage' = "token" => control' > 1)
    BY <1>6, <2>2 DEF ReadControl
  <2> QED
    BY <1>6, <2>1, <2>3 DEF ReadControl, StateTyped, Stages
<1>7. CASE CopyLiteral
  <2>1. source \in Address /\ destination \in Address /\ ram[source] \in Byte
    BY <1>7 DEF CopyLiteral, IsMapped, StateTyped, Memories
  <2>2. source + 1 \in call.entry .. RamSize /\ destination + 1 \in call.output .. RamSize
    BY <1>1, <2>1 DEF Address
  <2>3. ram' \in Memories
    BY <1>7, <2>1 DEF CopyLiteral, StateTyped, Memories
  <2>4. control \div 2 \in Byte
    BY HalfIsByte DEF StateTyped
  <2>5. stage' \in {"token", "control"} /\ (stage' = "token" => control' > 1)
    BY <1>7, <2>4, AfterControlIs DEF CopyLiteral
  <2> QED
    BY <1>7, <2>2, <2>3, <2>4, <2>5 DEF CopyLiteral, StateTyped, Stages
<1>8. CASE ReadReference
  <2>1. source + 2 \in call.entry .. RamSize
    BY <1>1, <1>8, ReferenceLength DEF Address
  <2>2. length' \in 1 .. MaxLength
    BY <1>8, ReferenceLength
  <2>3. length' \in 0 .. MaxLength /\ length' >= 1
    BY <1>1, <2>2
  <2> QED
    BY <1>8, <2>1, <2>3 DEF ReadReference, StateTyped, Stages
<1>9. CASE CopyByte
  <2>1. destination \in Address
    BY <1>9 DEF CopyByte, IsMapped
  <2>2. destination + 1 \in call.output .. RamSize
    BY <1>1, <2>1 DEF Address
  <2>3. ram' \in Memories
    BY <1>9, <2>1 DEF CopyByte, StateTyped, Memories
  <2>4. control \div 2 \in Byte /\ length - 1 \in 0 .. MaxLength /\ (length # 1 => length - 1 >= 1)
    BY <1>1, <1>9, HalfIsByte DEF StateTyped, CopyByte
  <2>5. CASE length = 1
    <3>1. /\ stage' \in {"token", "control"} /\ (stage' = "token" => control' > 1)
          /\ control' = control \div 2
      BY <1>9, <2>4, <2>5, AfterControlIs DEF CopyByte
    <3> QED
      BY <1>9, <2>2, <2>3, <2>4, <3>1 DEF CopyByte, StateTyped, Stages
  <2>6. CASE length # 1
    BY <1>9, <2>2, <2>3, <2>4, <2>6 DEF CopyByte, StateTyped, Stages
  <2> QED
    BY <2>5, <2>6
<1> QED
  BY <1>2, <1>3, <1>4, <1>5, <1>6, <1>7, <1>8, <1>9 DEF Next, Decompress, Over

-----------------------------------------------------------------------------
(***************************************************************************)
(* A memory is parsed up to here if a scan of it passes the point the      *)
(* decompressor is at or, once the call has returned, ended as it did.     *)
(***************************************************************************)
Found(m) == ScanFrom(m, call.entry, call.limit)[Start]
Read == source - call.entry
Written == destination - call.output

Parsed(m) ==
  IF stage = "done"
    THEN \/ Found(m) = Extent("complete", Read, Written) /\ Written <= call.limit
         \/ Found(m).status = "exceeds" /\ Written > call.limit
    ELSE stage # "strayed" => Passes(m, call.entry, call.limit, Point)

\* The output so far has not reached the stream read so far.
Apart == call.entry >= destination \/ call.output >= source

\* A memory has, where the stream is read up to a, what there is now.
ReadsAs(m, a) == \A b \in call.entry .. a - 1 : m[b] = ram[b]

Typed == StateTyped /\ StateTyped'

\* The parts of the point.
LEMMA PointIs ==
  ASSUME StateTyped
  PROVE  /\ Point \in Points
         /\ Point[1] = Read /\ Left(call.entry, Point) = RamSize - source
         /\ Point[2] = IF stage = "copy" THEN Written + length ELSE Written
         /\ Point[3] = IF stage = "token" THEN control
                        ELSE IF stage = "copy" THEN control \div 2 ELSE 1
<1>1. /\ call.entry \in Nat /\ call.output \in Nat /\ RamSize \in Nat /\ MaxLength \in Nat
      /\ source \in Nat /\ source >= call.entry /\ destination \in Nat /\ destination >= call.output
      /\ length \in Nat /\ control \in Byte /\ 1 \in Byte /\ control \div 2 \in Byte
  BY CallIs, SizesAssumption, UnitsOfByte, HalfIsByte DEF StateTyped, Byte
<1>2. /\ Read \in Nat /\ Written \in Nat /\ Written + length \in Nat
      /\ RamSize - call.entry - Read = RamSize - source
  BY <1>1 DEF Read, Written
<1>3. Point = <<Read, IF stage = "copy" THEN Written + length ELSE Written,
                IF stage = "token" THEN control
                ELSE IF stage = "copy" THEN control \div 2 ELSE 1>>
  BY Zenon DEF Point, Read, Written
<1> QED
  BY <1>1, <1>2, <1>3 DEF Points, Left

\* What a step reads is what every memory that reads as this one has there.
LEMMA StepParses ==
  ASSUME Typed, Decompress, NEW m \in Memories, ReadsAs(m, source'), Parsed(m)
  PROVE  Parsed(m)'
<1> DEFINE from == call.entry
<1> DEFINE limit == call.limit
<1>1. /\ from \in Address /\ limit \in Nat /\ from \in Nat /\ call.output \in Nat /\ RamSize \in Nat
      /\ source \in Nat /\ destination \in Nat /\ source >= from /\ destination >= call.output
      /\ control \in Nat /\ control \in Byte /\ length \in Nat
  BY CallIs, SizesAssumption, UnitsOfByte DEF Typed, StateTyped, Byte
<1>2. /\ Point \in Points /\ Point[1] = Read /\ Left(from, Point) = RamSize - source
      /\ Point[2] = IF stage = "copy" THEN Written + length ELSE Written
      /\ Point[3] = IF stage = "token" THEN control
                     ELSE IF stage = "copy" THEN control \div 2 ELSE 1
  BY PointIs DEF Typed
<1>3. call' = call
  BY DEF Decompress, SetOutputStart, Strays, ReadControl, CopyLiteral, ReadReference, CopyByte
<1>4. Found(m)' = Found(m) /\ from + Read = source
  <2>1. Found(m)' = ScanFrom(m, call'.entry, call'.limit)[Start]
    BY DEF Found
  <2> QED
    BY <1>1, <1>3, <2>1 DEF Found, Read
<1>5. ASSUME stage' \notin {"done", "strayed"}, Passes(m, from, limit, Point') PROVE Parsed(m)'
  BY <1>3, <1>5 DEF Parsed
<1>6. CASE SetOutputStart
  <2>1. Point' = Point /\ stage' = "control"
    BY <1>6, Zenon DEF SetOutputStart, Point
  <2>2. Passes(m, from, limit, Point)
    BY <1>6 DEF SetOutputStart, Parsed
  <2> QED
    BY <1>5, <2>1, <2>2
<1>7. CASE Strays
  BY <1>7 DEF Strays, Parsed
<1>8. CASE ReadControl
  <2>1. /\ stage = "control" /\ source \in Address /\ source' = source + 1
        /\ control' = ram[source] /\ destination' = destination
    BY <1>8 DEF ReadControl, IsMapped
  <2>2. Passes(m, from, limit, Point) /\ Point[3] <= 1 /\ Point[2] = Written
    BY <1>2, <2>1 DEF Parsed
  <2>3. Left(from, Point) > 0
    BY <1>1, <1>2, <2>1 DEF Address
  <2>4. m[source] = ram[source]
    BY <1>1, <2>1 DEF ReadsAs
  <2>5. Read' = Read + 1 /\ Written' = Written
    BY <1>1, <1>3, <2>1 DEF Read, Written
  <2>6. CASE ram[source] = 0
    <3>1. stage' = "done"
      BY <1>8, <2>6 DEF ReadControl
    <3>2. ScanFrom(m, from, limit)[Point] = Extent("complete", Read + 1, Written)
      <4>1. m[from + Point[1]] = 0
        BY <1>2, <1>4, <2>4, <2>6
      <4>2. ScanFrom(m, from, limit)[Point] = Extent("complete", Point[1] + 1, Point[2])
        BY <1>1, <1>2, <2>2, <2>3, <4>1, ScanGoesOn
      <4> QED
        BY <1>2, <2>2, <4>2
    <3>3. \/ Found(m) = Extent("complete", Read + 1, Written) /\ Written <= limit
          \/ Found(m).status = "exceeds" /\ Written > limit
      BY <2>2, <3>2 DEF Passes, Found
    <3> QED
      BY <1>3, <1>4, <2>5, <3>1, <3>3 DEF Parsed
  <2>7. CASE ram[source] # 0
    <3>1. Passes(m, from, limit, AfterControlByte(m, from, Point))
      BY <1>1, <1>2, <1>4, <2>2, <2>3, <2>4, <2>7, PassesControlByte
    <3>2. AfterControlByte(m, from, Point) = <<Read + 1, Written, ram[source]>>
      BY <1>2, <1>4, <2>2, <2>4 DEF AfterControlByte
    <3>3. ram[source] \in Byte /\ ram[source] \in Nat
      BY <2>1, SizesAssumption DEF Typed, StateTyped, Memories, Byte
    <3>4. stage' = AfterControl(ram[source])
      BY <1>8, <2>7 DEF ReadControl
    <3>5. stage' \in {"token", "control"} /\ (stage' = "token" <=> ram[source] > 1)
      BY <3>3, <3>4, AfterControlIs
    <3>6. Point' = <<Read', Written', IF stage' = "token" THEN control' ELSE 1>>
      BY <3>5 DEF Point, Read, Written
    <3>7. Point' = AfterControlByte(m, from, Point)
      BY <2>1, <2>5, <2>7, <3>2, <3>3, <3>5, <3>6
    <3> QED
      BY <1>5, <3>1, <3>5, <3>7
  <2> QED
    BY <2>6, <2>7
<1>9. CASE CopyLiteral
  <2>1. /\ stage = "token" /\ control % 2 = 1 /\ source \in Address /\ source' = source + 1
        /\ control' = control \div 2 /\ destination' = destination + 1 /\ control > 1
    BY <1>9 DEF CopyLiteral, IsMapped, Typed, StateTyped
  <2>2. /\ Passes(m, from, limit, Point) /\ Point[3] = control /\ Point[2] = Written
        /\ BytesOf(control) = 1 /\ SizeOf(control, m[source]) = 1
    BY <1>2, <2>1 DEF Parsed, BytesOf, SizeOf
  <2>3. BytesOf(Point[3]) <= Left(from, Point)
    BY <1>1, <1>2, <2>1, <2>2 DEF Address
  <2>4. Passes(m, from, limit, AfterToken(m, from, Point))
    BY <1>1, <1>2, <2>1, <2>2, <2>3, PassesToken
  <2>5. AfterToken(m, from, Point) = <<Read + 1, Written + 1, control \div 2>>
    BY <1>2, <1>4, <2>2 DEF AfterToken
  <2>6. control \div 2 \in Byte /\ control \div 2 >= 1 /\ control \div 2 \in Nat
    BY <1>1, <2>1, HalfIsPositive, SizesAssumption DEF Byte
  <2>7. stage' \in {"token", "control"} /\ (stage' = "token" <=> control \div 2 > 1)
    BY <1>9, <2>6, AfterControlIs DEF CopyLiteral
  <2>8. Point' = <<Read', Written', IF stage' = "token" THEN control' ELSE 1>>
    BY <2>7 DEF Point, Read, Written
  <2>9. Read' = Read + 1 /\ Written' = Written + 1
    BY <1>1, <1>3, <2>1 DEF Read, Written
  <2>10. Point' = AfterToken(m, from, Point)
    BY <2>1, <2>5, <2>6, <2>7, <2>8, <2>9
  <2> QED
    BY <1>5, <2>4, <2>7, <2>10
<1>10. CASE ReadReference
  <2>1. /\ stage = "token" /\ control % 2 = 0 /\ source' = source + 2 /\ control > 1
        /\ control' = control /\ destination' = destination /\ stage' = "copy"
    BY <1>10 DEF ReadReference, Typed, StateTyped
  <2>2. source \in Address /\ source + 1 \in Address /\ length' = TokenLength(ram[source])
    BY <1>10, ReferenceLength DEF Typed
  <2>3. m[source] = ram[source]
    BY <1>1, <2>1 DEF ReadsAs
  <2>4. /\ Passes(m, from, limit, Point) /\ Point[3] = control /\ Point[2] = Written
        /\ BytesOf(control) = 2 /\ SizeOf(control, m[source]) = length'
    BY <1>2, <2>1, <2>2, <2>3 DEF Parsed, BytesOf, SizeOf
  <2>5. BytesOf(Point[3]) <= Left(from, Point)
    BY <1>1, <1>2, <2>2, <2>4 DEF Address
  <2>6. Passes(m, from, limit, AfterToken(m, from, Point))
    BY <1>1, <1>2, <2>1, <2>4, <2>5, PassesToken
  <2>7. AfterToken(m, from, Point) = <<Read + 2, Written + length', control \div 2>>
    BY <1>2, <1>4, <2>4 DEF AfterToken
  <2>8. Point' = <<Read', Written' + length', control' \div 2>>
    BY <2>1 DEF Point, Read, Written
  <2>9. Read' = Read + 2 /\ Written' = Written
    BY <1>1, <1>3, <2>1 DEF Read, Written
  <2>10. Point' = AfterToken(m, from, Point)
    BY <2>1, <2>7, <2>8, <2>9
  <2> QED
    BY <1>5, <2>1, <2>6, <2>10
<1>11. CASE CopyByte
  <2>1. /\ stage = "copy" /\ source' = source /\ control > 1
        /\ destination' = destination + 1 /\ length' = length - 1
    BY <1>11 DEF CopyByte, Typed, StateTyped
  <2>2. Point = <<Read, Written + length, control \div 2>>
    BY <2>1 DEF Point, Read, Written
  <2>3. Read' = Read /\ Written' = Written + 1 /\ Written \in Int
    BY <1>1, <1>3, <2>1 DEF Read, Written
  <2>4. Passes(m, from, limit, Point)
    BY <2>1 DEF Parsed
  <2>5. CASE length = 1
    <3>1. control \div 2 \in Byte /\ control \div 2 >= 1 /\ control \div 2 \in Nat
      BY <1>1, <2>1, HalfIsPositive, SizesAssumption DEF Byte
    <3>2. /\ control' = control \div 2 /\ stage' \in {"token", "control"}
          /\ (stage' = "token" <=> control \div 2 > 1)
      BY <1>11, <2>5, <3>1, AfterControlIs DEF CopyByte
    <3>3. Point' = <<Read', Written', IF stage' = "token" THEN control' ELSE 1>>
      BY <3>2 DEF Point, Read, Written
    <3>4. Point' = Point
      BY <2>2, <2>3, <2>5, <3>1, <3>2, <3>3
    <3> QED
      BY <1>5, <2>4, <3>2, <3>4
  <2>6. CASE length # 1
    <3>1. control' = control /\ stage' = "copy"
      BY <1>11, <2>1, <2>6 DEF CopyByte
    <3>2. Point' = <<Read', Written' + length', control' \div 2>>
      BY <3>1 DEF Point, Read, Written
    <3>3. Written' + length' = Written + length
      BY <1>1, <2>1, <2>3
    <3>4. Point' = Point
      BY <2>2, <2>3, <3>1, <3>2, <3>3
    <3> QED
      BY <1>5, <2>4, <3>1, <3>4
  <2> QED
    BY <2>5, <2>6
<1> QED
  BY <1>6, <1>7, <1>8, <1>9, <1>10, <1>11 DEF Decompress

-----------------------------------------------------------------------------
(***************************************************************************)
(* What is written is output, and only that changes.                       *)
(***************************************************************************)
\* The addresses from one up to, and without, another.
LEMMA SpanIs ==
  ASSUME NEW low \in Nat, NEW high \in Nat, NEW b
  PROVE  b \in low .. high - 1 <=> b \in Nat /\ low <= b /\ b < high
OBVIOUS

\* A step writes at the destination only, and never goes back.
LEMMA StepsWriteOutput ==
  ASSUME Typed, Decompress
  PROVE  /\ call' = call /\ report' = report
         /\ source' \in source .. RamSize /\ destination' \in destination .. destination + 1
         /\ \A a \in Address \ (destination .. destination' - 1) : ram'[a] = ram[a]
<1>1. /\ source \in Nat /\ destination \in Nat /\ RamSize \in Nat
      /\ call.entry \in Nat /\ call.output \in Nat
  BY CallIs, SizesAssumption DEF Typed, StateTyped
<1>2. call' = call /\ report' = report
  BY DEF Decompress, SetOutputStart, Strays, ReadControl, CopyLiteral, ReadReference, CopyByte
<1>3. /\ source' \in {source, source + 1, source + 2}
      /\ destination' \in {destination, destination + 1}
  BY DEF Decompress, SetOutputStart, Strays, ReadControl, CopyLiteral, ReadReference, CopyByte
<1>4. source' \in source .. RamSize /\ destination' \in destination .. destination + 1
  BY <1>1, <1>2, <1>3 DEF Typed, StateTyped
<1>5. \/ ram' = ram
      \/ destination' = destination + 1 /\ \E v : ram' = [ram EXCEPT ![destination] = v]
  BY DEF Decompress, SetOutputStart, Strays, ReadControl, CopyLiteral, ReadReference, CopyByte
<1>6. ASSUME NEW a \in Address \ (destination .. destination' - 1) PROVE ram'[a] = ram[a]
  <2>1. CASE ram' = ram
    BY <2>1
  <2>2. CASE destination' = destination + 1 /\ \E v : ram' = [ram EXCEPT ![destination] = v]
    <3>1. a # destination
      BY <1>1, <1>6, <2>2
    <3> QED
      BY <1>6, <2>2, <3>1 DEF Typed, StateTyped, Memories
  <2> QED
    BY <1>5, <2>1, <2>2
<1> QED
  BY <1>2, <1>4, <1>6

\* While the output is apart from it, the stream stays as it was.
LEMMA StepsLeaveTheStream ==
  ASSUME Typed, Decompress, Apart'
  PROVE  Apart /\ \A b \in call.entry .. source' - 1 :
                    /\ b \in Address /\ ram'[b] = ram[b]
                    /\ b \notin call.output .. destination' - 1
<1>1. /\ source \in Nat /\ destination \in Nat /\ RamSize \in Nat
      /\ call.entry \in Nat /\ call.output \in Nat
      /\ destination >= call.output /\ source >= call.entry
  BY CallIs, SizesAssumption DEF Typed, StateTyped
<1>2. /\ source' \in source .. RamSize /\ destination' \in destination .. destination + 1
      /\ \A a \in Address \ (destination .. destination' - 1) : ram'[a] = ram[a]
      /\ call' = call
  BY StepsWriteOutput
<1>3. call.entry >= destination' \/ call.output >= source'
  BY <1>2 DEF Apart
<1>4. Apart
  BY <1>1, <1>2, <1>3 DEF Apart
<1>5. ASSUME NEW b \in call.entry .. source' - 1
      PROVE  /\ b \in Address /\ b \notin call.output .. destination' - 1
             /\ b \notin destination .. destination' - 1
  <2>1. source' \in Nat /\ source' <= RamSize /\ destination' \in Nat /\ destination' >= destination
    BY <1>1, <1>2
  <2>2. b \in Nat /\ b >= call.entry /\ b < source'
    <3>1. b \in Nat /\ call.entry <= b /\ b < source'
      BY <1>1, <1>5, <2>1, SpanIs, Zenon
    <3> QED
      BY <1>1, <3>1
  <2>3. b \in Address
    BY <1>1, <2>1, <2>2 DEF Address
  <2>4. b < call.output \/ b >= destination'
    BY <1>1, <1>3, <2>1, <2>2
  <2>5. ~ (call.output <= b /\ b < destination') /\ ~ (destination <= b /\ b < destination')
    BY <1>1, <2>1, <2>2, <2>4
  <2>6. b \notin call.output .. destination' - 1
    BY <1>1, <2>1, <2>5, SpanIs, Zenon
  <2>7. b \notin destination .. destination' - 1
    BY <1>1, <2>1, <2>5, SpanIs, Zenon
  <2> QED
    BY <2>3, <2>6, <2>7
<1> QED
  BY <1>2, <1>4, <1>5

(***************************************************************************)
(* What a consistent report promises, and that every step keeps to it.     *)
(***************************************************************************)
Promises(m, s, d) ==
  /\ Found(m).status = "complete"
  /\ s - call.entry <= Found(m).sourceBytes
  /\ d - call.output <= Found(m).outputBytes
  /\ call.output + Found(m).outputBytes <= RamSize
  /\ ~ (/\ call.entry < call.output + Found(m).outputBytes
        /\ call.output < call.entry + Found(m).sourceBytes)

\* What is found is in bounds.
LEMMA FoundIs ==
  ASSUME StateTyped, NEW m \in Memories
  PROVE  Ahead(Found(m), <<0, 0, 1>>, call.entry, call.limit)
<1>1. /\ call.entry \in Address /\ call.limit \in Nat /\ call.entry \in Nat
      /\ RamSize \in Nat /\ call.entry <= RamSize
  BY CallIs, SizesAssumption DEF StateTyped, Address
<1>2. /\ Start \in Points /\ Start = <<0, 0, 1>>
      /\ Left(call.entry, Start) >= 0 /\ Start[2] <= call.limit
  BY <1>1, StartPasses DEF Start, Left
<1> QED
  BY <1>1, <1>2, ScanStaysInBounds DEF Found

\* After a consistent report the output stays apart and in memory.
LEMMA StepKeepsPromise ==
  ASSUME Typed, Decompress, NEW m \in Memories, NEW s \in Nat, NEW d \in Nat,
         Promises(m, s, d), Parsed(m)
  PROVE  Apart' /\ stage' # "strayed"
<1> DEFINE extent == Found(m)
<1>1. /\ source \in Nat /\ destination \in Nat /\ RamSize \in Nat
      /\ call.entry \in Nat /\ call.output \in Nat /\ call.entry \in Address /\ call.limit \in Nat
      /\ source <= RamSize /\ destination <= RamSize /\ length \in Nat /\ control \in Nat
      /\ (stage = "copy" => length >= 1) /\ (stage = "token" => control > 1)
  BY CallIs, SizesAssumption, UnitsOfByte DEF Typed, StateTyped, Byte
<1>2. call' = call
  BY StepsWriteOutput
<1>3. stage \in {"prologue", "control", "token", "copy"}
  BY DEF Decompress, SetOutputStart, Strays, ReadControl, CopyLiteral, ReadReference, CopyByte
<1>4. /\ Point \in Points /\ Point[1] = source - call.entry /\ Left(call.entry, Point) >= 0
      /\ Point[2] = IF stage = "copy" THEN destination - call.output + length
                                      ELSE destination - call.output
      /\ Point[3] = IF stage = "token" THEN control
                     ELSE IF stage = "copy" THEN control \div 2 ELSE 1
  BY <1>1, PointIs DEF Typed, Read, Written
<1>5. Passes(m, call.entry, call.limit, Point) /\ extent.status = "complete"
  BY <1>3 DEF Parsed, Promises
<1>6. /\ extent.sourceBytes \in Point[1] .. RamSize - call.entry
      /\ extent.outputBytes \in Point[2] .. call.limit
      /\ Point[3] > 1 => /\ Point[1] + BytesOf(Point[3]) <= extent.sourceBytes
                         /\ Point[2] + 1 <= extent.outputBytes
      /\ Point[3] <= 1 => Point[1] + 1 <= extent.sourceBytes
  BY <1>1, <1>4, <1>5, CompleteLooksAhead DEF Found
<1>7. /\ extent.sourceBytes \in Int /\ extent.outputBytes \in Int
      /\ extent.sourceBytes <= RamSize - call.entry
      /\ call.output + extent.outputBytes <= RamSize
      /\ \/ call.entry >= call.output + extent.outputBytes
         \/ call.output >= call.entry + extent.sourceBytes
  <2>1. extent.sourceBytes \in Nat /\ extent.outputBytes \in Nat
    BY <1>1, FoundIs DEF Ahead, Typed
  <2> HIDE DEF extent
  <2>2. extent = Found(m)
    BY DEF extent
  <2> QED
    BY <1>1, <1>4, <1>6, <2>1, <2>2 DEF Promises
<1> HIDE DEF extent
<1>8. ASSUME source' - call.entry <= extent.sourceBytes,
             destination' - call.output <= extent.outputBytes,
             source' \in Nat, destination' \in Nat
      PROVE  Apart'
  BY <1>1, <1>2, <1>7, <1>8 DEF Apart
<1>9. CASE SetOutputStart
  BY <1>1, <1>4, <1>6, <1>8, <1>9 DEF SetOutputStart
<1>10. CASE Strays
  <2>1. CASE stage = "control" /\ ~IsMapped(source)
    BY <1>1, <1>4, <1>6, <1>7, <2>1 DEF IsMapped, Address
  <2>2. CASE stage = "token" /\ (~IsMapped(source) \/ (control % 2 = 0 /\ ~IsMapped(source + 1)))
    <3>1. BytesOf(control) \in 1 .. 2 /\ (control % 2 = 0 => BytesOf(control) = 2)
      BY DEF BytesOf
    <3>2. source - call.entry + BytesOf(control) <= extent.sourceBytes
      BY <1>1, <1>4, <1>6, <2>2
    <3> QED
      BY <1>1, <1>7, <2>2, <3>1, <3>2 DEF IsMapped, Address
  <2>3. CASE stage \in {"token", "copy"} /\ ~IsMapped(destination)
    <3>1. destination - call.output + 1 <= extent.outputBytes
      BY <1>1, <1>4, <1>6, <1>7, <2>3
    <3> QED
      BY <1>1, <1>7, <2>3, <3>1 DEF IsMapped, Address
  <2> QED
    BY <1>10, <2>1, <2>2, <2>3 DEF Strays
<1>11. CASE ReadControl
  <2>1. source' = source + 1 /\ destination' = destination /\ stage = "control"
    BY <1>11 DEF ReadControl
  <2>2. stage' # "strayed"
    BY <1>11 DEF ReadControl, AfterControl
  <2> QED
    BY <1>1, <1>4, <1>6, <1>7, <1>8, <2>1, <2>2
<1>12. CASE CopyLiteral
  <2>1. source' = source + 1 /\ destination' = destination + 1 /\ stage = "token" /\ control % 2 = 1
    BY <1>12 DEF CopyLiteral
  <2>2. stage' # "strayed"
    BY <1>12 DEF CopyLiteral, AfterControl
  <2>3. BytesOf(control) = 1
    BY <2>1 DEF BytesOf
  <2> QED
    BY <1>1, <1>4, <1>6, <1>7, <1>8, <2>1, <2>2, <2>3
<1>13. CASE ReadReference
  <2>1. /\ source' = source + 2 /\ destination' = destination /\ stage = "token"
        /\ control % 2 = 0 /\ stage' = "copy"
    BY <1>13 DEF ReadReference
  <2>2. BytesOf(control) = 2
    BY <2>1 DEF BytesOf
  <2> QED
    BY <1>1, <1>4, <1>6, <1>7, <1>8, <2>1, <2>2
<1>14. CASE CopyByte
  <2>1. source' = source /\ destination' = destination + 1 /\ stage = "copy"
    BY <1>14 DEF CopyByte
  <2>2. stage' # "strayed"
    BY <1>14 DEF CopyByte, AfterControl
  <2> QED
    BY <1>1, <1>4, <1>6, <1>7, <1>8, <2>1, <2>2
<1> QED
  BY <1>9, <1>10, <1>11, <1>12, <1>13, <1>14 DEF Decompress

-----------------------------------------------------------------------------
(***************************************************************************)
(* The inductive invariant.  Before the report every memory that reads as  *)
(* this one does so far has been parsed up to here; the report is that of  *)
(* one such memory, which this one still is outside its output.            *)
(***************************************************************************)
ReportOf(m, s, d) ==
  [scan |-> Found(m).status, sourceBytes |-> Found(m).sourceBytes,
   outputBytes |-> Found(m).outputBytes, consumed |-> s - call.entry,
   consistent |-> Promises(m, s, d)]

\* Reported of this memory, with the registers at s and d.
Reported(m, s, d) ==
  /\ report = ReportOf(m, s, d)
  /\ s \in call.entry .. source /\ d \in call.output .. destination
  /\ \A a \in Address \ (call.output .. destination - 1) : m[a] = ram[a]
  /\ Apart => Parsed(m)
  /\ Promises(m, s, d) => Apart /\ stage # "strayed"

\* Not yet reported: every memory with the stream read so far is parsed.
StreamParsed == \A m \in Memories : ReadsAs(m, source) /\ Apart => Parsed(m)

ReportStands ==
  \/ report = NoReport /\ StreamParsed
  \/ report = Unresolved
  \/ \E m \in Memories, s \in Nat, d \in Nat : Reported(m, s, d)

LzInvariant == StateTyped /\ ReportStands

\* Nothing is reported and nothing read.
LEMMA InitReportStands == Init => ReportStands
<1> SUFFICES ASSUME Init PROVE ReportStands
  OBVIOUS
<1>1. StateTyped
  BY InitStateTyped
<1>2. call.entry \in Nat /\ call.output \in Nat /\ call.limit \in Nat
  BY <1>1, CallIs DEF StateTyped
<1>3. Point = Start
  BY <1>2 DEF Init, Point, Start
<1>4. \A m \in Memories : Parsed(m)
  BY <1>2, <1>3, StartPasses DEF Init, Parsed
<1> QED
  BY <1>4 DEF Init, ReportStands, StreamParsed

\* Before the report: what is read next is parsed in every such memory.
LEMMA StepStreamParsed ==
  ASSUME Typed, Decompress, StreamParsed
  PROVE  StreamParsed'
<1>1. ASSUME NEW m \in Memories, ReadsAs(m, source)', Apart' PROVE Parsed(m)'
  <2>1. /\ source \in Nat /\ call.entry \in Nat /\ source' \in Nat /\ source <= source'
        /\ call' = call
    BY CallIs, StepsWriteOutput, SizesAssumption DEF Typed, StateTyped
  <2>2. \A b \in call.entry .. source' - 1 : m[b] = ram'[b]
    BY <1>1, <2>1 DEF ReadsAs
  <2>3. Apart /\ ReadsAs(m, source')
    BY <1>1, <2>2, StepsLeaveTheStream DEF ReadsAs
  <2>4. ReadsAs(m, source)
    <3>1. ASSUME NEW b \in call.entry .. source - 1 PROVE b \in call.entry .. source' - 1
      <4>1. b \in Nat /\ call.entry <= b /\ b < source
        BY <2>1, <3>1, SpanIs, Zenon
      <4>2. b < source'
        BY <2>1, <4>1
      <4> QED
        BY <2>1, <4>1, <4>2, SpanIs, Zenon
    <3> QED
      BY <2>3, <3>1 DEF ReadsAs
  <2>5. Parsed(m)
    BY <1>1, <2>3, <2>4 DEF StreamParsed
  <2> QED
    BY <1>1, <2>3, <2>5, StepParses
<1> QED
  BY <1>1 DEF StreamParsed

\* After it: the memory reported of is parsed on.
LEMMA StepReported ==
  ASSUME Typed, Decompress, NEW m \in Memories, NEW s \in Nat, NEW d \in Nat, Reported(m, s, d)
  PROVE  Reported(m, s, d)'
<1>1. /\ call' = call /\ report' = report
      /\ source' \in source .. RamSize /\ destination' \in destination .. destination + 1
      /\ \A a \in Address \ (destination .. destination' - 1) : ram'[a] = ram[a]
  BY StepsWriteOutput
<1>2. /\ source \in Nat /\ destination \in Nat /\ call.entry \in Nat /\ call.output \in Nat
      /\ source' \in Nat /\ destination' \in Nat /\ source <= source' /\ destination <= destination'
      /\ RamSize \in Nat /\ destination >= call.output
  BY <1>1, CallIs, SizesAssumption DEF Typed, StateTyped
<1>3. Promises(m, s, d)' = Promises(m, s, d) /\ ReportOf(m, s, d)' = ReportOf(m, s, d)
  BY <1>1 DEF Promises, ReportOf, Found
<1>4. report' = ReportOf(m, s, d)'
  BY <1>1, <1>3 DEF Reported
<1>5. s \in call.entry .. source' /\ d \in call.output .. destination'
  BY <1>2 DEF Reported
<1>6. /\ call.output .. destination - 1 \subseteq call.output .. destination' - 1
       /\ destination .. destination' - 1 \subseteq call.output .. destination' - 1
  <2>1. ASSUME NEW b, \/ b \in call.output .. destination - 1
                     \/ b \in destination .. destination' - 1
        PROVE  b \in call.output .. destination' - 1
    <3>1. \/ b \in Nat /\ call.output <= b /\ b < destination
          \/ b \in Nat /\ destination <= b /\ b < destination'
      BY <1>2, <2>1, SpanIs, Zenon
    <3>2. b \in Nat /\ call.output <= b /\ b < destination'
      BY <1>2, <3>1
    <3> QED
      BY <1>2, <3>2, SpanIs, Zenon
  <2> QED
    BY <2>1
<1>7. ASSUME NEW a \in Address \ (call.output .. destination' - 1) PROVE m[a] = ram'[a]
  <2>1. a \notin call.output .. destination - 1 /\ a \notin destination .. destination' - 1
    BY <1>6
  <2> QED
    BY <1>1, <2>1 DEF Reported
<1>8. ASSUME Apart' PROVE Parsed(m)'
  <2>1. ASSUME NEW b \in call.entry .. source' - 1 PROVE m[b] = ram[b]
    <3>1. b \in Address /\ b \notin call.output .. destination' - 1
      BY <1>8, StepsLeaveTheStream
    <3>2. b \notin call.output .. destination - 1
      BY <1>6, <3>1
    <3> QED
      BY <3>1, <3>2 DEF Reported
  <2>2. Apart /\ ReadsAs(m, source')
    BY <1>8, <2>1, StepsLeaveTheStream DEF ReadsAs
  <2> QED
    BY <2>2, StepParses DEF Reported
<1>9. ASSUME Promises(m, s, d) PROVE Apart' /\ stage' # "strayed"
  BY <1>9, StepKeepsPromise DEF Reported
<1>10. call'.entry = call.entry /\ call'.output = call.output
  BY <1>1
<1> QED
  BY <1>3, <1>4, <1>5, <1>7, <1>8, <1>9, <1>10 DEF Reported

\* The report is of memory as it is.
LEMMA CutOffReports ==
  ASSUME StateTyped, report = NoReport /\ StreamParsed, CutOff
  PROVE  ReportStands'
<1>1. /\ UNCHANGED <<call, ram, source, destination, stage, control, length>>
      /\ stage \in {"prologue", "control", "token", "copy"} /\ report' = Describe
  BY DEF CutOff
<1>2. CASE ~ EntryResolves
  BY <1>1, <1>2 DEF Describe, ReportStands
<1>3. CASE EntryResolves
  <2>1. call.output = outputStart
    BY <1>3 DEF EntryResolves
  <2>2. /\ source \in Nat /\ destination \in Nat /\ call.entry \in Nat /\ call.output \in Nat
        /\ source >= call.entry /\ destination >= call.output /\ ram \in Memories
    BY CallIs, SizesAssumption DEF StateTyped
  <2>3. ScanLzExtent(call.entry, call.limit) = Found(ram)
    BY DEF ScanLzExtent, Found
  <2>4. Consistent(Found(ram)) = Promises(ram, source, destination)
    BY <2>1, Zenon DEF Consistent, OverlapsOutput, Promises
  <2>5. Describe = ReportOf(ram, source, destination)
    BY <1>3, <2>3, <2>4, Zenon DEF Describe, ReportOf
  <2>6. Apart => Parsed(ram)
    BY <2>2 DEF StreamParsed, ReadsAs
  <2>7. ASSUME Promises(ram, source, destination) PROVE Apart
    <3>1. Found(ram).sourceBytes \in Int /\ Found(ram).outputBytes \in Int
      BY <2>2, FoundIs, CallIs, SizesAssumption DEF Ahead, StateTyped, Address
    <3> QED
      BY <2>2, <2>7, <3>1 DEF Promises, Apart
  <2> DEFINE s == source
  <2> DEFINE d == destination
  <2>8. PICK m \in Memories, a \in Nat, b \in Nat : m = ram /\ a = source /\ b = destination
    BY <2>2
  <2>9. /\ ReportOf(m, a, b)' = ReportOf(m, a, b) /\ Promises(m, a, b)' = Promises(m, a, b)
        /\ Parsed(m)' = Parsed(m) /\ Apart' = Apart
    BY <1>1 DEF ReportOf, Promises, Found, Parsed, Point, Read, Written, Apart
  <2>10. Reported(m, a, b)'
    BY <1>1, <2>2, <2>5, <2>6, <2>7, <2>8, <2>9 DEF Reported
  <2> QED
    BY <2>10 DEF ReportStands
<1> QED
  BY <1>2, <1>3

\* Every step keeps the report.
LEMMA StepReportStands ==
  ASSUME StateTyped, StateTyped', ReportStands, [Next]_vars
  PROVE  ReportStands'
<1>1. CASE UNCHANGED vars
  BY <1>1 DEF vars, ReportStands, StreamParsed, Reported, ReadsAs, ReportOf, Promises,
              Found, Parsed, Point, Read, Written, Apart
<1>2. CASE CutOff
  <2>1. report = NoReport
    BY <1>2 DEF CutOff
  <2>2. CASE StreamParsed
    BY <1>2, <2>1, <2>2, CutOffReports
  <2>3. ASSUME NEW m \in Memories PROVE report.scan \notin Statuses
    BY <2>1 DEF NoReport, Statuses
  <2>4. CASE report = Unresolved
    BY <2>1, <2>4 DEF NoReport, Unresolved
  <2>5. CASE \E m \in Memories, s \in Nat, d \in Nat : Reported(m, s, d)
    <3>1. PICK m \in Memories, s \in Nat, d \in Nat : report = ReportOf(m, s, d)
      BY <2>5 DEF Reported
    <3>2. report.scan = Found(m).status
      BY <3>1 DEF ReportOf
    <3>3. Found(m).status \in Statuses
      BY FoundIs DEF Ahead
    <3> QED
      BY <2>3, <3>2, <3>3
  <2> QED
    BY <2>2, <2>4, <2>5 DEF ReportStands
<1>3. CASE Decompress
  <2>1. Typed
    BY DEF Typed
  <2>2. report' = report
    BY <1>3, <2>1, StepsWriteOutput
  <2>3. CASE report = NoReport /\ StreamParsed
    BY <1>3, <2>1, <2>2, <2>3, StepStreamParsed DEF ReportStands
  <2>4. CASE report = Unresolved
    BY <2>2, <2>4 DEF ReportStands
  <2>5. CASE \E m \in Memories, s \in Nat, d \in Nat : Reported(m, s, d)
    BY <1>3, <2>1, <2>5, StepReported DEF ReportStands
  <2> QED
    BY <2>3, <2>4, <2>5 DEF ReportStands
<1> QED
  BY <1>1, <1>2, <1>3 DEF Next, Over

\* The invariant is inductive.
LEMMA LzInvariantHolds == Spec => []LzInvariant
<1>1. Init => LzInvariant
  BY InitStateTyped, InitReportStands DEF LzInvariant
<1>2. LzInvariant /\ [Next]_vars => LzInvariant'
  <2>1. SUFFICES ASSUME LzInvariant, [Next]_vars PROVE LzInvariant'
    OBVIOUS
  <2>2. StateTyped'
    BY <2>1, StepStateTyped DEF LzInvariant
  <2> QED
    BY <2>1, <2>2, StepReportStands DEF LzInvariant
<1> QED
  BY <1>1, <1>2, PTL DEF Spec

-----------------------------------------------------------------------------
(***************************************************************************)
(* The report.                                                             *)
(***************************************************************************)
\* What the invariant says of the fields of a report.
LEMMA ReportIs ==
  ASSUME StateTyped, ReportStands
  PROVE  \/ report \in {NoReport, Unresolved}
         \/ \E m \in Memories, s \in Nat, d \in Nat :
              /\ Reported(m, s, d) /\ Ahead(Found(m), <<0, 0, 1>>, call.entry, call.limit)
              /\ report.scan = Found(m).status /\ report.consumed = s - call.entry
              /\ report.sourceBytes = Found(m).sourceBytes
              /\ report.outputBytes = Found(m).outputBytes
              /\ report.consistent = Promises(m, s, d)
<1>1. CASE report \in {NoReport, Unresolved}
  BY <1>1
<1>2. CASE \E m \in Memories, s \in Nat, d \in Nat : Reported(m, s, d)
  <2>1. PICK m \in Memories, s \in Nat, d \in Nat : Reported(m, s, d)
    BY <1>2
  <2>2. Ahead(Found(m), <<0, 0, 1>>, call.entry, call.limit)
    BY FoundIs
  <2>3. report = ReportOf(m, s, d)
    BY <2>1 DEF Reported
  <2>4. /\ report.scan = Found(m).status /\ report.consumed = s - call.entry
        /\ report.sourceBytes = Found(m).sourceBytes
        /\ report.outputBytes = Found(m).outputBytes
        /\ report.consistent = Promises(m, s, d)
    BY <2>3, Zenon DEF ReportOf
  <2> QED
    BY <2>1, <2>2, <2>4
<1> QED
  BY <1>1, <1>2 DEF ReportStands

\* So the report is well formed,
LEMMA InvariantGivesTypes == LzInvariant => TypeOK
<1> SUFFICES ASSUME LzInvariant PROVE TypeOK
  OBVIOUS
<1>1. /\ call.entry \in Nat /\ call.output \in Nat /\ call.limit \in Nat /\ RamSize \in Nat
      /\ source \in call.entry .. RamSize /\ destination \in call.output .. RamSize
  BY CallIs, SizesAssumption DEF LzInvariant, StateTyped
<1>2. source \in 0 .. RamSize /\ destination \in 0 .. RamSize
  BY <1>1
<1>3. CASE report \in {NoReport, Unresolved}
  <2>1. /\ report.scan \in {"none", "not-run"} /\ report.sourceBytes = 0 /\ report.outputBytes = 0
        /\ report.consumed = 0 /\ report.consistent = FALSE
    BY <1>3 DEF NoReport, Unresolved
  <2>2. /\ report.scan \in {"none", "not-run", "complete", "truncated", "exceeds", "missing"}
        /\ report.sourceBytes \in 0 .. RamSize /\ report.outputBytes \in 0 .. call.limit
        /\ report.consumed \in 0 .. RamSize
    BY <1>1, <2>1
  <2>3. report.consistent \in BOOLEAN
    BY <2>1, Zenon
  <2> QED
    BY <1>2, <2>2, <2>3 DEF TypeOK, LzInvariant, StateTyped, Memories
<1>4. CASE report \notin {NoReport, Unresolved}
  <2>1. PICK m \in Memories, s \in Nat, d \in Nat :
              /\ Reported(m, s, d) /\ Ahead(Found(m), <<0, 0, 1>>, call.entry, call.limit)
              /\ report.scan = Found(m).status /\ report.consumed = s - call.entry
              /\ report.sourceBytes = Found(m).sourceBytes
              /\ report.outputBytes = Found(m).outputBytes
              /\ report.consistent = Promises(m, s, d)
    BY <1>4, ReportIs DEF LzInvariant
  <2>2. /\ Found(m).status \in Statuses /\ Found(m).sourceBytes \in 0 .. RamSize - call.entry
        /\ Found(m).outputBytes \in 0 .. call.limit
    BY <2>1 DEF Ahead
  <2>3. report.sourceBytes \in 0 .. RamSize /\ report.outputBytes \in 0 .. call.limit
    BY <1>1, <2>1, <2>2
  <2>4. s \in call.entry .. source
    BY <2>1 DEF Reported
  <2>5. report.consumed \in 0 .. RamSize
    BY <1>1, <2>1, <2>4
  <2>6. report.scan \in {"none", "not-run", "complete", "truncated", "exceeds", "missing"}
    BY <2>1, <2>2 DEF Statuses
  <2>7. report.consistent \in BOOLEAN
    BY <2>1, Zenon DEF Promises
  <2> QED
    BY <1>2, <2>3, <2>5, <2>6, <2>7 DEF TypeOK, LzInvariant, StateTyped, Memories
<1> QED
  BY <1>3, <1>4

\* and true if it is consistent.
LEMMA InvariantMakesReportTrue == LzInvariant => ConsistentReportComesTrue
<1> SUFFICES ASSUME LzInvariant, report.consistent PROVE ConsistentReportComesTrue
  BY DEF ConsistentReportComesTrue
<1>1. report \notin {NoReport, Unresolved}
  BY DEF NoReport, Unresolved
<1>2. PICK m \in Memories, s \in Nat, d \in Nat :
              /\ Reported(m, s, d)
              /\ report.sourceBytes = Found(m).sourceBytes
              /\ report.outputBytes = Found(m).outputBytes
              /\ report.consistent = Promises(m, s, d)
  BY <1>1, ReportIs DEF LzInvariant
<1>3. Promises(m, s, d)
  BY <1>2
<1>4. Apart /\ stage # "strayed" /\ Parsed(m)
  BY <1>2, <1>3 DEF Reported
<1>5. Found(m).status = "complete"
  BY <1>3 DEF Promises
<1>6. ASSUME stage = "done" PROVE Found(m) = Extent("complete", Read, Written)
  BY <1>4, <1>5, <1>6 DEF Parsed
<1>7. ASSUME stage = "done"
      PROVE  /\ destination - call.output = report.outputBytes
             /\ source - call.entry = report.sourceBytes
  BY <1>2, <1>6, <1>7 DEF Extent, Read, Written
<1> QED
  BY <1>4, <1>7 DEF ConsistentReportComesTrue

\* A report of any call, cut off at any point of it, is well formed; one that
\* is consistent comes true, although the decompressor may meanwhile have
\* overwritten memory the scan read (describe and imageWrapperExtent).
THEOREM ReportsAreSound == Spec => []ReportIsSound
<1>1. LzInvariant => ReportIsSound
  BY InvariantGivesTypes, InvariantMakesReportTrue DEF ReportIsSound
<1> QED
  BY <1>1, LzInvariantHolds, PTL

\* A call that returned within its bound, with its output apart from its
\* stream, was reported as consistent or not at all.
THEOREM OrderlyCallsAreConsistent == Spec => []OrderlyCallIsConsistent
<1>1. LzInvariant => OrderlyCallIsConsistent
  <2> SUFFICES ASSUME LzInvariant, stage = "done", destination - call.output <= call.limit,
                      call.entry >= destination \/ call.output >= source,
                      report \notin {NoReport, Unresolved}
               PROVE  report.consistent
    BY DEF OrderlyCallIsConsistent
  <2>1. PICK m \in Memories, s \in Nat, d \in Nat :
              Reported(m, s, d) /\ report.consistent = Promises(m, s, d)
    BY ReportIs DEF LzInvariant
  <2>2. Parsed(m) /\ s \in call.entry .. source /\ d \in call.output .. destination
    BY <2>1 DEF Reported, Apart
  <2>3. /\ call.entry \in Nat /\ call.output \in Nat /\ call.limit \in Nat /\ RamSize \in Nat
        /\ source \in Nat /\ destination \in Nat /\ destination <= RamSize
    BY CallIs, SizesAssumption DEF LzInvariant, StateTyped
  <2>4. Found(m) = Extent("complete", Read, Written)
    BY <2>2, <2>3 DEF Parsed, Written
  <2>5. /\ Found(m).status = "complete" /\ Found(m).sourceBytes = source - call.entry
        /\ Found(m).outputBytes = destination - call.output
    BY <2>4 DEF Extent, Read, Written
  <2>6. /\ call.output + (destination - call.output) = destination
        /\ call.entry + (source - call.entry) = source
    BY <2>3
  <2>7. Promises(m, s, d)
    BY <2>2, <2>3, <2>5, <2>6 DEF Promises
  <2> QED
    BY <2>1, <2>7
<1> QED
  BY <1>1, LzInvariantHolds, PTL
=============================================================================
