-------------------------- MODULE KallocSearchProofs --------------------------
(***************************************************************************)
(* Proofs about KallocSearch, for every pool, word size and page size:     *)
(* the inductive invariant of the search, and that it implements Kalloc.   *)
(***************************************************************************)
EXTENDS KallocSearch, TLAPS

USE DEF Bits, Run, is_page_allocated

-----------------------------------------------------------------------------
(* Division: words of bits, and pages of units. *)

\* A multiple leaves no remainder.
LEMMA Multiple ==
    ASSUME NEW w \in Nat \ {0}, NEW q \in Nat
    PROVE  (w * q) % w = 0
  BY SMT

LEMMA SameWord ==
    ASSUME NEW w \in Nat \ {0}, NEW x \in Nat, x % w = 0,
           NEW j \in x .. x + w - 1
    PROVE  j \div w = x \div w
  BY SMT

LEMMA NextInWord ==
    ASSUME NEW w \in Nat \ {0}, NEW x \in Nat, (x + 1) % w # 0
    PROVE  (x + 1) \div w = x \div w
  BY SMT

LEMMA NextWord ==
    ASSUME NEW w \in Nat \ {0}, NEW x \in Nat, x % w = 0
    PROVE  (x + w) % w = 0
<1> DEFINE q == x \div w
<1>1. x = w * q /\ q \in Nat
  BY SMT
<1> HIDE DEF q
<1>2. x + w = w * (q + 1) /\ q + 1 \in Nat
  BY <1>1, SMT
<1> QED
  BY <1>2, Multiple

\* A page lies below a byte limit exactly when its number is below the limit
\* in pages.
LEMMA PageBelow ==
    ASSUME NEW u \in Nat \ {0}, NEW e \in Nat, NEW p \in Nat
    PROVE  (p + 1) * u <= e <=> p + 1 <= e \div u
<1> DEFINE q == e \div u
           r == e % u
<1>1. q \in Nat /\ r \in 0 .. u - 1 /\ e = u * q + r
  BY SMT
<1> HIDE DEF q, r
<1>2. CASE p + 1 <= q
  <2>1. (p + 1) * u <= q * u
    BY <1>1, <1>2, SMT
  <2> QED
    BY <1>1, <1>2, <2>1, SMT DEF q
<1>3. CASE p + 1 > q
  <2>1. p + 1 >= q + 1
    BY <1>1, <1>3, SMT
  <2>2. (p + 1) * u >= (q + 1) * u
    BY <1>1, <2>1, SMT
  <2>3. (q + 1) * u = q * u + u
    BY <1>1, SMT
  <2> QED
    BY <1>1, <1>3, <2>2, <2>3, SMT DEF q
<1> QED
  BY <1>1, <1>2, <1>3, SMT
-----------------------------------------------------------------------------
(* The inductive invariant *)

IInv == TypeOK /\ ScanInv /\ BootInv /\ PagesBelowEnd /\ NoPanic

LEMMA ConstantTypes ==
    /\ NumBits \in Nat /\ NumBits > 0 /\ NoPage \notin Int
    /\ WordBits \in Nat \ {0} /\ PageUnits \in Nat \ {0}
    /\ PoolEnd \in Nat /\ EcSize \in Nat /\ MaxRun \in Nat \ {0}
    /\ NumBits * PageUnits \in Nat
    /\ Len(BootSizes) \in Nat
    /\ \A k \in 1 .. Len(BootSizes) : BootSizes[k] \in 1 .. MaxRun
<1>1. NumBits * PageUnits \in Nat
  BY SearchAssumption, BitmapAssumption
<1>2. PoolEnd \in Nat
  BY <1>1, SearchAssumption
<1> QED
  BY <1>1, <1>2, SearchAssumption, BitmapAssumption, BootAssumption

LEMMA PageLimitType ==
    ASSUME end \in 0 .. PoolEnd
    PROVE  PageLimit \in 0 .. NumBits
<1>1. PoolEnd <= NumBits * PageUnits /\ PageUnits \in Nat \ {0} /\ NumBits \in Nat
  BY SearchAssumption, BitmapAssumption
<1>2. end \in Nat /\ end <= NumBits * PageUnits
  BY <1>1, SearchAssumption, BitmapAssumption
<1>3. PageLimit \in Nat
  BY <1>1, <1>2, SMT DEF PageLimit
<1>4. PageLimit <= NumBits
  <2>1. SUFFICES ASSUME PageLimit >= NumBits + 1 PROVE FALSE
    BY <1>1, <1>3
  <2>2. (NumBits + 1) * PageUnits <= end
    BY <1>1, <1>2, <2>1, PageBelow DEF PageLimit
  <2>3. (NumBits + 1) * PageUnits = NumBits * PageUnits + PageUnits
    BY <1>1, SMT
  <2> QED
    BY <1>1, <1>2, <2>2, <2>3
<1> QED
  BY <1>3, <1>4

LEMMA InitInv == Init => IInv
<1> SUFFICES ASSUME Init PROVE IInv
  OBVIOUS
<1> USE ConstantTypes
<1>1. TypeOK
  <2>1. bitmap \in Bitmaps
    BY Zenon DEF Init, Bitmaps
  <2>2. 0 \in Bits /\ end \in 0 .. PoolEnd /\ boot \in 0 .. Len(BootSizes) + 1
    BY DEF Init
  <2>3. /\ size \in 0 .. MaxRun /\ found \in 0 .. size /\ i \in Nat
         /\ first \in Bits
    BY DEF Init
  <2>4. panicked \in BOOLEAN /\ pc \in {"idle", "scan"}
    BY DEF Init
  <2>5. result \in Bits \cup {NoPage}
    BY DEF Init
  <2> QED
    BY <2>1, <2>2, <2>3, <2>4, <2>5 DEF TypeOK
<1>2. BootInv
  <2> QED
    BY BootAssumption DEF Init, BootInv
<1> QED
  BY <1>1, <1>2 DEF Init, IInv, ScanInv, PagesBelowEnd, NoPanic

\* Starting a search: nothing has been looked at.
LEMMA CallInv ==
    ASSUME IInv, NEW n \in 1 .. MaxRun, Call(n), boot' \in 0 .. Len(BootSizes) + 1
    PROVE  /\ TypeOK' /\ ScanInv' /\ PagesBelowEnd' /\ NoPanic'
<1> USE ConstantTypes DEF Call, IInv
<1>1. TypeOK'
  BY DEF TypeOK
<1>2. ScanInv'
  <2>1. 0 % WordBits = 0
    BY SMT
  <2>2. \A p \in Fits(bitmap', PageLimit', size') : p >= 0
    BY DEF Fits
  <2> QED
    BY <2>1, <2>2 DEF ScanInv, TypeOK
<1> QED
  BY <1>1, <1>2 DEF PagesBelowEnd, NoPanic, TypeOK

\* A free run that starts before i and inside the pages counted so far would
\* have to contain page i.
LEMMA RunReaches ==
    ASSUME IInv, InLoop, is_page_allocated(bitmap, i),
           NEW p \in Fits(bitmap, PageLimit, size)
    PROVE  p > i
<1> USE ConstantTypes DEF IInv
<1>1. p >= i - found /\ p \in Nat /\ size > 0
  BY DEF ScanInv, InLoop, TypeOK, Fits
<1>2. SUFFICES ASSUME p <= i PROVE FALSE
  BY <1>1 DEF TypeOK
<1>3. i \in Run(p, size)
  BY <1>1, <1>2 DEF TypeOK, InLoop
<1> QED
  BY <1>3 DEF Fits, FreeRun

LEMMA InLoopBit ==
    ASSUME TypeOK, InLoop
    PROVE  i \in Bits /\ i < PageLimit /\ PageLimit \in 0 .. NumBits /\ found < size
  BY PageLimitType, ConstantTypes DEF TypeOK, InLoop

LEMMA SkipInv == IInv /\ SkipFullWord => IInv'
<1> SUFFICES ASSUME IInv, SkipFullWord PROVE IInv'
  OBVIOUS
<1> USE ConstantTypes DEF IInv
<1>1. i \in Bits
  BY InLoopBit DEF SkipFullWord
<1>2. bitmap[i]
  BY <1>1 DEF SkipFullWord, FullWord
<1>3. i % WordBits = 0
  BY DEF ScanInv, SkipFullWord, InLoop, TypeOK
<1>4. i' = i + WordBits /\ i \in Nat
  BY DEF SkipFullWord, TypeOK
<1>5. TypeOK'
  BY <1>4 DEF TypeOK, SkipFullWord
<1>6. ScanInv'
  <2>1. i' % WordBits = 0
    BY <1>3, <1>4, NextWord
  <2>2. ASSUME NEW p \in Fits(bitmap, PageLimit, size)
        PROVE  p >= i'
    <3>1. p > i /\ p \in Bits
      BY <1>2, RunReaches DEF SkipFullWord, Fits
    <3>2. SUFFICES ASSUME p \in i .. i + WordBits - 1 PROVE FALSE
      BY <1>4, <3>1
    <3>3. p \div WordBits = i \div WordBits
      BY <1>3, <1>4, <3>2, SameWord
    <3>4. bitmap[p]
      BY <3>1, <3>3 DEF SkipFullWord, FullWord
    <3>5. p \in Run(p, size)
      BY <3>1 DEF ScanInv, SkipFullWord, InLoop, TypeOK
    <3> QED
      BY <3>4, <3>5 DEF Fits, FreeRun
  <2> QED
    BY <1>4, <2>1, <2>2 DEF ScanInv, SkipFullWord, PageLimit, TypeOK, InLoop
<1>7. BootInv' /\ PagesBelowEnd' /\ NoPanic'
  BY DEF BootInv, Booted, PagesBelowEnd, NoPanic, SkipFullWord
<1> QED
  BY <1>5, <1>6, <1>7

LEMMA NextBitWord ==
    ASSUME IInv, InLoop, ~FullWord(i), (i + 1) % WordBits # 0
    PROVE  i + 1 < NumBits /\ \E b \in Bits :
              b \div WordBits = (i + 1) \div WordBits /\ ~bitmap[b]
<1> USE ConstantTypes DEF IInv
<1>1. i \in Bits /\ i \in Nat
  BY InLoopBit
<1>2. (i + 1) \div WordBits = i \div WordBits
  BY <1>1, NextInWord
<1>3. NumBits % WordBits = 0
  BY SearchAssumption
<1>4. i + 1 # NumBits
  BY <1>3
<1>5. PICK b \in Bits : b \div WordBits = i \div WordBits /\ ~bitmap[b]
  BY DEF FullWord
<1>6. i + 1 < NumBits
  BY <1>1, <1>4
<1> QED
  BY <1>2, <1>5, <1>6

LEMMA FreeBitInv == IInv /\ FreeBit => IInv'
<1> SUFFICES ASSUME IInv, FreeBit PROVE IInv'
  OBVIOUS
<1> USE ConstantTypes DEF IInv
<1>1. i \in Bits /\ i < PageLimit /\ found < size /\ PageLimit \in Nat
  BY InLoopBit DEF FreeBit
<1>2. /\ i' = i + 1 /\ found' = found + 1
      /\ first' = IF found = 0 THEN i ELSE first
      /\ size' = size /\ bitmap' = bitmap /\ end' = end /\ pc' = pc
      /\ PageLimit' = PageLimit
  BY DEF FreeBit, PageLimit
<1>3. TypeOK'
  <2>1. found' \in 0 .. size' /\ i' \in Nat /\ first' \in Bits
    BY <1>1, <1>2 DEF TypeOK
  <2> QED
    BY <1>2, <2>1 DEF TypeOK, FreeBit
<1>4. ScanInv'
  <2>1. size > 0 /\ found <= i
    BY DEF ScanInv, FreeBit, InLoop
  <2>2. first' = i' - found' /\ i' <= PageLimit /\ found' <= i'
    BY <1>1, <1>2, <2>1 DEF ScanInv, FreeBit, InLoop, TypeOK
  <2>3. ASSUME NEW p \in Run(first', found') PROVE ~bitmap[p]
    <3>1. CASE p = i
      BY <3>1 DEF FreeBit
    <3>2. CASE p # i
      <4>1. found > 0 /\ p \in Run(first, found)
        BY <1>1, <1>2, <2>2, <3>2 DEF TypeOK, ScanInv, FreeBit, InLoop
      <4> QED
        BY <4>1 DEF ScanInv, FreeBit, InLoop
    <3> QED
      BY <3>1, <3>2
  <2>4. \A p \in Fits(bitmap, PageLimit, size) : p >= i' - found'
    BY <1>1, <1>2 DEF ScanInv, FreeBit, InLoop, TypeOK
  <2>5. i' % WordBits # 0 => i' < NumBits /\ ~FullWord(i)'
    BY <1>2, NextBitWord DEF FreeBit, FullWord
  <2> QED
    BY <1>2, <2>1, <2>2, <2>3, <2>4, <2>5 DEF ScanInv
<1>5. BootInv' /\ PagesBelowEnd' /\ NoPanic'
  BY DEF BootInv, Booted, PagesBelowEnd, NoPanic, FreeBit
<1> QED
  BY <1>3, <1>4, <1>5

LEMMA UsedBitInv == IInv /\ UsedBit => IInv'
<1> SUFFICES ASSUME IInv, UsedBit PROVE IInv'
  OBVIOUS
<1> USE ConstantTypes DEF IInv
<1>1. i \in Bits /\ i \in Nat
  BY InLoopBit DEF UsedBit
<1>2. /\ i' = i + 1 /\ found' = 0
      /\ size' = size /\ bitmap' = bitmap /\ pc' = pc
      /\ PageLimit' = PageLimit
  BY DEF UsedBit, PageLimit
<1>3. TypeOK'
  BY <1>1, <1>2 DEF TypeOK, UsedBit
<1>4. ScanInv'
  <2>1. \A p \in Fits(bitmap, PageLimit, size) : p > i /\ p \in Nat
    BY RunReaches DEF UsedBit, Fits
  <2>2. i' % WordBits # 0 => i' < NumBits /\ ~FullWord(i)'
    BY <1>2, NextBitWord DEF UsedBit, FullWord
  <2> QED
    BY <1>1, <1>2, <2>1, <2>2 DEF ScanInv, UsedBit, InLoop
<1>5. BootInv' /\ PagesBelowEnd' /\ NoPanic'
  BY DEF BootInv, Booted, PagesBelowEnd, NoPanic, UsedBit
<1> QED
  BY <1>3, <1>4, <1>5
-----------------------------------------------------------------------------
(* What alloc_page returns *)

\* When the loop has ended with a full run, the run is the lowest free one.
LEMMA FoundIsFit ==
    ASSUME IInv, pc = "scan", found = size
    PROVE  /\ first \in Fits(bitmap, PageLimit, size)
           /\ \A q \in Fits(bitmap, PageLimit, size) : first <= q
           /\ first + size = i /\ i <= PageLimit
<1> USE ConstantTypes DEF IInv
<1>1. size > 0 /\ first = i - found /\ i <= PageLimit
  BY DEF ScanInv, TypeOK
<1>2. first \in Bits /\ i \in Nat /\ size \in Nat
  BY DEF TypeOK
<1>3. FreeRun(bitmap, PageLimit, size, first)
  BY <1>1, <1>2 DEF FreeRun, ScanInv, TypeOK
<1>4. \A q \in Fits(bitmap, PageLimit, size) : first <= q
  BY <1>1 DEF ScanInv
<1> QED
  BY <1>1, <1>2, <1>3, <1>4 DEF Fits

\* When it has ended without one, there is none.
LEMMA NotFoundNoFit ==
    ASSUME IInv, pc = "scan", ~InLoop, found # size
    PROVE  Fits(bitmap, PageLimit, size) = {}
<1> USE ConstantTypes DEF IInv
<1>1. SUFFICES ASSUME NEW p \in Fits(bitmap, PageLimit, size) PROVE FALSE
  OBVIOUS
<1>2. PageLimit \in Nat
  BY PageLimitType DEF TypeOK
<1>3. found < size /\ i >= PageLimit /\ i \in Nat /\ size \in Nat
  BY <1>2 DEF InLoop, TypeOK
<1>4. p >= i - found /\ p + size <= PageLimit /\ p \in Nat
  BY DEF ScanInv, Fits, FreeRun
<1> QED
  BY <1>2, <1>3, <1>4 DEF TypeOK

LEMMA ChooseLeast ==
    ASSUME NEW S \in SUBSET Nat, NEW p \in S, \A q \in S : p <= q
    PROVE  (CHOOSE x \in S : \A q \in S : x <= q) = p
<1> DEFINE c == CHOOSE x \in S : \A q \in S : x <= q
<1>1. c \in S /\ \A q \in S : c <= q
  OBVIOUS
<1> HIDE DEF c
<1>2. c <= p /\ p <= c /\ c \in Nat /\ p \in Nat
  BY <1>1
<1> QED
  BY <1>2 DEF c

\* alloc_page returns FirstFit, which is what the other modules use for it.
LEMMA ReturnIsFirstFit ==
    ASSUME IInv, Return
    PROVE  /\ result' = FirstFit(bitmap, PageLimit, size)
           /\ result' # NoPage => bitmap' = MarkRun(bitmap, result', size)
<1> USE ConstantTypes
<1> DEFINE F == Fits(bitmap, PageLimit, size)
<1>0. F \in SUBSET Nat
  BY DEF Fits
<1>1. CASE found = size
  <2>1. first \in F /\ \A q \in F : first <= q
    BY <1>1, FoundIsFit DEF Return
  <2>2. (CHOOSE p \in F : \A q \in F : p <= q) = first
    BY <1>0, <2>1, ChooseLeast
  <2>3. FirstFit(bitmap, PageLimit, size) = first
    BY <2>1, <2>2 DEF FirstFit
  <2> QED
    BY <1>1, <2>3 DEF Return
<1>2. CASE found # size
  <2>1. F = {}
    BY <1>2, NotFoundNoFit DEF Return
  <2> QED
    BY <1>2, <2>1 DEF Return, FirstFit
<1> QED
  BY <1>1, <1>2

LEMMA BootTops ==
    ASSUME NEW k \in 1 .. Len(BootSizes)
    PROVE  /\ BootTop[k - 1] \in Nat /\ BootTop[k] \in Nat
           /\ BootTop[k] = BootTop[k - 1] + BootSizes[k]
           /\ BootTop[k] * PageUnits + EcSize <= PoolEnd
<1>1. k - 1 \in 0 .. Len(BootSizes) /\ k \in 0 .. Len(BootSizes)
  BY ConstantTypes
<1> QED
  BY <1>1, BootAssumption

\* The page allocations of init succeed, and take the next pages.
LEMMA BootReturn ==
    ASSUME IInv, Return, ~Booted
    PROVE  /\ found = size
           /\ boot \in 1 .. Len(BootSizes)
           /\ first = BootTop[boot - 1]
           /\ BootTop[boot] = BootTop[boot - 1] + size
<1> USE ConstantTypes DEF IInv
<1>1. boot \in 1 .. Len(BootSizes) /\ size = BootSizes[boot] /\ end = PoolEnd
  BY DEF BootInv, Return, TypeOK, Booted
<1> DEFINE b == BootTop[boot - 1]
           t == BootTop[boot]
<1>2. b \in Nat /\ t \in Nat /\ t = b + size /\ t * PageUnits + EcSize <= PoolEnd
  BY <1>1, BootTops
<1>3. \A p \in Bits : bitmap[p] <=> p < b
  BY <1>1 DEF BootInv, Return
<1> HIDE DEF b, t
<1>4. size > 0 /\ size \in Nat
  BY DEF ScanInv, Return, TypeOK
<1>5. t <= PageLimit
  <2>1. t \in Nat /\ t > 0 /\ t * PageUnits <= PoolEnd
    BY <1>2, <1>4
  <2>2. t - 1 \in Nat /\ ((t - 1) + 1) * PageUnits <= PoolEnd
    BY <2>1
  <2>3. (t - 1) + 1 <= PoolEnd \div PageUnits
    BY <2>2, PageBelow
  <2> QED
    BY <1>1, <2>1, <2>3 DEF PageLimit
<1>6. PageLimit \in 0 .. NumBits
  BY PageLimitType DEF TypeOK
<1>7. b \in Fits(bitmap, PageLimit, size)
  <2>1. b \in Bits /\ b + size <= PageLimit
    BY <1>2, <1>4, <1>5, <1>6
  <2>2. \A p \in Run(b, size) : p \in Bits /\ ~(p < b)
    BY <1>2, <1>4, <1>5, <1>6
  <2> QED
    BY <1>3, <2>1, <2>2 DEF Fits, FreeRun
<1>8. found = size
  BY <1>7, NotFoundNoFit DEF Return
<1>9. first <= b /\ first \in Bits /\ ~bitmap[first]
  <2>1. first \in Fits(bitmap, PageLimit, size) /\ first <= b
    BY <1>7, <1>8, FoundIsFit DEF Return
  <2>2. first \in Run(first, size)
    BY <1>4, <2>1 DEF Fits
  <2> QED
    BY <2>1, <2>2 DEF Fits, FreeRun
<1>10. first = b
  BY <1>2, <1>3, <1>9
<1> QED
  BY <1>1, <1>2, <1>8, <1>10 DEF b, t

LEMMA ReturnInv == IInv /\ Return => IInv'
<1> SUFFICES ASSUME IInv, Return PROVE IInv'
  OBVIOUS
<1> USE ConstantTypes DEF IInv
<1>1. TypeOK'
  <2>1. bitmap' \in Bitmaps
    BY DEF Return, TypeOK, Bitmaps, MarkRun
  <2>2. result' \in Bits \cup {NoPage}
    BY DEF Return, TypeOK
  <2> QED
    BY <2>1, <2>2 DEF Return, TypeOK, scan
<1>2. ScanInv'
  BY DEF ScanInv, Return
<1>3. PagesBelowEnd'
  <2>1. SUFFICES ASSUME NEW p \in Bits, bitmap'[p]
                 PROVE  (p + 1) * PageUnits <= end
    BY DEF PagesBelowEnd, Return
  <2>2. CASE bitmap[p]
    BY <2>2 DEF PagesBelowEnd
  <2>3. CASE ~bitmap[p]
    <3>1. found = size /\ p \in Run(first, size)
      BY <2>1, <2>3 DEF Return, MarkRun
    <3>2. p + 1 <= PageLimit
      BY <3>1, FoundIsFit, PageLimitType DEF Return, TypeOK
    <3>3. end \in Nat /\ p \in Nat
      BY DEF TypeOK
    <3> QED
      BY <3>2, <3>3, PageBelow DEF PageLimit
  <2> QED
    BY <2>2, <2>3
<1>4. BootInv'
  <2>1. CASE Booted
    BY <2>1 DEF BootInv, Booted, Return, TypeOK
  <2>2. CASE ~Booted
    <3> DEFINE b == BootTop[boot - 1]
               t == BootTop[boot]
    <3>1. /\ found = size /\ boot \in 1 .. Len(BootSizes)
          /\ first = b /\ t = b + size
      BY <2>2, BootReturn
    <3>2. b \in Nat /\ t \in Nat /\ size \in Nat
      BY <3>1, BootTops DEF TypeOK
    <3>3. \A p \in Bits : bitmap[p] <=> p < b
      BY <2>2 DEF BootInv, Return
    <3>4. bitmap' = MarkRun(bitmap, first, size) /\ pc' = "idle" /\ boot' = boot
      BY <3>1 DEF Return
    <3> HIDE DEF b, t
    <3>5. ASSUME NEW p \in Bits PROVE bitmap'[p] <=> p < t
      <4>1. bitmap'[p] <=> p \in Run(first, size) \/ bitmap[p]
        BY <3>4, Zenon DEF MarkRun
      <4>2. p \in Run(first, size) <=> b <= p /\ p < t
        BY <3>1, <3>2
      <4> QED
        BY <3>1, <3>2, <3>3, <4>1, <4>2
    <3> QED
      BY <2>2, <3>1, <3>4, <3>5 DEF BootInv, Booted, Return, t
  <2> QED
    BY <2>1, <2>2
<1> QED
  BY <1>1, <1>2, <1>3, <1>4 DEF NoPanic, Return
-----------------------------------------------------------------------------
(* The callers *)

LEMMA BootCallInv == IInv /\ BootCall => IInv'
<1> SUFFICES ASSUME IInv, BootCall PROVE IInv'
  OBVIOUS
<1> USE ConstantTypes DEF IInv
<1>1. boot + 1 \in 1 .. Len(BootSizes) /\ boot' = boot + 1
  BY DEF BootCall, TypeOK
<1> DEFINE n == BootSizes[boot + 1]
<1>2. n \in 1 .. MaxRun /\ Call(n)
  BY <1>1 DEF BootCall
<1>3. TypeOK' /\ ScanInv' /\ PagesBelowEnd' /\ NoPanic'
  BY <1>1, <1>2, CallInv
<1>4. BootInv'
  <2>1. pc = "idle" /\ pc' = "scan" /\ size' = n /\ bitmap' = bitmap /\ end' = end
    BY <1>2 DEF Call
  <2>2. ~Booted /\ boot' - 1 = boot /\ BootSizes[boot'] = n
    BY <1>1 DEF Booted, TypeOK
  <2> QED
    BY <1>1, <2>1, <2>2 DEF BootInv, TypeOK
<1> QED
  BY <1>3, <1>4

LEMMA KernelCallInv == IInv /\ KernelCall => IInv'
<1> SUFFICES ASSUME IInv, KernelCall PROVE IInv'
  OBVIOUS
<1> USE ConstantTypes DEF IInv
<1>1. PICK n \in 1 .. MaxRun : Call(n)
  BY DEF KernelCall
<1>2. boot' \in 0 .. Len(BootSizes) + 1
  BY DEF KernelCall, TypeOK
<1>3. TypeOK' /\ ScanInv' /\ PagesBelowEnd' /\ NoPanic'
  BY <1>1, <1>2, CallInv
<1>4. BootInv'
  BY DEF BootInv, KernelCall, Booted, TypeOK
<1> QED
  BY <1>3, <1>4

\* A page in use lies below the page limit, so free_page accepts it.
LEMMA FreeValid ==
    ASSUME IInv, NEW p \in Bits, bitmap[p]
    PROVE  p \in 0 .. PageLimit - 1
<1> USE ConstantTypes DEF IInv
<1>1. (p + 1) * PageUnits <= end /\ p \in Nat /\ end \in Nat
  BY DEF PagesBelowEnd, TypeOK
<1>2. p + 1 <= PageLimit
  BY <1>1, PageBelow DEF PageLimit
<1> QED
  BY <1>1, <1>2, PageLimitType DEF TypeOK

LEMMA KernelFreeInv == IInv /\ KernelFree => IInv'
<1> SUFFICES ASSUME IInv, KernelFree PROVE IInv'
  OBVIOUS
<1> USE ConstantTypes DEF IInv
<1>1. PICK p \in Bits : bitmap[p] /\ free_page(p)
  BY DEF KernelFree
<1>2. bitmap' = [bitmap EXCEPT ![p] = FALSE] /\ panicked' = FALSE
  BY <1>1, FreeValid, Zenon DEF free_page, mark_page_allocated
<1>3. TypeOK'
  <2>1. bitmap' \in Bitmaps
    BY <1>2, Zenon DEF TypeOK, Bitmaps
  <2> QED
    BY <1>2, <2>1 DEF TypeOK, KernelFree, scan
<1>4. PagesBelowEnd'
  <2>1. \A q \in Bits : bitmap'[q] => bitmap[q]
    BY <1>2, Zenon DEF TypeOK, Bitmaps
  <2> QED
    BY <2>1 DEF PagesBelowEnd, KernelFree
<1>5. ScanInv' /\ BootInv' /\ NoPanic'
  BY <1>2 DEF ScanInv, BootInv, NoPanic, KernelFree, Booted, TypeOK
<1> QED
  BY <1>3, <1>4, <1>5

\* The execution context is cut from above every page in use.
LEMMA NewEcEnd ==
    ASSUME IInv, NewEc
    PROVE  /\ end' = PoolEnd - EcSize /\ end' \in 0 .. PoolEnd
           /\ panicked' = FALSE
           /\ \A p \in Bits : bitmap[p] => (p + 1) * PageUnits <= end'
<1> USE ConstantTypes DEF IInv
<1>1. boot = Len(BootSizes) /\ ~Booted /\ end = PoolEnd /\ pc = "idle"
  BY DEF NewEc, BootInv, Booted
<1> DEFINE t == BootTop[Len(BootSizes)]
<1>2. t \in Nat /\ t * PageUnits + EcSize <= PoolEnd
  BY BootAssumption
<1>3. \A p \in Bits : bitmap[p] => p < t
  BY <1>1 DEF BootInv
<1> HIDE DEF t
<1>4. t * PageUnits \in Nat
  BY <1>2
<1>5. end' = PoolEnd - EcSize /\ panicked' = FALSE
  <2>1. ~(end - EcSize < 0)
    BY <1>1, <1>2, <1>4
  <2> QED
    <3>1. (end - EcSize < 0) = FALSE
      BY <2>1
    <3>2. panicked' = FALSE
      BY <3>1, Zenon DEF NewEc
    <3>3. end' = end - EcSize
      BY <2>1, Zenon DEF NewEc
    <3> QED
      BY <1>1, <3>2, <3>3
<1>6. ASSUME NEW p \in Bits, bitmap[p] PROVE (p + 1) * PageUnits <= end'
  <2>1. p + 1 <= t /\ p + 1 \in Nat
    BY <1>2, <1>3, <1>6
  <2>2. (p + 1) * PageUnits <= t * PageUnits
    BY <1>2, <2>1, SMT
  <2> QED
    BY <1>2, <1>4, <1>5, <2>1, <2>2
<1> QED
  BY <1>2, <1>4, <1>5, <1>6

LEMMA NewEcInv == IInv /\ NewEc => IInv'
<1> SUFFICES ASSUME IInv, NewEc PROVE IInv'
  OBVIOUS
<1> USE ConstantTypes DEF IInv
<1>1. /\ end' \in 0 .. PoolEnd /\ panicked' = FALSE
      /\ \A p \in Bits : bitmap[p] => (p + 1) * PageUnits <= end'
  BY NewEcEnd
<1>2. TypeOK'
  BY <1>1 DEF TypeOK, NewEc, scan
<1>3. ScanInv' /\ BootInv' /\ PagesBelowEnd' /\ NoPanic'
  BY <1>1 DEF ScanInv, BootInv, PagesBelowEnd, NoPanic, NewEc, Booted, TypeOK
<1> QED
  BY <1>2, <1>3

LEMMA StutterInv == IInv /\ UNCHANGED vars => IInv'
  BY DEF vars, scan, IInv, TypeOK, ScanInv, BootInv, PagesBelowEnd, NoPanic,
         Booted, PageLimit, Fits, FreeRun, FullWord

LEMMA StepInv == IInv /\ [Next]_vars => IInv'
  BY BootCallInv, KernelCallInv, KernelFreeInv, NewEcInv, SkipInv, FreeBitInv,
     UsedBitInv, ReturnInv, StutterInv DEF Next, Scan

\* The search's locals stay consistent, no page in use lies above `end', and
\* neither alloc nor free_page ever panics, in a pool of any size.
THEOREM KallocInvariant == Spec => [](TypeOK /\ ScanInv /\ BootInv /\ PagesBelowEnd /\ NoPanic)
<1>1. Init => IInv
  BY InitInv
<1>2. IInv /\ [Next]_vars => IInv'
  BY StepInv
<1> QED
  BY <1>1, <1>2, PTL DEF Spec, IInv

\* The two allocators stay apart: no page the bitmap gives out lies above the
\* end of the bump allocator's memory.
THEOREM AllocatorsStayApart == Spec => []PagesBelowEnd
  BY KallocInvariant, PTL

\* Boot never runs out of memory and free_page refuses no page its caller owns.
THEOREM KallocNeverPanics == Spec => []NoPanic
  BY KallocInvariant, PTL

\* alloc_page's search returns the lowest free run, and NoPage only if there
\* is none.
THEOREM SearchCorrect == Spec => ReturnsFirstFit
<1>1. IInv /\ [Next]_vars =>
         [Return => /\ result' = FirstFit(bitmap, PageLimit, size)
                    /\ result' # NoPage =>
                           bitmap' = MarkRun(bitmap, result', size)]_vars
  BY ReturnIsFirstFit
<1>2. Spec => []IInv
  BY KallocInvariant, PTL DEF IInv
<1> QED
  BY <1>1, <1>2, PTL DEF Spec, ReturnsFirstFit
-----------------------------------------------------------------------------
(* The search implements the allocator its callers rely on. *)

LEMMA AbstractFits ==
    ASSUME IInv
    PROVE  \A n \in Nat : Promise!Unowned(n) = Fits(bitmap, PageLimit, n)
<1> USE ConstantTypes DEF IInv
<1> SUFFICES ASSUME NEW n \in Nat
             PROVE  Promise!Unowned(n) = Fits(bitmap, PageLimit, n)
  OBVIOUS
<1>1. PageLimit \in 0 .. NumBits
  BY PageLimitType DEF TypeOK
<1>2. ASSUME NEW p \in Bits, p + n <= PageLimit
      PROVE  \A k \in p .. p + n - 1 :
                k \notin {b \in Bits : bitmap[b]} <=> ~bitmap[k]
  BY <1>1, <1>2
<1> QED
  BY <1>2 DEF Promise!Unowned, Promise!Pages, Fits, FreeRun

LEMMA RefineInit == Init => Promise!Init
<1> SUFFICES ASSUME Init PROVE Promise!Init
  OBVIOUS
<1>1. PoolEnd \in Nat /\ PageUnits \in Nat \ {0} /\ PageUnits <= PoolEnd
  BY ConstantTypes, SearchAssumption
<1>2. (0 + 1) * PageUnits <= PoolEnd
  BY <1>1
<1>3. 0 + 1 <= PageLimit
  BY <1>1, <1>2, PageBelow DEF Init, PageLimit
<1>4. PageLimit \in 1 .. NumBits
  BY <1>1, <1>3, PageLimitType, ConstantTypes DEF Init
<1> QED
  BY <1>4 DEF Init, Promise!Init

LEMMA RefineReturn == IInv /\ Return => Promise!Answer
<1> SUFFICES ASSUME IInv, Return PROVE Promise!Answer
  OBVIOUS
<1> USE ConstantTypes DEF IInv
<1>1. pc = "scan" /\ size # 0 /\ size \in Nat /\ pc' = "idle" /\ PageLimit' = PageLimit
  BY DEF Return, ScanInv, TypeOK, PageLimit
<1>2. Promise!Unowned(size) = Fits(bitmap, PageLimit, size)
  BY <1>1, AbstractFits
<1>3. CASE found = size
  <2>1. first \in Promise!Unowned(size)
        /\ \A q \in Promise!Unowned(size) : first <= q
    BY <1>2, <1>3, FoundIsFit DEF Return
  <2>2. result' = first /\ bitmap' = MarkRun(bitmap, first, size)
    BY <1>3 DEF Return
  <2>3. first .. first + size - 1 \subseteq Bits
    BY <1>1, <2>1, PageLimitType DEF TypeOK, Promise!Unowned, Promise!Pages
  <2>4. {b \in Bits : bitmap'[b]}
          = {b \in Bits : bitmap[b]} \cup (first .. first + size - 1)
    BY <2>2, <2>3, Zenon DEF MarkRun, Run
  <2> QED
    BY <1>1, <2>1, <2>2, <2>4 DEF Promise!Answer, Promise!Grant
<1>4. CASE found # size
  <2>1. Promise!Unowned(size) = {}
    BY <1>2, <1>4, NotFoundNoFit DEF Return
  <2>2. result' = NoPage /\ bitmap' = bitmap
    BY <1>4 DEF Return
  <2> QED
    BY <1>1, <2>1, <2>2 DEF Promise!Answer, Promise!Refuse
<1> QED
  BY <1>3, <1>4

LEMMA RefineCall ==
    ASSUME IInv, NEW n \in 1 .. MaxRun, Call(n)
    PROVE  Promise!Request(n)
<1>1. PageLimit' = PageLimit
  BY DEF Call, PageLimit
<1> QED
  BY <1>1 DEF Call, Promise!Request

LEMMA RefineFree == IInv /\ KernelFree => \E p \in {b \in Bits : bitmap[b]} : Promise!Free(p)
<1> SUFFICES ASSUME IInv, KernelFree
             PROVE  \E p \in {b \in Bits : bitmap[b]} : Promise!Free(p)
  OBVIOUS
<1> USE DEF IInv
<1>1. PICK p \in Bits : bitmap[p] /\ free_page(p)
  BY DEF KernelFree
<1>2. bitmap' = [bitmap EXCEPT ![p] = FALSE]
  BY <1>1, FreeValid, Zenon DEF free_page, mark_page_allocated
<1>3. {b \in Bits : bitmap'[b]} = {b \in Bits : bitmap[b]} \ {p}
  BY <1>2, Zenon DEF TypeOK, Bitmaps
<1>4. pc = "idle" /\ pc' = "idle" /\ result' = result /\ PageLimit' = PageLimit
  BY DEF KernelFree, PageLimit
<1> QED
  BY <1>1, <1>3, <1>4 DEF Promise!Free

LEMMA RefineNewEc == IInv /\ NewEc => Promise!CutTop
<1> SUFFICES ASSUME IInv, NewEc PROVE Promise!CutTop
  OBVIOUS
<1> USE ConstantTypes DEF IInv
<1>1. /\ end' = PoolEnd - EcSize /\ end' \in 0 .. PoolEnd
      /\ \A p \in Bits : bitmap[p] => (p + 1) * PageUnits <= end'
  BY NewEcEnd
<1>2. end = PoolEnd /\ pc = "idle" /\ pc' = "idle" /\ bitmap' = bitmap /\ result' = result
  BY DEF NewEc, BootInv, Booted, TypeOK
<1>3. PageLimit' \in Nat /\ PageLimit \in Nat
  BY <1>1, <1>2 DEF PageLimit
<1>4. PageLimit' <= PageLimit
  <2> DEFINE q == end' \div PageUnits
  <2>1. q \in Nat /\ q * PageUnits <= end'
    BY <1>1, SMT
  <2>2. q = 0 \/ (q - 1 \in Nat /\ (q - 1) + 1 = q)
    BY <2>1
  <2> HIDE DEF q
  <2>3. CASE q # 0
    <3>1. ((q - 1) + 1) * PageUnits <= end
      BY <1>1, <1>2, <2>1, <2>2, <2>3
    <3>2. (q - 1) + 1 <= end \div PageUnits
      BY <1>2, <2>2, <2>3, <3>1, PageBelow
    <3> QED
      BY <2>2, <2>3, <3>2 DEF q, PageLimit
  <2> QED
    BY <1>3, <2>1, <2>3 DEF q, PageLimit
<1>5. \A p \in {b \in Bits : bitmap[b]} : p < PageLimit'
  <2>1. SUFFICES ASSUME NEW p \in Bits, bitmap[p] PROVE p < end' \div PageUnits
    BY DEF PageLimit
  <2>2. p + 1 <= end' \div PageUnits
    <3>1. (p + 1) * PageUnits <= end' /\ p \in Nat /\ end' \in Nat
      BY <1>1, <2>1
    <3> QED
      BY <3>1, PageBelow
  <2> QED
    BY <1>3, <2>2 DEF PageLimit
<1> QED
  BY <1>2, <1>3, <1>4, <1>5 DEF Promise!CutTop

LEMMA RefineStutter ==
    IInv /\ (SkipFullWord \/ FreeBit \/ UsedBit \/ UNCHANGED vars)
        => UNCHANGED Promise!vars
  BY DEF SkipFullWord, FreeBit, UsedBit, vars, scan, Promise!vars, PageLimit

\* Every step of the search is a step of Kalloc or leaves it unchanged: the
\* bitmap, the counters and the bump pointer implement Kalloc's promise.
THEOREM SearchImplementsKalloc == Spec => Promise!Safety
<1>1. Init => Promise!Init
  BY RefineInit
<1>2. IInv /\ [Next]_vars => [Promise!Next]_(Promise!vars)
  <2> SUFFICES ASSUME IInv, [Next]_vars PROVE [Promise!Next]_(Promise!vars)
    OBVIOUS
  <2>1. CASE BootCall
    <3>1. boot + 1 \in 1 .. Len(BootSizes)
      BY <2>1, ConstantTypes DEF BootCall, IInv, TypeOK
    <3>2. BootSizes[boot + 1] \in 1 .. MaxRun
      BY <3>1, ConstantTypes
    <3> QED
      BY <2>1, <3>2, RefineCall DEF BootCall, Promise!Next
  <2>2. CASE KernelCall
    BY <2>2, RefineCall DEF KernelCall, Promise!Next
  <2>3. CASE KernelFree
    BY <2>3, RefineFree DEF Promise!Next
  <2>4. CASE NewEc
    BY <2>4, RefineNewEc DEF Promise!Next
  <2>5. CASE Return
    BY <2>5, RefineReturn DEF Promise!Next
  <2>6. CASE SkipFullWord \/ FreeBit \/ UsedBit \/ UNCHANGED vars
    BY <2>6, RefineStutter
  <2> QED
    BY <2>1, <2>2, <2>3, <2>4, <2>5, <2>6 DEF Next, Scan
<1>3. Spec => []IInv
  BY KallocInvariant, PTL DEF IInv
<1> QED
  BY <1>1, <1>2, <1>3, PTL DEF Spec, Promise!Safety
=============================================================================
