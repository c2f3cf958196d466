---------------------------- MODULE OutputProofs -----------------------------
(***************************************************************************)
(* Proofs about Printf and Output, for every set of characters, word size, *)
(* buffer, number of tickets and set of programs with calls of any format: *)
(* a conversion puts what C says where vprintf promises that, the line     *)
(* shows exactly the greeting, what the programs print and the handler's   *)
(* messages, whatever is under way, and only an unfinished line is lost.   *)
(*                                                                         *)
(* Both modules define by recursion: the digits of a number, the states of *)
(* vprintf after each character of the format, the flattening of a         *)
(* sequence of texts.  Induction here is over a set of numbers, from the   *)
(* well-foundedness of < on Nat.                                           *)
(***************************************************************************)
EXTENDS Output, WellFoundedInduction, SequenceTheorems, TLAPS

(* Induction and recursion over the natural numbers *)

\* A set of numbers has a least one.
LEMMA LeastOfSet ==
    ASSUME NEW T \in SUBSET Nat, T # {}
    PROVE  \E m \in T : \A n \in T : m <= n
<1> DEFINE R == {p \in Nat \X Nat : p[1] < p[2]}
<1>1. IsWellFoundedOn(R, Nat)
  BY NatLessThanWellFounded DEF OpToRel
<1> HIDE DEF R
<1>2. PICK m \in T : \A n \in T : ~ (<<n, m>> \in R)
  BY <1>1, WFMin
<1>3. ASSUME NEW n \in T PROVE m <= n
  <2>1. ~ (n < m)
    BY <1>2 DEF R
  <2> QED
    BY <2>1
<1> QED
  BY <1>3

\* Induction over a set of numbers.
LEMMA Induction ==
    ASSUME NEW T, 0 \in T, \A n \in Nat : n \in T => n + 1 \in T
    PROVE  \A n \in Nat : n \in T
<1> DEFINE Bad == {n \in Nat : n \notin T}
<1> SUFFICES ASSUME Bad # {} PROVE FALSE
  OBVIOUS
<1>1. PICK m \in Bad : \A n \in Bad : m <= n
  BY LeastOfSet
<1>2. m \in Nat /\ m # 0
  OBVIOUS
<1>3. m - 1 \in T
  BY <1>1, <1>2
<1> QED
  BY <1>2, <1>3

\* Induction from all smaller numbers.
LEMMA StrongInduction ==
    ASSUME NEW T, \A n \in Nat : (\A m \in Nat : m < n => m \in T) => n \in T
    PROVE  \A n \in Nat : n \in T
<1> DEFINE Bad == {n \in Nat : n \notin T}
<1> SUFFICES ASSUME Bad # {} PROVE FALSE
  OBVIOUS
<1>1. PICK m \in Bad : \A n \in Bad : m <= n
  BY LeastOfSet
<1> QED
  BY <1>1
-----------------------------------------------------------------------------
(* Reading a format *)

\* Reading s in state st leads to state after, by way of the states in u.
Path(u, st, s, after) ==
    /\ u[0] = st
    /\ \A n \in 1 .. Len(s) : u[n] = NextChar(u[n - 1], s[n])
    /\ u[Len(s)] = after

Reads(st, s, after) == \E u : Path(u, st, s, after)

\* Reading: no character, one, and one part after another.
LEMMA ReadsNothing ==
    ASSUME NEW st PROVE Reads(st, <<>>, st)
<1>1. Path([n \in {0} |-> st], st, <<>>, st)
  BY DEF Path
<1> QED
  BY <1>1 DEF Reads

LEMMA ReadsOne ==
    ASSUME NEW st, NEW c PROVE Reads(st, <<c>>, NextChar(st, c))
<1> DEFINE u == [n \in 0 .. 1 |-> IF n = 0 THEN st ELSE NextChar(st, c)]
<1>1. Path(u, st, <<c>>, NextChar(st, c))
  <2>1. Len(<<c>>) = 1 /\ <<c>>[1] = c
    OBVIOUS
  <2>2. u[0] = st /\ u[1] = NextChar(st, c)
    OBVIOUS
  <2> HIDE DEF u
  <2>3. \A n \in 1 .. Len(<<c>>) : n = 1
    BY <2>1
  <2> QED
    BY <2>1, <2>2, <2>3 DEF Path
<1> QED
  BY <1>1 DEF Reads

LEMMA ReadsThen ==
    ASSUME NEW C, NEW s \in Seq(C), NEW t \in Seq(C), NEW st, NEW mid, NEW after,
           Reads(st, s, mid), Reads(mid, t, after)
    PROVE  Reads(st, s \o t, after)
<1>1. PICK u : Path(u, st, s, mid)
  BY DEF Reads
<1>2. PICK v : Path(v, mid, t, after)
  BY DEF Reads
<1> DEFINE w == [n \in 0 .. Len(s) + Len(t) |->
                    IF n <= Len(s) THEN u[n] ELSE v[n - Len(s)]]
<1>3. Len(s) \in Nat /\ Len(t) \in Nat /\ Len(s \o t) = Len(s) + Len(t)
  OBVIOUS
<1>4. \A n \in 0 .. Len(t) : w[Len(s) + n] = v[n]
  <2>1. u[Len(s)] = v[0]
    BY <1>1, <1>2 DEF Path
  <2>2. ASSUME NEW n \in 0 .. Len(t)
        PROVE  w[Len(s) + n] = v[n]
    <3>1. CASE n = 0
      BY <1>3, <2>1, <3>1
    <3>2. CASE n # 0
      <4>1. ~ (Len(s) + n <= Len(s)) /\ Len(s) + n - Len(s) = n
        BY <1>3, <3>2
      <4> QED
        BY <1>3, <4>1
    <3> QED
      BY <3>1, <3>2
  <2> QED
    BY <2>2
<1>5. \A n \in 0 .. Len(s) : w[n] = u[n]
  BY <1>3
<1> HIDE DEF w
<1>6. ASSUME NEW n \in 1 .. Len(s \o t)
      PROVE  w[n] = NextChar(w[n - 1], (s \o t)[n])
  <2>1. CASE n <= Len(s)
    <3>1. (s \o t)[n] = s[n] /\ n \in 1 .. Len(s) /\ n - 1 \in 0 .. Len(s)
      BY <1>3, <2>1
    <3> QED
      BY <1>1, <1>5, <3>1 DEF Path
  <2>2. CASE n > Len(s)
    <3> DEFINE j == n - Len(s)
    <3>1. /\ j \in 1 .. Len(t) /\ j \in 0 .. Len(t) /\ j - 1 \in 0 .. Len(t)
          /\ n = Len(s) + j /\ n - 1 = Len(s) + (j - 1)
      BY <1>3, <2>2
    <3>2. (s \o t)[n] = t[j]
      BY <1>3, <2>2
    <3> HIDE DEF j
    <3>3. v[j] = NextChar(v[j - 1], t[j])
      BY <1>2, <3>1 DEF Path
    <3>4. w[n] = v[j] /\ w[n - 1] = v[j - 1]
      BY <1>4, <3>1
    <3> QED
      BY <3>2, <3>3, <3>4
  <2> QED
    BY <1>3, <2>1, <2>2
<1>7. w[0] = st /\ w[Len(s \o t)] = after
  BY <1>1, <1>2, <1>3, <1>4, <1>5 DEF Path
<1>8. Path(w, st, s \o t, after)
  BY <1>6, <1>7 DEF Path
<1> QED
  BY <1>8 DEF Reads

\* vprintf reads its format.
LEMMA VprintfReads ==
    ASSUME NEW C, NEW format \in Seq(C), NEW args, NEW after,
           Reads(Start(args), format, after)
    PROVE  vprintf(format, args) =
               IF after.mode = "text" THEN after.out
               ELSE Append(after.out, Last(format))
<1> DEFINE L == Len(format)
           Rec(f) == [n \in 0 .. L |-> IF n = 0 THEN Start(args)
                                       ELSE NextChar(f[n - 1], format[n])]
           f0 == CHOOSE f : f = Rec(f)
<1>1. PICK u : Path(u, Start(args), format, after)
  BY DEF Reads
<1>2. L \in Nat
  OBVIOUS
<1>3. \E f : f = Rec(f)
  <2> DEFINE g == [n \in 0 .. L |-> u[n]]
  <2>1. \A n \in 0 .. L : g[n] = IF n = 0 THEN Start(args)
                                 ELSE NextChar(g[n - 1], format[n])
    <3>1. ASSUME NEW n \in 0 .. L, n # 0
          PROVE  g[n] = NextChar(g[n - 1], format[n])
      <4>1. n \in 1 .. L /\ n - 1 \in 0 .. L
        BY <1>2, <3>1
      <4> QED
        BY <1>1, <4>1 DEF Path
    <3>2. g[0] = Start(args)
      BY <1>1, <1>2 DEF Path
    <3> QED
      BY <3>1, <3>2
  <2>2. g = Rec(g)
    <3> HIDE DEF L
    <3> QED BY <2>1
  <2> QED
    BY <2>2
<1>4. f0 = Rec(f0)
  BY <1>3
<1> HIDE DEF f0
<1>5. \A n \in 0 .. L : f0[n] = IF n = 0 THEN Start(args)
                                ELSE NextChar(f0[n - 1], format[n])
  BY <1>4
<1>6. f0[L] = after
  <2> DEFINE T == {n \in Nat : n <= L => f0[n] = u[n]}
  <2>1. 0 \in T
    BY <1>1, <1>2, <1>5 DEF Path
  <2>2. ASSUME NEW n \in Nat, n \in T
        PROVE  n + 1 \in T
    <3>1. CASE n + 1 <= L
      <4>1. n + 1 \in 0 .. L /\ n + 1 # 0 /\ n + 1 - 1 = n /\ n + 1 \in 1 .. Len(format)
        BY <1>2, <3>1
      <4>2. f0[n + 1] = NextChar(f0[n], format[n + 1])
        BY <1>5, <4>1
      <4>3. u[n + 1] = NextChar(u[n], format[n + 1])
        BY <1>1, <4>1 DEF Path
      <4>4. f0[n] = u[n]
        BY <1>2, <2>2, <3>1
      <4> QED
        BY <4>2, <4>3, <4>4
    <3>2. CASE ~ (n + 1 <= L)
      BY <3>2
    <3> QED
      BY <3>1, <3>2
  <2> HIDE DEF T
  <2>3. \A n \in Nat : n \in T
    BY <2>1, <2>2, Induction
  <2>4. L \in T
    BY <1>2, <2>3
  <2> QED
    BY <1>1, <1>2, <2>4 DEF T, Path
<1>7. vprintf(format, args) = IF f0[L].mode = "text" THEN f0[L].out
                              ELSE Append(f0[L].out, Last(format))
  BY DEF vprintf, f0
<1> QED
  BY <1>6, <1>7
-----------------------------------------------------------------------------
(* The digits of a number *)

\* Quotient and remainder.
LEMMA QuotRem ==
    ASSUME NEW base \in {10, 16}, NEW n \in Nat
    PROVE  /\ n \div base \in Nat /\ n % base \in 0 .. base - 1
           /\ n = base * (n \div base) + (n % base)
           /\ n >= base => n \div base < n /\ n \div base > 0
<1>1. CASE base = 10
  BY <1>1
<1>2. CASE base = 16
  BY <1>2
<1> QED
  BY <1>1, <1>2

Digit(n, base, higher) ==
    IF n < base THEN <<Digits[n + 1]>> ELSE Append(higher, Digits[(n % base) + 1])

\* Below the base there are no higher digits.
LEMMA DigitBelow ==
    ASSUME NEW base, NEW n, n < base
    PROVE  \A x, y : Digit(n, base, x) = Digit(n, base, y)
  BY DEF Digit

\* g has the digits of all numbers up to m.
DigitsUpTo(g, m, base) ==
    g = [n \in 0 .. m |-> Digit(n, base, g[n \div base])]

\* Such a function exists for every m, and all agree.
LEMMA DigitsUpToExist ==
    ASSUME NEW base \in {10, 16}
    PROVE  \A m \in Nat : \E g : DigitsUpTo(g, m, base)
<1> DEFINE T == {m \in Nat : \E g : DigitsUpTo(g, m, base)}
<1>1. 0 \in T
  <2> DEFINE g == [n \in 0 .. 0 |-> <<Digits[1]>>]
  <2>1. g = [n \in 0 .. 0 |-> Digit(n, base, g[n \div base])]
    BY DEF Digit
  <2> QED
    BY <2>1 DEF DigitsUpTo
<1>2. ASSUME NEW m \in Nat, m \in T
      PROVE  m + 1 \in T
  <2>1. PICK g : DigitsUpTo(g, m, base)
    BY <1>2
  <2> DEFINE new == Digit(m + 1, base, g[(m + 1) \div base])
             h == [n \in 0 .. m + 1 |-> IF n <= m THEN g[n] ELSE new]
  <2>2. \A n \in 0 .. m : g[n] = Digit(n, base, g[n \div base])
    BY <2>1 DEF DigitsUpTo
  <2> HIDE DEF new
  <2>3. ASSUME NEW n \in 0 .. m + 1
        PROVE  h[n] = Digit(n, base, h[n \div base])
    <3>1. CASE n < base
      <4>1. h[n] = IF n <= m THEN g[n] ELSE new
        BY <2>2
      <4>2. n <= m => g[n] = Digit(n, base, g[n \div base])
        BY <2>2
      <4>3. ~ (n <= m) => new = Digit(n, base, g[n \div base])
        BY DEF new
      <4> QED
        BY <3>1, <4>1, <4>2, <4>3, DigitBelow
    <3>2. CASE n >= base
      <4>1. n \div base \in 0 .. m
        BY <3>2, QuotRem
      <4>2. h[n \div base] = g[n \div base]
        BY <4>1
      <4>3. n <= m => h[n] = Digit(n, base, g[n \div base])
        BY <2>2
      <4>4. n = m + 1 => h[n] = Digit(n, base, g[n \div base])
        BY DEF new
      <4> QED
        BY <4>2, <4>3, <4>4
    <3> QED
      BY <3>1, <3>2
  <2>4. h = [n \in 0 .. m + 1 |-> Digit(n, base, h[n \div base])]
    BY <2>3
  <2> HIDE DEF h
  <2> QED
    BY <2>4 DEF DigitsUpTo
<1> HIDE DEF T
<1>3. \A m \in Nat : m \in T
  BY <1>1, <1>2, Induction
<1> QED
  BY <1>3 DEF T

LEMMA DigitsUpToAgree ==
    ASSUME NEW base \in {10, 16}, NEW m \in Nat, NEW q \in Nat, NEW g, NEW h,
           DigitsUpTo(g, m, base), DigitsUpTo(h, q, base)
    PROVE  \A n \in Nat : n <= m /\ n <= q => g[n] = h[n]
<1> DEFINE T == {n \in Nat : n <= m /\ n <= q => g[n] = h[n]}
<1>1. /\ \A n \in 0 .. m : g[n] = Digit(n, base, g[n \div base])
      /\ \A n \in 0 .. q : h[n] = Digit(n, base, h[n \div base])
  BY DEF DigitsUpTo
<1>2. ASSUME NEW n \in Nat, \A j \in Nat : j < n => j \in T
      PROVE  n \in T
  <2>1. CASE n < base
    <3>1. Digit(n, base, g[n \div base]) = Digit(n, base, h[n \div base])
      BY <2>1, DigitBelow
    <3> QED
      BY <1>1, <3>1
  <2>2. CASE n >= base
    <3>1. n \div base \in Nat /\ n \div base < n
      BY <2>2, QuotRem
    <3>2. n \div base \in T
      BY <1>2, <3>1
    <3> QED
      BY <1>1, <3>1, <3>2
  <2> QED
    BY <2>1, <2>2
<1> HIDE DEF T
<1>3. \A n \in Nat : n \in T
  BY <1>2, StrongInduction
<1> QED
  BY <1>3 DEF T

\* The digits of n are those of n \div base and one more.
LEMMA DigitsOfIs ==
    ASSUME NEW base \in {10, 16}
    PROVE  \A n \in Nat : DigitsOf(n, base) = Digit(n, base, DigitsOf(n \div base, base))
<1> DEFINE Rec(f) == [n \in Nat |-> Digit(n, base, f[n \div base])]
           G(n) == CHOOSE g : DigitsUpTo(g, n, base)
           d == [n \in Nat |-> G(n)[n]]
           f0 == CHOOSE f : f = Rec(f)
<1>1. \A n \in Nat : DigitsUpTo(G(n), n, base)
  BY DigitsUpToExist
<1>2. ASSUME NEW n \in Nat
      PROVE  d[n] = Digit(n, base, d[n \div base])
  <2>1. G(n)[n] = Digit(n, base, G(n)[n \div base])
    <3>1. DigitsUpTo(G(n), n, base)
      BY <1>1
    <3> HIDE DEF G
    <3>2. \A j \in 0 .. n : G(n)[j] = Digit(j, base, G(n)[j \div base])
      BY <3>1 DEF DigitsUpTo
    <3> QED
      BY <3>2
  <2>2. CASE n < base
    <3> HIDE DEF G
    <3> QED
      BY <2>1, <2>2, DigitBelow
  <2>3. CASE n >= base
    <3>1. n \div base \in Nat /\ n \div base <= n
      BY <2>3, QuotRem
    <3>2. DigitsUpTo(G(n), n, base) /\ DigitsUpTo(G(n \div base), n \div base, base)
      BY <1>1, <3>1
    <3> HIDE DEF G
    <3>3. G(n)[n \div base] = G(n \div base)[n \div base]
      BY <3>1, <3>2, DigitsUpToAgree
    <3> QED
      BY <2>1, <3>1, <3>3
  <2> QED
    BY <2>2, <2>3
<1> HIDE DEF d
<1>3. d = Rec(d)
  <2>1. d = [n \in Nat |-> d[n]]
    BY DEF d
  <2> QED
    BY <1>2, <2>1
<1>4. f0 = Rec(f0)
  BY <1>3
<1>5. \A n \in Nat : f0[n] = Digit(n, base, f0[n \div base])
  <2> HIDE DEF f0
  <2> QED
    BY <1>4
<1>6. \A n : DigitsOf(n, base) = f0[n]
  <2>1. f0 = CHOOSE f : f = [n \in Nat |->
                IF n < base THEN <<Digits[n + 1]>>
                ELSE Append(f[n \div base], Digits[(n % base) + 1])]
    BY DEF Digit
  <2> QED
    BY <2>1 DEF DigitsOf
<1> HIDE DEF f0
<1> QED
  BY <1>5, <1>6, QuotRem

\* A digit is a character, and a number's digits are a text of one at least.
LEMMA DigitCharacters ==
    \A n \in 0 .. 15 : Digits[n + 1] \in Chars
<1>1. \A n \in 0 .. 15 : n + 1 \in 1 .. 16
  OBVIOUS
<1>2. \A q \in 1 .. 16 : Digits[q] \in Chars
  BY PrintfAssumption
<1> QED
  BY <1>1, <1>2

LEMMA DigitsOfType ==
    ASSUME NEW base \in {10, 16}
    PROVE  \A n \in Nat : DigitsOf(n, base) \in Texts /\ DigitsOf(n, base) # <<>>
<1> DEFINE T == {n \in Nat : DigitsOf(n, base) \in Texts /\ DigitsOf(n, base) # <<>>}
<1>1. ASSUME NEW n \in Nat, \A j \in Nat : j < n => j \in T
      PROVE  n \in T
  <2>1. DigitsOf(n, base) = Digit(n, base, DigitsOf(n \div base, base))
    BY DigitsOfIs
  <2>2. CASE n < base
    <3>1. Digits[n + 1] \in Chars
      BY <2>2, DigitCharacters
    <3>2. DigitsOf(n, base) = <<Digits[n + 1]>>
      BY <2>1, <2>2 DEF Digit
    <3> HIDE DEF Digits
    <3>3. <<Digits[n + 1]>> \in Seq(Chars) /\ <<Digits[n + 1]>> # <<>>
      BY <3>1
    <3> QED
      BY <3>2, <3>3 DEF Texts
  <2>3. CASE n >= base
    <3>1. n \div base \in Nat /\ n \div base < n /\ n % base \in 0 .. 15
      BY <2>3, QuotRem
    <3>2. DigitsOf(n \div base, base) \in Texts
      BY <1>1, <3>1
    <3>3. Digits[(n % base) + 1] \in Chars
      BY <3>1, DigitCharacters
    <3>4. DigitsOf(n, base) = Append(DigitsOf(n \div base, base), Digits[(n % base) + 1])
      BY <2>1, <2>3 DEF Digit
    <3> QED
      BY <3>2, <3>3, <3>4 DEF Texts
  <2> QED
    BY <2>2, <2>3
<1> HIDE DEF T
<1>2. \A n \in Nat : n \in T
  BY <1>1, StrongInduction
<1> QED
  BY <1>2 DEF T
-----------------------------------------------------------------------------
(* Reading the parts of a format *)

At(mode, zero, alt, width, precs, len, args, text) ==
    [mode |-> mode, zero |-> zero, alt |-> alt, width |-> width,
     precs |-> precs, len |-> len, args |-> args, out |-> text]

\* What one character does: outside a conversion, a digit, a flag.
LEMMA TextStep ==
    ASSUME NEW z, NEW a, NEW w, NEW p, NEW l, NEW g, NEW o, NEW c
    PROVE  NextChar(At("text", z, a, w, p, l, g, o), c) =
               IF c = "%" THEN At("flags", z, a, w, p, l, g, o)
               ELSE At("text", z, a, w, p, l, g, Append(o, c))
<1> DEFINE st == At("text", z, a, w, p, l, g, o)
<1>1. NextChar(st, c) = TextChar(st, c)
  BY DEF NextChar, At
<1>2. CASE c = "%"
  <2>1. [st EXCEPT !.mode = "flags"] = At("flags", z, a, w, p, l, g, o)
    BY DEF At
  <2> QED
    BY <1>1, <1>2, <2>1 DEF TextChar
<1>3. CASE c # "%"
  <2>1. [st EXCEPT !.out = Append(@, c)] = At("text", z, a, w, p, l, g, Append(o, c))
    BY DEF At
  <2> QED
    BY <1>1, <1>3, <2>1 DEF TextChar
<1> QED
  BY <1>2, <1>3

\* The ten decimal digits and their values.
LEMMA DigitValues ==
    /\ DOMAIN DigitValue = {"0", "1", "2", "3", "4", "5", "6", "7", "8", "9"}
    /\ \A d \in 0 .. 9 : /\ Digits[d + 1] \in DOMAIN DigitValue
                         /\ DigitValue[Digits[d + 1]] = d
                         /\ Digits[d + 1] = "0" <=> d = 0
<1>1. {Digits[q] : q \in 1 .. 10} = {"0", "1", "2", "3", "4", "5", "6", "7", "8", "9"}
  <2>1. \A q \in 1 .. 10 : Digits[q] \in
            {"0", "1", "2", "3", "4", "5", "6", "7", "8", "9"}
    BY DEF Digits
  <2>2. /\ Digits[1] = "0" /\ Digits[2] = "1" /\ Digits[3] = "2" /\ Digits[4] = "3"
        /\ Digits[5] = "4" /\ Digits[6] = "5" /\ Digits[7] = "6" /\ Digits[8] = "7"
        /\ Digits[9] = "8" /\ Digits[10] = "9"
    BY DEF Digits
  <2> HIDE DEF Digits
  <2> QED
    BY <2>1, <2>2
<1>2. \A j, q \in 1 .. 10 : Digits[j] = Digits[q] => j = q
  BY DEF Digits
<1>3. ASSUME NEW d \in 0 .. 9
      PROVE  /\ Digits[d + 1] \in DOMAIN DigitValue
             /\ DigitValue[Digits[d + 1]] = d
             /\ Digits[d + 1] = "0" <=> d = 0
  <2>1. d + 1 \in 1 .. 10
    OBVIOUS
  <2>2. Digits[d + 1] \in {Digits[q] : q \in 1 .. 10}
    BY <2>1
  <2> DEFINE found == CHOOSE q \in 1 .. 10 : Digits[q] = Digits[d + 1]
  <2>3. DigitValue[Digits[d + 1]] = found - 1
    BY <2>2 DEF DigitValue
  <2>4. found = d + 1
    BY <1>2, <2>1
  <2> HIDE DEF found
  <2>5. Digits[d + 1] = "0" <=> d = 0
    <3>1. Digits[1] = "0"
      BY DEF Digits
    <3> HIDE DEF Digits
    <3> QED
      BY <1>2, <2>1, <3>1
  <2>6. Digits[d + 1] \in DOMAIN DigitValue
    BY <2>2 DEF DigitValue
  <2>7. DigitValue[Digits[d + 1]] = d
    <3>1. d + 1 - 1 = d
      OBVIOUS
    <3> QED
      BY <2>3, <2>4, <3>1
  <2> HIDE DEF DigitValue, Digits
  <2> QED
    BY <2>5, <2>6, <2>7
<1> QED
  BY <1>1, <1>3 DEF DigitValue

Inside == {"flags", "width", "precs"}

LEMMA DigitStep ==
    ASSUME NEW st, st.mode # "text", NEW d \in 0 .. 9
    PROVE  NextChar(st, Digits[d + 1]) = DigitChar(st, d)
<1>1. Digits[d + 1] \in DOMAIN DigitValue /\ DigitValue[Digits[d + 1]] = d
  BY DigitValues
<1> DEFINE c == Digits[d + 1]
<1>2. /\ c # "." /\ c # "#" /\ c # "l" /\ c # "c" /\ c # "s" /\ c # "d" /\ c # "u"
      /\ c # "x" /\ c # "p"
  BY <1>1, DigitValues
<1> HIDE DEF c
<1>3. SpecChar(st, c) = DigitChar(st, DigitValue[c])
  BY <1>1, <1>2 DEF SpecChar, c
<1> QED
  BY <1>1, <1>3 DEF NextChar, c

LEMMA FlagStep ==
    ASSUME NEW m \in Inside,
           NEW z, NEW a, NEW w, NEW p, NEW l, NEW g, NEW o
    PROVE  /\ NextChar(At(m, z, a, w, p, l, g, o), ".") = At("precs", z, a, w, p, l, g, o)
           /\ NextChar(At(m, z, a, w, p, l, g, o), "#") =
                  At(m, z, (a \/ m = "flags"), w, p, l, g, o)
           /\ NextChar(At(m, z, a, w, p, l, g, o), "l") = At(m, z, a, w, p, l + 1, g, o)
<1> DEFINE st == At(m, z, a, w, p, l, g, o)
<1>1. st.mode # "text"
  BY DEF At, Inside
<1>2. "." \notin DOMAIN DigitValue /\ "#" \notin DOMAIN DigitValue
      /\ "l" \notin DOMAIN DigitValue
  BY DigitValues
<1>3. /\ NextChar(st, ".") = [st EXCEPT !.mode = "precs"]
      /\ NextChar(st, "#") = [st EXCEPT !.alt = @ \/ st.mode = "flags"]
      /\ NextChar(st, "l") = [st EXCEPT !.len = @ + 1]
  <2> HIDE DEF st
  <2> QED
    BY <1>1, <1>2 DEF NextChar, SpecChar
<1> QED
  BY <1>3 DEF At

\* Outside a conversion characters are put as they are.
LEMMA ReadsText ==
    ASSUME NEW s \in Texts, \A n \in DOMAIN s : s[n] # "%",
           NEW z, NEW a, NEW w, NEW p, NEW l, NEW g, NEW o \in Texts
    PROVE  Reads(At("text", z, a, w, p, l, g, o), s, At("text", z, a, w, p, l, g, o \o s))
<1> DEFINE T(n) == At("text", z, a, w, p, l, g, o \o SubSeq(s, 1, n))
           u == [n \in 0 .. Len(s) |-> T(n)]
<1>1. Len(s) \in Nat /\ DOMAIN s = 1 .. Len(s)
  BY DEF Texts
<1>2. o \o SubSeq(s, 1, 0) = o /\ o \o SubSeq(s, 1, Len(s)) = o \o s
  BY DEF Texts
<1>3. ASSUME NEW n \in 1 .. Len(s)
      PROVE  o \o SubSeq(s, 1, n) = Append(o \o SubSeq(s, 1, n - 1), s[n])
  BY DEF Texts
<1>4. ASSUME NEW n \in 1 .. Len(s)
      PROVE  u[n] = NextChar(u[n - 1], s[n])
  <2>1. u[n] = T(n) /\ u[n - 1] = T(n - 1)
    BY <1>1
  <2>2. s[n] # "%"
    BY <1>1
  <2> HIDE DEF u
  <2>3. NextChar(T(n - 1), s[n]) =
            At("text", z, a, w, p, l, g, Append(o \o SubSeq(s, 1, n - 1), s[n]))
    BY <2>2, TextStep
  <2> QED
    BY <1>3, <2>1, <2>3
<1>5. u[0] = T(0) /\ u[Len(s)] = T(Len(s))
  BY <1>1
<1> HIDE DEF u
<1>6. Path(u, At("text", z, a, w, p, l, g, o), s, At("text", z, a, w, p, l, g, o \o s))
  BY <1>2, <1>4, <1>5 DEF Path
<1> QED
  BY <1>6 DEF Reads

\* The l of a conversion are counted.
LEMMA ReadsLs ==
    ASSUME NEW n \in Nat, NEW m \in Inside,
           NEW z, NEW a, NEW w, NEW p, NEW l \in Nat, NEW g, NEW o
    PROVE  Reads(At(m, z, a, w, p, l, g, o), Pad("l", n), At(m, z, a, w, p, l + n, g, o))
<1> DEFINE T(q) == At(m, z, a, w, p, l + q, g, o)
           u == [q \in 0 .. n |-> T(q)]
<1>1. Len(Pad("l", n)) = n /\ \A q \in 1 .. n : Pad("l", n)[q] = "l"
  BY DEF Pad
<1>2. ASSUME NEW q \in 1 .. n
      PROVE  u[q] = NextChar(u[q - 1], "l")
  <2>1. u[q] = T(q) /\ u[q - 1] = T(q - 1) /\ l + q = l + (q - 1) + 1
    OBVIOUS
  <2> HIDE DEF u
  <2>2. NextChar(T(q - 1), "l") = At(m, z, a, w, p, l + (q - 1) + 1, g, o)
    BY FlagStep
  <2> QED
    BY <2>1, <2>2
<1>3. u[0] = T(0) /\ u[n] = T(n) /\ l + 0 = l
  OBVIOUS
<1> HIDE DEF u
<1>4. Path(u, At(m, z, a, w, p, l, g, o), Pad("l", n), At(m, z, a, w, p, l + n, g, o))
  BY <1>1, <1>2, <1>3 DEF Path
<1> QED
  BY <1>4 DEF Reads

\* Decimal digits are read as the number they were made from.
LEMMA ReadsWidth ==
    ASSUME NEW z, NEW a, NEW p \in Nat, NEW l, NEW g, NEW o
    PROVE  \A n \in Nat : n > 0 =>
               Reads(At("flags", z, a, 0, p, l, g, o), DigitsOf(n, 10),
                     At("width", z, a, n, p, l, g, o))
<1> DEFINE First == At("flags", z, a, 0, p, l, g, o)
           W(n) == At("width", z, a, n, p, l, g, o)
           T == {n \in Nat : n > 0 => Reads(First, DigitsOf(n, 10), W(n))}
<1>1. ASSUME NEW n \in Nat, \A j \in Nat : j < n => j \in T
      PROVE  n \in T
  <2>1. DigitsOf(n, 10) = Digit(n, 10, DigitsOf(n \div 10, 10))
    BY DigitsOfIs
  <2>2. CASE n = 0
    BY <2>2
  <2>3. CASE n > 0 /\ n < 10
    <3>1. DigitsOf(n, 10) = <<Digits[n + 1]>>
      BY <2>1, <2>3 DEF Digit
    <3>2. NextChar(First, Digits[n + 1]) = W(n)
      <4>1. n \in 0 .. 9
        BY <2>3
      <4>2. NextChar(First, Digits[n + 1]) = W(n)
        <5>1. First.mode # "text"
          BY DEF At
        <5>2. NextChar(First, Digits[n + 1]) = DigitChar(First, n)
          BY <4>1, <5>1, DigitStep
        <5> QED
          <6>1. First.mode = "flags" /\ First.width = 0 /\ n # 0
            BY <2>3 DEF At
          <6>2. DigitChar(First, n) =
                    [First EXCEPT !.mode = "width", !.width = First.width * 10 + n]
            <7> HIDE DEF First
            <7> QED
              BY <6>1 DEF DigitChar
          <6>3. [First EXCEPT !.mode = "width", !.width = n] = W(n)
            <7>1. [First EXCEPT !.mode = "width"] = W(0)
              BY DEF At
            <7>2. [W(0) EXCEPT !.width = n] = W(n)
              BY DEF At
            <7>3. [First EXCEPT !.mode = "width", !.width = n] =
                      [[First EXCEPT !.mode = "width"] EXCEPT !.width = n]
              OBVIOUS
            <7> QED
              BY <7>1, <7>2, <7>3
          <6>4. First.width * 10 + n = n
            BY <6>1
          <6> HIDE DEF First, W
          <6> QED
            BY <4>1, <5>2, <6>2, <6>3, <6>4
      <4> QED
        BY <4>2
    <3> QED
      BY <3>1, <3>2, ReadsOne
  <2>4. CASE n >= 10
    <3> DEFINE q == n \div 10
               r == n % 10
    <3>1. q \in Nat /\ q < n /\ q > 0 /\ r \in 0 .. 9 /\ q * 10 + r = n
      BY <2>4, QuotRem
    <3> HIDE DEF q, r
    <3>2. DigitsOf(n, 10) = DigitsOf(q, 10) \o <<Digits[r + 1]>>
      <4>1. DigitsOf(n, 10) = Append(DigitsOf(q, 10), Digits[r + 1])
        BY <2>1, <2>4 DEF Digit, q, r
      <4>2. DigitsOf(q, 10) \in Texts
        BY <3>1, DigitsOfType
      <4> QED
        BY <4>1, <4>2 DEF Texts
    <3>3. Reads(First, DigitsOf(q, 10), W(q))
      BY <1>1, <3>1
    <3>4. NextChar(W(q), Digits[r + 1]) = W(n)
      <4>1. NextChar(W(q), Digits[r + 1]) = W(q * 10 + r)
        <5>1. W(q).mode # "text"
          BY DEF At
        <5>2. NextChar(W(q), Digits[r + 1]) = DigitChar(W(q), r)
          BY <3>1, <5>1, DigitStep
        <5> QED
          BY <5>2 DEF DigitChar, At
      <4> QED
        BY <3>1, <4>1
    <3>5. Reads(W(q), <<Digits[r + 1]>>, W(n))
      BY <3>4, ReadsOne
    <3>6. DigitsOf(q, 10) \in Seq(Chars) /\ <<Digits[r + 1]>> \in Seq(Chars)
      <4>1. Digits[r + 1] \in Chars
        BY <3>1, DigitCharacters
      <4> QED
        BY <3>1, <4>1, DigitsOfType DEF Texts
    <3> HIDE DEF First, W
    <3>7. Reads(First, DigitsOf(q, 10) \o <<Digits[r + 1]>>, W(n))
      BY <3>3, <3>5, <3>6, ReadsThen
    <3> QED
      BY <3>2, <3>7
  <2> QED
    BY <2>2, <2>3, <2>4
<1> HIDE DEF T
<1>2. \A n \in Nat : n \in T
  BY <1>1, StrongInduction
<1> QED
  BY <1>2 DEF T

\* The digits of the precision give its number.
LEMMA ReadsPrecs ==
    ASSUME NEW z, NEW a, NEW w \in Nat, NEW l, NEW g, NEW o
    PROVE  \A n \in Nat :
               Reads(At("precs", z, a, w, 0, l, g, o), DigitsOf(n, 10),
                     At("precs", z, a, w, n, l, g, o))
<1> DEFINE P(n) == At("precs", z, a, w, n, l, g, o)
           T == {n \in Nat : Reads(P(0), DigitsOf(n, 10), P(n))}
<1>1. ASSUME NEW n \in Nat, \A j \in Nat : j < n => j \in T
      PROVE  n \in T
  <2>1. DigitsOf(n, 10) = Digit(n, 10, DigitsOf(n \div 10, 10))
    BY DigitsOfIs
  <2>2. CASE n < 10
    <3>1. DigitsOf(n, 10) = <<Digits[n + 1]>>
      BY <2>1, <2>2 DEF Digit
    <3>2. NextChar(P(0), Digits[n + 1]) = P(n)
      <4>1. n \in 0 .. 9 /\ 0 * 10 + n = n
        BY <2>2
      <4>2. NextChar(P(0), Digits[n + 1]) = P(0 * 10 + n)
        <5>1. P(0).mode # "text"
          BY DEF At
        <5>2. NextChar(P(0), Digits[n + 1]) = DigitChar(P(0), n)
          BY <4>1, <5>1, DigitStep
        <5> QED
          BY <5>2 DEF DigitChar, At
      <4> QED
        BY <4>1, <4>2
    <3> QED
      BY <3>1, <3>2, ReadsOne
  <2>3. CASE n >= 10
    <3> DEFINE q == n \div 10
               r == n % 10
    <3>1. q \in Nat /\ q < n /\ r \in 0 .. 9 /\ q * 10 + r = n
      BY <2>3, QuotRem
    <3> HIDE DEF q, r
    <3>2. DigitsOf(n, 10) = DigitsOf(q, 10) \o <<Digits[r + 1]>>
      <4>1. DigitsOf(n, 10) = Append(DigitsOf(q, 10), Digits[r + 1])
        BY <2>1, <2>3 DEF Digit, q, r
      <4>2. DigitsOf(q, 10) \in Texts
        BY <3>1, DigitsOfType
      <4> QED
        BY <4>1, <4>2 DEF Texts
    <3>3. Reads(P(0), DigitsOf(q, 10), P(q))
      BY <1>1, <3>1
    <3>4. NextChar(P(q), Digits[r + 1]) = P(n)
      <4>1. NextChar(P(q), Digits[r + 1]) = P(q * 10 + r)
        <5>1. P(q).mode # "text"
          BY DEF At
        <5>2. NextChar(P(q), Digits[r + 1]) = DigitChar(P(q), r)
          BY <3>1, <5>1, DigitStep
        <5> QED
          BY <5>2 DEF DigitChar, At
      <4> QED
        BY <3>1, <4>1
    <3>5. Reads(P(q), <<Digits[r + 1]>>, P(n))
      BY <3>4, ReadsOne
    <3>6. DigitsOf(q, 10) \in Seq(Chars) /\ <<Digits[r + 1]>> \in Seq(Chars)
      <4>1. Digits[r + 1] \in Chars
        BY <3>1, DigitCharacters
      <4> QED
        BY <3>1, <4>1, DigitsOfType DEF Texts
    <3> HIDE DEF P
    <3>7. Reads(P(0), DigitsOf(q, 10) \o <<Digits[r + 1]>>, P(n))
      BY <3>3, <3>5, <3>6, ReadsThen
    <3> QED
      BY <3>2, <3>7
  <2> QED
    BY <2>2, <2>3
<1> HIDE DEF T
<1>2. \A n \in Nat : n \in T
  BY <1>1, StrongInduction
<1> QED
  BY <1>2 DEF T
-----------------------------------------------------------------------------
(* Reading a conversion *)

Flags(sp) == <<"%">> \o (IF sp.alt THEN <<"#">> ELSE <<>>)
                     \o (IF sp.zero THEN <<"0">> ELSE <<>>)
WidthText(sp) == IF sp.width > 0 THEN DigitsOf(sp.width, 10) ELSE <<>>
PrecsText(sp) == IF sp.precs > 0 THEN <<".">> \o DigitsOf(sp.precs, 10) ELSE <<>>
FrontText(sp) == Flags(sp) \o WidthText(sp) \o PrecsText(sp) \o Pad("l", sp.len)

\* A conversion is what comes before its last character, and that.
LEMMA SpecTextParts ==
    \A sp : SpecText(sp) = FrontText(sp) \o <<sp.conv>>
  BY DEF SpecText, FrontText, Flags, WidthText, PrecsText

\* Texts.
LEMMA Singles ==
    \A c \in Chars : <<c>> \in Texts
  BY DEF Texts

LEMMA Punctuation ==
    /\ "-" \in Chars /\ "x" \in Chars /\ " " \in Chars /\ "%" \in Chars
    /\ "#" \in Chars /\ "." \in Chars /\ "l" \in Chars /\ "0" \in Chars
<1>1. Digits[1] = "0"
  BY DEF Digits
<1>2. Digits[1] \in {Digits[q] : q \in 1 .. 16}
  <2>1. 1 \in 1 .. 16
    OBVIOUS
  <2> HIDE DEF Digits
  <2> QED
    BY <2>1
<1>3. \A c \in {"-", "x", " ", "%", "#", ".", "l"} : c \in Chars
  BY PrintfAssumption
<1>4. Digits[1] \in Chars
  BY <1>2, PrintfAssumption
<1> HIDE DEF Digits
<1> QED
  BY <1>1, <1>3, <1>4

LEMMA Concatenation ==
    ASSUME NEW s \in Texts, NEW t \in Texts PROVE s \o t \in Texts
  BY DEF Texts

LEMMA EmptyText == <<>> \in Texts
  BY DEF Texts

LEMMA PadType ==
    ASSUME NEW c \in Chars, NEW n \in Int
    PROVE  Pad(c, n) \in Texts
  BY DEF Pad, Texts

\* The parts of a conversion are texts.
LEMMA FrontType ==
    ASSUME NEW sp, IsSpec(sp)
    PROVE  /\ Flags(sp) \in Texts /\ WidthText(sp) \in Texts /\ PrecsText(sp) \in Texts
           /\ Pad("l", sp.len) \in Texts /\ FrontText(sp) \in Texts
<1>1. Flags(sp) \in Texts
  <2>1. /\ <<"%">> \in Texts
        /\ (IF sp.alt THEN <<"#">> ELSE <<>>) \in Texts
        /\ (IF sp.zero THEN <<"0">> ELSE <<>>) \in Texts
    BY Singles, Punctuation, EmptyText
  <2> QED
    BY <2>1, Concatenation DEF Flags
<1>2. sp.width \in Nat /\ sp.precs \in Nat /\ sp.len \in Nat
  BY DEF IsSpec
<1>3. WidthText(sp) \in Texts
  BY <1>2, DigitsOfType, EmptyText DEF WidthText
<1>4. PrecsText(sp) \in Texts
  <2>1. <<".">> \in Texts /\ DigitsOf(sp.precs, 10) \in Texts
    BY <1>2, DigitsOfType, Singles, Punctuation
  <2>2. <<".">> \o DigitsOf(sp.precs, 10) \in Texts
    BY <2>1, Concatenation
  <2> QED
    BY <2>2, EmptyText DEF PrecsText
<1>5. Pad("l", sp.len) \in Texts
  <2>1. sp.len \in Int
    BY <1>2
  <2>2. "l" \in Chars
    BY Punctuation
  <2> QED
    BY <2>1, <2>2, PadType
<1>6. FrontText(sp) \in Texts
  <2>1. Flags(sp) \o WidthText(sp) \in Texts
    BY <1>1, <1>3, Concatenation
  <2>2. Flags(sp) \o WidthText(sp) \o PrecsText(sp) \in Texts
    BY <1>4, <2>1, Concatenation
  <2> QED
    BY <1>5, <2>2, Concatenation DEF FrontText
<1> QED
  BY <1>1, <1>3, <1>4, <1>5, <1>6

\* Reading one text after the other.
LEMMA ReadsBoth ==
    ASSUME NEW s \in Texts, NEW t \in Texts, NEW st, NEW mid, NEW after,
           Reads(st, s, mid), Reads(mid, t, after)
    PROVE  Reads(st, s \o t, after)
  BY ReadsThen DEF Texts

\* Reading the flags, and all that comes before the conversion character.
LEMMA ReadsFlags ==
    ASSUME NEW sp, IsSpec(sp), NEW g, NEW o
    PROVE  Reads(At("text", FALSE, FALSE, 0, 0, 0, g, o), Flags(sp),
                 At("flags", sp.zero, sp.alt, 0, 0, 0, g, o))
<1> DEFINE F(zero, alt) == At("flags", zero, alt, 0, 0, 0, g, o)
           A == IF sp.alt THEN <<"#">> ELSE <<>>
           Z == IF sp.zero THEN <<"0">> ELSE <<>>
<1>1. Reads(At("text", FALSE, FALSE, 0, 0, 0, g, o), <<"%">>, F(FALSE, FALSE))
  <2>1. NextChar(At("text", FALSE, FALSE, 0, 0, 0, g, o), "%") = F(FALSE, FALSE)
    <3>1. \A z, a, w, p, l :
              NextChar(At("text", z, a, w, p, l, g, o), "%") = At("flags", z, a, w, p, l, g, o)
      BY TextStep
    <3> QED
      BY <3>1, Zenon
  <2> QED
    BY <2>1, ReadsOne
<1>2. Reads(F(FALSE, FALSE), A, F(FALSE, sp.alt))
  <2>1. CASE sp.alt
    <3>1. PICK no, yes : no = FALSE /\ yes = TRUE
      OBVIOUS
    <3>2. NextChar(F(no, no), "#") = F(no, yes)
      <4>1. NextChar(F(no, no), "#") = F(no, (no \/ "flags" = "flags"))
        BY FlagStep DEF Inside
      <4>2. (no \/ "flags" = "flags") = yes
        BY <3>1
      <4> QED
        BY <4>1, <4>2, Zenon
    <3>3. Reads(F(no, no), <<"#">>, F(no, yes))
      BY <3>2, ReadsOne
    <3>4. A = <<"#">> /\ sp.alt = yes
      BY <2>1, <3>1 DEF IsSpec
    <3> HIDE DEF F, A
    <3> QED
      BY <3>1, <3>3, <3>4, Zenon
  <2>2. CASE ~ sp.alt
    <3>1. A = <<>> /\ sp.alt = FALSE
      BY <2>2 DEF IsSpec
    <3> QED
      BY <3>1, ReadsNothing
  <2> QED
    BY <2>1, <2>2
<1>3. Reads(F(FALSE, sp.alt), Z, F(sp.zero, sp.alt))
  <2>1. CASE sp.zero
    <3>1. PICK d \in 0 .. 9 : d = 0
      OBVIOUS
    <3>2. PICK no, yes : no = FALSE /\ yes = TRUE
      OBVIOUS
    <3> DEFINE st == F(no, sp.alt)
    <3>3. st.mode = "flags"
      BY DEF At
    <3>4. NextChar(st, Digits[d + 1]) = DigitChar(st, d)
      BY <3>3, DigitStep
    <3>5. DigitChar(st, d) = [st EXCEPT !.zero = TRUE]
      <4> HIDE DEF st
      <4> QED
        BY <3>1, <3>3 DEF DigitChar
    <3>6. [st EXCEPT !.zero = yes] = F(yes, sp.alt)
      BY DEF At
    <3>7. Digits[d + 1] = "0"
      BY <3>1 DEF Digits
    <3>8. NextChar(st, "0") = F(yes, sp.alt)
      <4> HIDE DEF st, F, Digits
      <4> QED
        BY <3>2, <3>4, <3>5, <3>6, <3>7
    <3>9. Reads(st, <<"0">>, F(yes, sp.alt))
      BY <3>8, ReadsOne
    <3>10. sp.zero = yes /\ Z = <<"0">>
      BY <2>1, <3>2 DEF IsSpec
    <3> HIDE DEF F, Z
    <3> QED
      BY <3>2, <3>9, <3>10, Zenon
  <2>2. CASE ~ sp.zero
    <3>1. Z = <<>> /\ sp.zero = FALSE
      BY <2>2 DEF IsSpec
    <3> QED
      BY <3>1, ReadsNothing
  <2> QED
    BY <2>1, <2>2
<1>4. <<"%">> \in Texts /\ A \in Texts /\ Z \in Texts
  BY Singles, Punctuation, EmptyText
<1> HIDE DEF F, A, Z
<1>5. Reads(At("text", FALSE, FALSE, 0, 0, 0, g, o), <<"%">> \o A, F(FALSE, sp.alt))
  BY <1>1, <1>2, <1>4, ReadsBoth
<1>6. <<"%">> \o A \in Texts
  BY <1>4, Concatenation
<1>7. Reads(At("text", FALSE, FALSE, 0, 0, 0, g, o), <<"%">> \o A \o Z, F(sp.zero, sp.alt))
  BY <1>3, <1>4, <1>5, <1>6, ReadsBoth
<1> QED
  BY <1>7 DEF Flags, A, Z, F

LEMMA ReadsFront ==
    ASSUME NEW sp, IsSpec(sp), NEW g, NEW o
    PROVE  \E m \in Inside :
               Reads(At("text", FALSE, FALSE, 0, 0, 0, g, o), FrontText(sp),
                     At(m, sp.zero, sp.alt, sp.width, sp.precs, sp.len, g, o))
<1> DEFINE B(m, width, precs, len) == At(m, sp.zero, sp.alt, width, precs, len, g, o)
           m1 == IF sp.width > 0 THEN "width" ELSE "flags"
           m2 == IF sp.precs > 0 THEN "precs" ELSE m1
           A0 == At("text", FALSE, FALSE, 0, 0, 0, g, o)
<1>1. sp.width \in Nat /\ sp.precs \in Nat /\ sp.len \in Nat
  BY DEF IsSpec
<1>2. m1 \in Inside /\ m2 \in Inside
  BY DEF Inside
<1>3. Reads(A0, Flags(sp), B("flags", 0, 0, 0))
  BY ReadsFlags
<1>4. Reads(B("flags", 0, 0, 0), WidthText(sp), B(m1, sp.width, 0, 0))
  <2>1. CASE sp.width > 0
    <3>1. Reads(B("flags", 0, 0, 0), DigitsOf(sp.width, 10), B("width", sp.width, 0, 0))
      BY <1>1, <2>1, ReadsWidth
    <3>2. WidthText(sp) = DigitsOf(sp.width, 10) /\ m1 = "width"
      BY <2>1 DEF WidthText
    <3> HIDE DEF B, m1
    <3> QED
      BY <3>1, <3>2
  <2>2. CASE ~ (sp.width > 0)
    <3>1. WidthText(sp) = <<>> /\ m1 = "flags" /\ sp.width = 0
      BY <1>1, <2>2 DEF WidthText
    <3> HIDE DEF B, m1
    <3> QED
      BY <3>1, ReadsNothing
  <2> QED
    BY <2>1, <2>2
<1>5. Reads(B(m1, sp.width, 0, 0), PrecsText(sp), B(m2, sp.width, sp.precs, 0))
  <2>1. CASE sp.precs > 0
    <3>1. NextChar(B(m1, sp.width, 0, 0), ".") = B("precs", sp.width, 0, 0)
      BY <1>2, FlagStep
    <3>2. Reads(B(m1, sp.width, 0, 0), <<".">>, B("precs", sp.width, 0, 0))
      BY <3>1, ReadsOne
    <3>3. Reads(B("precs", sp.width, 0, 0), DigitsOf(sp.precs, 10),
                B("precs", sp.width, sp.precs, 0))
      BY <1>1, ReadsPrecs
    <3>4. <<".">> \in Texts /\ DigitsOf(sp.precs, 10) \in Texts
      BY <1>1, DigitsOfType, Singles, Punctuation
    <3>5. PrecsText(sp) = <<".">> \o DigitsOf(sp.precs, 10) /\ m2 = "precs"
      BY <2>1 DEF PrecsText
    <3> HIDE DEF B, m1, m2
    <3>6. Reads(B(m1, sp.width, 0, 0), <<".">> \o DigitsOf(sp.precs, 10),
                B("precs", sp.width, sp.precs, 0))
      BY <3>2, <3>3, <3>4, ReadsBoth
    <3> QED
      BY <3>5, <3>6
  <2>2. CASE ~ (sp.precs > 0)
    <3>1. PrecsText(sp) = <<>> /\ m2 = m1 /\ sp.precs = 0
      BY <1>1, <2>2 DEF PrecsText
    <3> HIDE DEF B, m1, m2
    <3> QED
      BY <3>1, ReadsNothing
  <2> QED
    BY <2>1, <2>2
<1>6. Reads(B(m2, sp.width, sp.precs, 0), Pad("l", sp.len), B(m2, sp.width, sp.precs, sp.len))
  <2>1. Reads(B(m2, sp.width, sp.precs, 0), Pad("l", sp.len),
              B(m2, sp.width, sp.precs, 0 + sp.len))
    <3> HIDE DEF m2
    <3> QED
      BY <1>1, <1>2, ReadsLs
  <2>2. 0 + sp.len = sp.len
    BY <1>1
  <2> HIDE DEF B, m2
  <2> QED
    BY <2>1, <2>2
<1> HIDE DEF B, m1, m2, A0
<1>7. Reads(A0, Flags(sp) \o WidthText(sp), B(m1, sp.width, 0, 0))
  BY <1>3, <1>4, FrontType, ReadsBoth
<1>8. Flags(sp) \o WidthText(sp) \in Texts
  BY FrontType, Concatenation
<1>9. Reads(A0, Flags(sp) \o WidthText(sp) \o PrecsText(sp), B(m2, sp.width, sp.precs, 0))
  BY <1>5, <1>7, <1>8, FrontType, ReadsBoth
<1>10. Flags(sp) \o WidthText(sp) \o PrecsText(sp) \in Texts
  BY <1>8, FrontType, Concatenation
<1>11. Reads(A0, FrontText(sp), B(m2, sp.width, sp.precs, sp.len))
  BY <1>6, <1>9, <1>10, FrontType, ReadsBoth DEF FrontText
<1> QED
  BY <1>2, <1>11 DEF B, A0
-----------------------------------------------------------------------------
(* What a call puts *)

ConvText(sp) ==
    CASE sp.conv = "c" -> <<sp.args[1]>>
      [] sp.conv = "s" -> print_str(sp.args[1], sp.width, sp.precs)
      [] sp.conv = "d" -> print_number(Signed(sp), 10, sp.width, TRUE, sp.zero, sp.alt)
      [] sp.conv = "u" -> print_number(Unsigned(sp), 10, sp.width, FALSE, sp.zero, sp.alt)
      [] sp.conv = "x" -> print_number(Unsigned(sp), 16, sp.width, FALSE, sp.zero, sp.alt)
      [] sp.conv = "p" -> print_number(sp.args[1], 16, sp.width, FALSE, FALSE, TRUE)
      [] OTHER         -> <<sp.conv>>

Continues == DOMAIN DigitValue \cup {".", "#", "l"}

\* Outside a conversion, o put so far.
TextState(st, o) == \E rest : st = At("text", FALSE, FALSE, 0, 0, 0, rest, o)

\* The record after a conversion is that at the start of a format.
LEMMA StartIs ==
    \A g : Start(g) = At("text", FALSE, FALSE, 0, 0, 0, g, <<>>)
  BY Zenon DEF Start, At

LEMMA AtOut ==
    ASSUME NEW m, NEW z, NEW a, NEW w, NEW p, NEW l, NEW g, NEW o, NEW new
    PROVE  [At(m, z, a, w, p, l, g, o) EXCEPT !.out = new] = At(m, z, a, w, p, l, g, new)
  BY DEF At

LEMMA ConvertedAt ==
    ASSUME NEW st, NEW text, NEW n
    PROVE  Converted(st, text, n) =
               At("text", FALSE, FALSE, 0, 0, 0, SubSeq(st.args, n + 1, Len(st.args)),
                  st.out \o text)
<1> DEFINE rest == SubSeq(st.args, n + 1, Len(st.args))
           new == st.out \o text
<1>1. Converted(st, text, n) = [Start(rest) EXCEPT !.out = new]
  BY DEF Converted
<1> HIDE DEF rest, new
<1>2. [At("text", FALSE, FALSE, 0, 0, 0, rest, <<>>) EXCEPT !.out = new] =
          At("text", FALSE, FALSE, 0, 0, 0, rest, new)
  <2>1. PICK no, zero, none : no = FALSE /\ zero = 0 /\ none = <<>>
    OBVIOUS
  <2>2. [At("text", no, no, zero, zero, zero, rest, none) EXCEPT !.out = new] =
            At("text", no, no, zero, zero, zero, rest, new)
    BY AtOut
  <2> QED
    BY <2>1, <2>2, Zenon
<1>3. Start(rest) = At("text", FALSE, FALSE, 0, 0, 0, rest, <<>>)
  BY StartIs, Zenon
<1> QED
  BY <1>1, <1>2, <1>3, Zenon DEF rest, new

LEMMA ConvertedIs ==
    ASSUME NEW st, NEW text, NEW n
    PROVE  TextState(Converted(st, text, n), st.out \o text)
  BY ConvertedAt, Zenon DEF TextState

\* The conversion character puts the conversion's text.
LEMMA ConvStep ==
    ASSUME NEW sp, sp.conv \notin Continues, NEW m \in Inside, NEW o
    PROVE  TextState(
               NextChar(At(m, sp.zero, sp.alt, sp.width, sp.precs, sp.len, sp.args, o), sp.conv),
               o \o ConvText(sp))
<1> DEFINE st == At(m, sp.zero, sp.alt, sp.width, sp.precs, sp.len, sp.args, o)
           c == sp.conv
<1>1. /\ st.mode # "text" /\ st.zero = sp.zero /\ st.alt = sp.alt /\ st.width = sp.width
      /\ st.precs = sp.precs /\ st.len = sp.len /\ st.args = sp.args
      /\ st.out = o
  BY DEF At, Inside
<1>2. c \notin DOMAIN DigitValue /\ c # "." /\ c # "#" /\ c # "l"
  BY DEF Continues
<1> HIDE DEF st
<1>3. Unsigned(st) = Unsigned(sp) /\ Signed(st) = Signed(sp)
  BY <1>1 DEF Unsigned, Signed, Words
<1>4. \E n : NextChar(st, c) = Converted(st, ConvText(sp), n)
  <2>1. NextChar(st, c) = SpecChar(st, c)
    BY <1>1 DEF NextChar
  <2>2. CASE c = "c"
    <3>1. SpecChar(st, c) = Converted(st, <<st.args[1]>>, 1)
      BY <1>2, <2>2 DEF SpecChar
    <3>2. ConvText(sp) = <<sp.args[1]>>
      BY <2>2 DEF ConvText
    <3> QED
      BY <1>1, <2>1, <3>1, <3>2
  <2>3. CASE c = "s"
    <3>1. SpecChar(st, c) = Converted(st, print_str(st.args[1], st.width, st.precs), 1)
      BY <1>2, <2>3 DEF SpecChar
    <3>2. ConvText(sp) = print_str(sp.args[1], sp.width, sp.precs)
      BY <2>3 DEF ConvText
    <3> QED
      BY <1>1, <2>1, <3>1, <3>2
  <2>4. CASE c = "d"
    <3>1. SpecChar(st, c) = Converted(st, print_number(Signed(st), 10, st.width, TRUE,
                                                       st.zero, st.alt), Words(st))
      BY <1>2, <2>4 DEF SpecChar
    <3>2. ConvText(sp) = print_number(Signed(sp), 10, sp.width, TRUE, sp.zero, sp.alt)
      BY <2>4 DEF ConvText
    <3>3. ConvText(sp) = print_number(Signed(st), 10, st.width, TRUE, st.zero, st.alt)
      BY <1>1, <1>3, <3>2
    <3> QED
      BY <2>1, <3>1, <3>3
  <2>5. CASE c = "u"
    <3>1. SpecChar(st, c) = Converted(st, print_number(Unsigned(st), 10, st.width, FALSE,
                                                       st.zero, st.alt), Words(st))
      BY <1>2, <2>5 DEF SpecChar
    <3>2. ConvText(sp) = print_number(Unsigned(sp), 10, sp.width, FALSE, sp.zero, sp.alt)
      BY <2>5 DEF ConvText
    <3>3. ConvText(sp) = print_number(Unsigned(st), 10, st.width, FALSE, st.zero, st.alt)
      BY <1>1, <1>3, <3>2
    <3> QED
      BY <2>1, <3>1, <3>3
  <2>6. CASE c = "x"
    <3>1. SpecChar(st, c) = Converted(st, print_number(Unsigned(st), 16, st.width, FALSE,
                                                       st.zero, st.alt), Words(st))
      BY <1>2, <2>6 DEF SpecChar
    <3>2. ConvText(sp) = print_number(Unsigned(sp), 16, sp.width, FALSE, sp.zero, sp.alt)
      BY <2>6 DEF ConvText
    <3>3. ConvText(sp) = print_number(Unsigned(st), 16, st.width, FALSE, st.zero, st.alt)
      BY <1>1, <1>3, <3>2
    <3> QED
      BY <2>1, <3>1, <3>3
  <2>7. CASE c = "p"
    <3>1. SpecChar(st, c) = Converted(st, print_number(st.args[1], 16, st.width, FALSE,
                                                       FALSE, TRUE), 1)
      BY <1>2, <2>7 DEF SpecChar
    <3>2. ConvText(sp) = print_number(sp.args[1], 16, sp.width, FALSE, FALSE, TRUE)
      BY <2>7 DEF ConvText
    <3> QED
      BY <1>1, <2>1, <3>1, <3>2
  <2>8. CASE c \notin {"c", "s", "d", "u", "x", "p"}
    <3>1. SpecChar(st, c) = Converted(st, <<c>>, 0)
      BY <1>2, <2>8 DEF SpecChar
    <3>2. ConvText(sp) = <<sp.conv>>
      BY <2>8 DEF ConvText
    <3> QED
      BY <2>1, <3>1, <3>2
  <2> QED
    BY <2>2, <2>3, <2>4, <2>5, <2>6, <2>7, <2>8
<1>5. PICK n : NextChar(st, c) = Converted(st, ConvText(sp), n)
  BY <1>4
<1>6. TextState(Converted(st, ConvText(sp), n), o \o ConvText(sp))
  BY <1>1, ConvertedIs
<1> QED
  BY <1>5, <1>6 DEF st

\* A character that does not end a conversion leaves the state inside it.
LEMMA ContinueStep ==
    ASSUME NEW m \in Inside, NEW z, NEW a, NEW w \in Nat, NEW p \in Nat, NEW l,
           NEW g, NEW o, NEW c \in Continues,
           NEW st, st = NextChar(At(m, z, a, w, p, l, g, o), c)
    PROVE  st.mode # "text" /\ st.out = o
<1>1. CASE c \in {".", "#", "l"}
  <2>1. st \in {At("precs", z, a, w, p, l, g, o),
                At(m, z, (a \/ m = "flags"), w, p, l, g, o),
                At(m, z, a, w, p, l + 1, g, o)}
    BY <1>1, FlagStep
  <2>2. \A x, y, j \in {z, a, l, l + 1} : TRUE
    OBVIOUS
  <2>3. ASSUME NEW n \in Inside, NEW y, NEW j
        PROVE  At(n, z, y, w, p, j, g, o).mode # "text" /\ At(n, z, y, w, p, j, g, o).out = o
    BY DEF At, Inside
  <2>4. "precs" \in Inside
    BY DEF Inside
  <2> QED
    BY <2>1, <2>3, <2>4
<1>2. CASE c \in DOMAIN DigitValue
  <2> DEFINE before == At(m, z, a, w, p, l, g, o)
  <2>1. before.mode = m /\ before.out = o
    BY DEF At
  <2>2. PICK d \in 0 .. 9 : c = Digits[d + 1]
    <3>1. PICK n \in 1 .. 10 : c = Digits[n]
      BY <1>2 DEF DigitValue
    <3>2. n - 1 \in 0 .. 9 /\ n - 1 + 1 = n
      OBVIOUS
    <3> QED
      BY <3>1, <3>2
  <2> HIDE DEF before
  <2>3. st = DigitChar(before, d)
    <3>1. before.mode # "text"
      BY <2>1 DEF Inside
    <3>2. NextChar(before, Digits[d + 1]) = DigitChar(before, d)
      BY <3>1, DigitStep
    <3> QED
      BY <2>2, <3>2 DEF before
  <2>4. \/ st = [before EXCEPT !.zero = TRUE]
        \/ st = [before EXCEPT !.precs = @ * 10 + d]
        \/ st = [before EXCEPT !.mode = "width", !.width = @ * 10 + d]
    BY <2>3 DEF DigitChar
  <2>5. \A v : /\ [before EXCEPT !.zero = v].mode = m /\ [before EXCEPT !.zero = v].out = o
              /\ [before EXCEPT !.precs = v].mode = m /\ [before EXCEPT !.precs = v].out = o
              /\ [before EXCEPT !.mode = "width", !.width = v].mode = "width"
              /\ [before EXCEPT !.mode = "width", !.width = v].out = o
    BY DEF before, At
  <2> QED
    BY <2>4, <2>5 DEF Inside
<1> QED
  BY <1>1, <1>2 DEF Continues

\* Reading a call's text and its conversion up to the last character.
LEMMA ReadsCall ==
    ASSUME NEW call, IsCall(call), NEW sp, sp = call.spec
    PROVE  \E m \in Inside :
               Reads(Start(sp.args), call.before \o FrontText(sp),
                     At(m, sp.zero, sp.alt, sp.width, sp.precs, sp.len, sp.args, call.before))
<1>1. call.before \in Texts /\ \A n \in DOMAIN call.before : call.before[n] # "%"
  BY DEF IsCall
<1>2. IsSpec(sp)
  BY DEF IsCall
<1> DEFINE g == sp.args
           A(o) == At("text", FALSE, FALSE, 0, 0, 0, g, o)
           b == call.before
<1>3. Reads(A(<<>>), b, A(<<>> \o b))
  <2> HIDE DEF b
  <2>1. \A z, a, w, p, l : Reads(At("text", z, a, w, p, l, g, <<>>), b,
                                 At("text", z, a, w, p, l, g, <<>> \o b))
    BY <1>1, ReadsText, EmptyText DEF b
  <2> QED
    BY <2>1, Zenon
<1>4. <<>> \o b = b
  BY <1>1 DEF Texts
<1>5. Start(g) = A(<<>>)
  BY StartIs, Zenon
<1>6. PICK m \in Inside : Reads(A(b), FrontText(sp),
                               At(m, sp.zero, sp.alt, sp.width, sp.precs, sp.len, g, b))
  BY <1>2, ReadsFront
<1>7. FrontText(sp) \in Texts
  BY <1>2, FrontType
<1> HIDE DEF A
<1>8. Reads(Start(g), b \o FrontText(sp),
            At(m, sp.zero, sp.alt, sp.width, sp.precs, sp.len, g, b))
  <2>1. Reads(Start(g), b, A(b))
    BY <1>3, <1>4, <1>5
  <2> QED
    BY <1>1, <1>6, <1>7, <2>1, ReadsBoth
<1> QED
  BY <1>8

\* Append is a concatenation.
LEMMA Appended ==
    ASSUME NEW C, NEW s \in Seq(C), NEW c \in C
    PROVE  Append(s, c) = s \o <<c>>
  OBVIOUS

LEMMA LastOfAppend ==
    ASSUME NEW C, NEW s \in Seq(C), NEW c \in C
    PROVE  Last(s \o <<c>>) = c
  BY DEF Last
-----------------------------------------------------------------------------
(* The characters of a number *)

\* Two words are less than the square of a word's values.
LEMMA Words2 ==
    /\ Word \in Nat /\ Word > 1
    /\ Word * Word \in Nat /\ Word * Word >= 2 * Word
    /\ \A a, b \in 0 .. Word - 1 : a + Word * b \in 0 .. Word * Word - 1
<1>1. Word \in Nat /\ Word > 1
  BY PrintfAssumption
<1>2. Word * Word \in Nat /\ Word * Word >= 2 * Word
  <2>1. \A w, x \in Nat : x >= 2 => w * x >= w * 2
    OBVIOUS
  <2> QED
    BY <1>1, <2>1
<1>3. ASSUME NEW a \in 0 .. Word - 1, NEW b \in 0 .. Word - 1
      PROVE  a + Word * b \in 0 .. Word * Word - 1
  <2>1. Word * b \in Nat
    BY <1>1
  <2>2. Word * b <= Word * (Word - 1)
    <3>1. \A w, x, y \in Nat : x <= y => w * x <= w * y
      OBVIOUS
    <3> QED
      BY <1>1, <3>1
  <2>3. Word * (Word - 1) = Word * Word - Word
    BY <1>1
  <2> DEFINE W2 == Word * Word
             Wb == Word * b
             W1 == Word * (Word - 1)
  <2>4. W2 \in Nat /\ Wb \in Nat /\ Wb <= W1 /\ W1 = W2 - Word
    BY <1>2, <2>1, <2>2, <2>3
  <2> HIDE DEF W2, Wb, W1
  <2>5. a + Wb \in 0 .. W2 - 1
    BY <1>1, <2>4
  <2> QED
    BY <2>5 DEF W2, Wb
<1> QED
  BY <1>1, <1>2, <1>3

\* What print_number and print_str put are texts.
LEMMA NumberType ==
    ASSUME NEW val \in 0 .. Word * Word - 1, NEW base \in {10, 16}, NEW width \in Nat,
           NEW signed \in BOOLEAN, NEW zero \in BOOLEAN, NEW alt \in BOOLEAN
    PROVE  print_number(val, base, width, signed, zero, alt) \in Texts
<1> DEFINE V == Word * Word
           neg == signed /\ val >= V \div 2
           digits == DigitsOf(IF neg THEN V - val ELSE val, base)
           number == IF neg THEN <<"-">> \o digits ELSE digits
           prefix == IF alt THEN <<"0", "x">> ELSE <<>>
           count == width - Len(number) - Len(prefix)
<1>1. V \in Nat
  BY Words2
<1> HIDE DEF V
<1>2. val \in Nat /\ val < V
  BY <1>1 DEF V
<1>3. (IF neg THEN V - val ELSE val) \in Nat
  BY <1>1, <1>2
<1>4. digits \in Texts
  BY <1>3, DigitsOfType
<1> HIDE DEF digits
<1>5. number \in Texts
  BY <1>4, Singles, Punctuation, Concatenation
<1>6. prefix \in Texts
  <2>1. <<"0", "x">> \in Texts
    <3>1. PICK c, d \in Chars : c = "0" /\ d = "x"
      BY Punctuation
    <3>2. <<c, d>> \in Seq(Chars)
      OBVIOUS
    <3> QED
      BY <3>1, <3>2 DEF Texts
  <2> QED
    BY <2>1, EmptyText
<1> HIDE DEF number, prefix
<1>7. count \in Int
  BY <1>5, <1>6 DEF Texts
<1>8. Pad("0", count) \in Texts /\ Pad(" ", count) \in Texts
  BY <1>7, PadType, Punctuation
<1> HIDE DEF count
<1>9. /\ prefix \o Pad("0", count) \o number \in Texts
      /\ Pad(" ", count) \o prefix \o number \in Texts
  BY <1>5, <1>6, <1>8, Concatenation
<1>10. print_number(val, base, width, signed, zero, alt) =
           IF zero THEN prefix \o Pad("0", count) \o number
           ELSE Pad(" ", count) \o prefix \o number
  BY DEF print_number, count, prefix, number, digits, V
<1> QED
  BY <1>9, <1>10

LEMMA StrType ==
    ASSUME NEW s \in {Null} \cup Texts, NEW width \in Nat, NEW precs \in Nat
    PROVE  print_str(s, width, precs) \in Texts
<1>1. CASE s = Null
  BY <1>1, EmptyText DEF print_str
<1>2. CASE s # Null
  <2> DEFINE shown == IF precs = 0 \/ precs > Len(s) THEN s ELSE SubSeq(s, 1, precs)
  <2>1. shown \in Texts
    BY <1>2 DEF Texts
  <2> HIDE DEF shown
  <2>2. Pad(" ", width - Len(shown)) \in Texts
    <3>1. width - Len(shown) \in Int
      BY <2>1 DEF Texts
    <3> QED
      BY <3>1, PadType, Punctuation
  <2>3. print_str(s, width, precs) = shown \o Pad(" ", width - Len(shown))
    BY <1>2 DEF print_str, shown
  <2> QED
    BY <2>1, <2>2, <2>3, Concatenation
<1> QED
  BY <1>1, <1>2

\* The values a conversion's argument can have.
LEMMA Values ==
    ASSUME NEW sp, IsSpec(sp), sp.conv \in {"d", "u", "x"}
    PROVE  /\ Unsigned(sp) \in 0 .. Word * Word - 1
           /\ Signed(sp) \in 0 .. Word * Word - 1
           /\ sp.args[1] \in 0 .. Word - 1
           /\ sp.len = 2 => sp.args[2] \in 0 .. Word - 1
<1> DEFINE V == Word * Word
<1>1. sp.args[1] \in 0 .. Word - 1 /\ (sp.len = 2 => sp.args[2] \in 0 .. Word - 1)
  BY DEF IsSpec
<1>2. sp.len = 0 \/ sp.len = 1 \/ sp.len = 2
  BY DEF IsSpec
<1>3. Words(sp) = IF sp.len = 2 THEN 2 ELSE 1
  BY <1>2 DEF Words
<1>4. V \in Nat /\ V >= 2 * Word /\ Word \in Nat /\ Word > 1
  BY Words2
<1>5. sp.len = 2 => sp.args[1] + Word * sp.args[2] \in 0 .. V - 1
  BY <1>1, Words2
<1>6. Unsigned(sp) \in 0 .. V - 1
  <2>1. CASE sp.len = 2
    BY <1>3, <1>5, <2>1 DEF Unsigned
  <2>2. CASE sp.len # 2
    <3> HIDE DEF V
    <3> QED
      BY <1>1, <1>3, <1>4, <2>2 DEF Unsigned
  <2> QED
    BY <2>1, <2>2
<1>7. Signed(sp) \in 0 .. V - 1
  <2>1. CASE sp.len = 2
    BY <1>3, <1>6, <2>1 DEF Signed
  <2>2. CASE sp.len # 2
    <3>1. Signed(sp) = SignExtend(sp.args[1])
      BY <1>3, <2>2 DEF Signed
    <3>2. SignExtend(sp.args[1]) = IF 2 * sp.args[1] >= Word THEN sp.args[1] + V - Word
                                   ELSE sp.args[1]
      BY DEF SignExtend
    <3> HIDE DEF V
    <3> QED
      BY <1>1, <1>4, <3>1, <3>2
  <2> QED
    BY <2>1, <2>2
<1> QED
  BY <1>1, <1>6, <1>7

\* So is what a conversion puts.
LEMMA ConvTextType ==
    ASSUME NEW sp, IsSpec(sp) PROVE ConvText(sp) \in Texts
<1>1. /\ sp.width \in Nat /\ sp.precs \in Nat /\ sp.conv \in Chars
      /\ sp.alt \in BOOLEAN /\ sp.zero \in BOOLEAN
  BY DEF IsSpec
<1>2. CASE sp.conv \in {"d", "u", "x"}
  <2>1. Unsigned(sp) \in 0 .. Word * Word - 1 /\ Signed(sp) \in 0 .. Word * Word - 1
    BY <1>2, Values
  <2>2. PICK yes, no \in BOOLEAN : yes = TRUE /\ no = FALSE
    OBVIOUS
  <2>3. /\ print_number(Signed(sp), 10, sp.width, yes, sp.zero, sp.alt) \in Texts
        /\ print_number(Unsigned(sp), 10, sp.width, no, sp.zero, sp.alt) \in Texts
        /\ print_number(Unsigned(sp), 16, sp.width, no, sp.zero, sp.alt) \in Texts
    <3>1. 10 \in {10, 16} /\ 16 \in {10, 16}
      OBVIOUS
    <3> QED
      BY <1>1, <2>1, <3>1, NumberType, Zenon
  <2>4. CASE sp.conv = "d"
    <3>1. ConvText(sp) = print_number(Signed(sp), 10, sp.width, TRUE, sp.zero, sp.alt)
      BY <2>4 DEF ConvText
    <3> QED
      BY <2>2, <2>3, <3>1, Zenon
  <2>5. CASE sp.conv = "u"
    <3>1. ConvText(sp) = print_number(Unsigned(sp), 10, sp.width, FALSE, sp.zero, sp.alt)
      BY <2>5 DEF ConvText
    <3> QED
      BY <2>2, <2>3, <3>1, Zenon
  <2>6. CASE sp.conv = "x"
    <3>1. ConvText(sp) = print_number(Unsigned(sp), 16, sp.width, FALSE, sp.zero, sp.alt)
      BY <2>6 DEF ConvText
    <3> QED
      BY <2>2, <2>3, <3>1, Zenon
  <2> QED
    BY <1>2, <2>4, <2>5, <2>6
<1>3. CASE sp.conv = "p"
  <2>1. sp.args[1] \in 0 .. Word - 1
    BY <1>3 DEF IsSpec
  <2>2. sp.args[1] \in 0 .. Word * Word - 1
    <3> DEFINE V == Word * Word
    <3>1. V \in Nat /\ V >= 2 * Word /\ Word \in Nat
      BY Words2
    <3> HIDE DEF V
    <3>2. sp.args[1] \in 0 .. V - 1
      BY <2>1, <3>1
    <3> QED
      BY <3>2 DEF V
  <2>3. PICK yes, no \in BOOLEAN : yes = TRUE /\ no = FALSE
    OBVIOUS
  <2>4. print_number(sp.args[1], 16, sp.width, no, no, yes) \in Texts
    BY <1>1, <2>2, NumberType
  <2>5. ConvText(sp) = print_number(sp.args[1], 16, sp.width, FALSE, FALSE, TRUE)
    BY <1>3 DEF ConvText
  <2> QED
    BY <2>3, <2>4, <2>5, Zenon
<1>4. CASE sp.conv = "s"
  <2>1. sp.args[1] \in {Null} \cup Texts
    BY <1>4 DEF IsSpec
  <2>2. ConvText(sp) = print_str(sp.args[1], sp.width, sp.precs)
    BY <1>4 DEF ConvText
  <2> QED
    BY <1>1, <2>1, <2>2, StrType
<1>5. CASE sp.conv = "c"
  <2>1. sp.args[1] \in Chars
    BY <1>5 DEF IsSpec
  <2>2. ConvText(sp) = <<sp.args[1]>>
    BY <1>5 DEF ConvText
  <2> QED
    BY <2>1, <2>2, Singles
<1>6. CASE sp.conv \notin {"d", "u", "x", "p", "s", "c"}
  <2>1. ConvText(sp) = <<sp.conv>>
    BY <1>6 DEF ConvText
  <2> QED
    BY <1>1, <2>1, Singles
<1> QED
  BY <1>2, <1>3, <1>4, <1>5, <1>6

\* What vprintf puts for a call.
LEMMA CallPuts ==
    ASSUME NEW call, IsCall(call)
    PROVE  vprintf(FormatOf(call), call.spec.args) =
               call.before \o ConvText(call.spec) \o call.after
<1> DEFINE sp == call.spec
           b == call.before
           front == b \o FrontText(sp)
           text == ConvText(sp)
<1>1. /\ b \in Texts /\ call.after \in Texts /\ IsSpec(sp)
      /\ \A n \in DOMAIN call.after : call.after[n] # "%"
  BY DEF IsCall
<1>2. sp.conv \in Chars /\ sp.width \in Nat /\ sp.precs \in Nat
  BY <1>1 DEF IsSpec
<1>3. PICK m \in Inside :
          Reads(Start(sp.args), front,
                At(m, sp.zero, sp.alt, sp.width, sp.precs, sp.len, sp.args, b))
  BY ReadsCall
<1> DEFINE inside == At(m, sp.zero, sp.alt, sp.width, sp.precs, sp.len, sp.args, b)
           done == NextChar(inside, sp.conv)
<1>4. front \in Texts /\ <<sp.conv>> \in Texts
  BY <1>1, <1>2, FrontType, Concatenation, Singles
<1>5. FormatOf(call) = front \o <<sp.conv>> \o call.after
  <2>1. SpecText(sp) = FrontText(sp) \o <<sp.conv>>
    BY SpecTextParts
  <2>2. FrontText(sp) \in Texts
    BY <1>1, FrontType
  <2>3. b \o (FrontText(sp) \o <<sp.conv>>) = front \o <<sp.conv>>
    <3>1. \A x, y, z \in Texts : x \o (y \o z) = (x \o y) \o z
      BY DEF Texts
    <3> QED
      BY <1>1, <1>4, <2>2, <3>1
  <2> HIDE DEF front, sp, b
  <2> QED
    BY <2>1, <2>3 DEF FormatOf, sp, b
<1>6. Reads(Start(sp.args), front \o <<sp.conv>>, done)
  <2>1. Reads(inside, <<sp.conv>>, done)
    BY ReadsOne
  <2> HIDE DEF front, inside, done
  <2> QED
    BY <1>3, <1>4, <2>1, ReadsBoth DEF inside
<1>7. front \o <<sp.conv>> \in Texts
  BY <1>4, Concatenation
<1>8. CASE sp.conv \notin Continues
  <2>1. TextState(done, b \o text)
    BY <1>8, ConvStep
  <2>2. PICK rest : done = At("text", FALSE, FALSE, 0, 0, 0, rest, b \o text)
    BY <2>1, Zenon DEF TextState
  <2> DEFINE new == b \o text
             A(o) == At("text", FALSE, FALSE, 0, 0, 0, rest, o)
  <2>3. Reads(A(new), call.after, A(new \o call.after))
    <3> HIDE DEF new
    <3>0. new \in Texts
      BY <1>1, ConvTextType, Concatenation DEF new
    <3>1. \A z, a, w, p, l : Reads(At("text", z, a, w, p, l, rest, new), call.after,
                                   At("text", z, a, w, p, l, rest, new \o call.after))
      BY <1>1, <3>0, ReadsText
    <3> QED
      BY <3>1, Zenon
  <2>4. A(new \o call.after).mode = "text" /\ A(new \o call.after).out = new \o call.after
    BY DEF At
  <2>5. done = A(new)
    BY <2>2, Zenon
  <2> HIDE DEF A, front, done, new
  <2>6. Reads(Start(sp.args), front \o <<sp.conv>> \o call.after, A(new \o call.after))
    BY <1>1, <1>6, <1>7, <2>3, <2>5, ReadsBoth
  <2>7. FormatOf(call) \in Seq(Chars)
    BY <1>1, <1>5, <1>7, Concatenation DEF Texts
  <2>8. vprintf(FormatOf(call), sp.args) = new \o call.after
    BY <1>5, <2>4, <2>6, <2>7, VprintfReads
  <2> QED
    BY <2>8 DEF new
<1>9. CASE sp.conv \in Continues
  <2>1. call.after = <<>>
    BY <1>9 DEF IsCall, Continues
  <2>2. done.mode # "text" /\ done.out = b
    <3> DEFINE P(st) == st.mode # "text" /\ st.out = b
    <3>1. \A l, z, a, g : P(NextChar(At(m, z, a, sp.width, sp.precs, l, g, b), sp.conv))
      BY <1>2, <1>9, ContinueStep
    <3> HIDE DEF P
    <3>2. P(NextChar(At(m, sp.zero, sp.alt, sp.width, sp.precs, sp.len, sp.args, b), sp.conv))
      BY <3>1, Zenon
    <3> QED
      BY <3>2 DEF P
  <2>3. FormatOf(call) = front \o <<sp.conv>>
    <3>1. \A x \in Texts : x \o <<>> = x
      BY DEF Texts
    <3> QED
      BY <1>5, <1>7, <2>1, <3>1
  <2>4. Last(FormatOf(call)) = sp.conv
    <3> HIDE DEF front
    <3>1. Last(front \o <<sp.conv>>) = sp.conv
      BY <1>2, <1>4, LastOfAppend DEF Texts
    <3> QED
      BY <2>3, <3>1
  <2>5. vprintf(FormatOf(call), sp.args) = Append(b, sp.conv)
    <3> HIDE DEF done, front
    <3>1. FormatOf(call) \in Seq(Chars)
      BY <1>7, <2>3 DEF Texts
    <3>2. vprintf(FormatOf(call), sp.args) = IF done.mode = "text" THEN done.out
                                 ELSE Append(done.out, Last(FormatOf(call)))
      BY <1>6, <2>3, <3>1, VprintfReads
    <3> QED
      BY <2>2, <2>4, <3>2
  <2>6. text = <<sp.conv>>
    <3>1. sp.conv \notin {"c", "s", "d", "u", "x", "p"}
      BY <1>9, DigitValues DEF Continues
    <3> QED
      BY <3>1 DEF ConvText
  <2>7. Append(b, sp.conv) = b \o <<sp.conv>> \o <<>>
    BY <1>1, <1>2 DEF Texts
  <2> HIDE DEF text
  <2> QED
    BY <2>1, <2>5, <2>6, <2>7 DEF text
<1> QED
  BY <1>8, <1>9

\* Half of what two words can hold, where a long long's sign begins.
LEMMA HalfOfWords ==
    \E h \in Nat : Word * Word = 2 * h /\ (Word * Word) \div 2 = h
<1>1. Word \in Nat /\ Word % 2 = 0
  BY PrintfAssumption
<1>2. PICK m \in Nat : Word = 2 * m
  <2>1. Word = 2 * (Word \div 2) /\ Word \div 2 \in Nat
    BY <1>1
  <2> QED
    BY <2>1
<1>3. m * Word \in Nat
  BY <1>1
<1>4. Word * Word = 2 * (m * Word)
  <2>1. (2 * m) * Word = 2 * (m * Word)
    BY <1>1
  <2> QED
    BY <1>2, <2>1
<1> DEFINE h == m * Word
           V == Word * Word
<1>5. h \in Nat /\ V = 2 * h
  BY <1>3, <1>4
<1> HIDE DEF h, V
<1>6. V \div 2 = h
  BY <1>5
<1> QED
  BY <1>5, <1>6 DEF V

\* The 64 bits that print_number gets for %d, and the number that C says they
\* are.
LEMMA SignOf ==
    ASSUME NEW sp, IsSpec(sp), sp.conv = "d"
    PROVE  /\ ValueOf(sp) \in Int
           /\ ValueOf(sp) < 0 <=> Signed(sp) >= (Word * Word) \div 2
           /\ Magnitude(sp) = IF ValueOf(sp) < 0 THEN Word * Word - Signed(sp) ELSE Signed(sp)
<1> DEFINE V == Word * Word
<1>1. PICK h \in Nat : V = 2 * h /\ V \div 2 = h
  BY HalfOfWords
<1>2. V \in Nat /\ V >= 2 * Word /\ Word \in Nat /\ Word > 1
  BY Words2
<1>3. Signed(sp) \in 0 .. V - 1 /\ Unsigned(sp) \in 0 .. V - 1 /\ sp.args[1] \in 0 .. Word - 1
  BY Values
<1>4. sp.len = 0 \/ sp.len = 1 \/ sp.len = 2
  BY DEF IsSpec
<1>5. Words(sp) = IF sp.len = 2 THEN 2 ELSE 1
  BY <1>4 DEF Words
<1> DEFINE a == sp.args[1]
           w == Signed(sp)
           x == ValueOf(sp)
<1>6. x \in Int /\ (x < 0 <=> w >= h) /\ (IF x < 0 THEN -x ELSE x) = IF x < 0 THEN V - w ELSE w
  <2>1. CASE sp.len = 2
    <3> DEFINE u == sp.args[1] + Word * sp.args[2]
    <3>1. w = u
      BY <1>5, <2>1 DEF Signed, Unsigned
    <3>2. x = IF 2 * u >= V THEN u - V ELSE u
      BY <2>1 DEF ValueOf
    <3> HIDE DEF u, V, w, x
    <3>3. u \in 0 .. V - 1
      BY <1>3, <3>1 DEF w
    <3> QED
      BY <1>1, <1>2, <3>1, <3>2, <3>3
  <2>2. CASE sp.len # 2
    <3>1. w = IF 2 * a >= Word THEN a + V - Word ELSE a
      BY <1>5, <2>2 DEF Signed, SignExtend
    <3>2. x = IF 2 * a >= Word THEN a - Word ELSE a
      BY <2>2 DEF ValueOf
    <3> HIDE DEF V, a, w, x
    <3>3. a \in 0 .. Word - 1
      BY <1>3 DEF a
    <3> QED
      BY <1>1, <1>2, <3>1, <3>2, <3>3
  <2> QED
    BY <2>1, <2>2
<1>7. Magnitude(sp) = IF x < 0 THEN -x ELSE x
  BY DEF Magnitude
<1> HIDE DEF V, w, x
<1> QED
  BY <1>1, <1>6, <1>7 DEF V, w, x

\* C's value of an unsigned argument is the one vprintf uses.
LEMMA ValueOfUnsigned ==
    ASSUME NEW sp, IsSpec(sp), sp.conv \in {"u", "x"}
    PROVE  /\ ValueOf(sp) = Unsigned(sp) /\ ~ (ValueOf(sp) < 0)
           /\ Magnitude(sp) = Unsigned(sp)
<1>1. sp.len = 0 \/ sp.len = 1 \/ sp.len = 2
  BY DEF IsSpec
<1>2. ValueOf(sp) = Unsigned(sp)
  BY <1>1 DEF ValueOf, Unsigned, Words
<1>3. Unsigned(sp) \in 0 .. Word * Word - 1
  BY Values
<1>4. Word * Word \in Nat
  BY Words2
<1> DEFINE V == Word * Word
<1> HIDE DEF V
<1>5. Unsigned(sp) >= 0 /\ Unsigned(sp) \in Int
  BY <1>3, <1>4 DEF V
<1> QED
  BY <1>2, <1>5 DEF Magnitude

\* Where vprintf promises it, a conversion puts what C says.
LEMMA StandardText ==
    ASSUME NEW sp, IsSpec(sp), Standard(sp)
    PROVE  ConvText(sp) = CText(sp)
<1>1. CASE sp.conv = "c"
  <2>1. sp.args \in [1 .. 1 -> Chars]
    BY <1>1 DEF IsSpec
  <2>2. sp.args = <<sp.args[1]>>
    BY <2>1
  <2> QED
    BY <1>1, <2>2 DEF ConvText, CText
<1>2. CASE sp.conv = "s"
  <2> DEFINE s == sp.args[1]
             shown == IF sp.precs = 0 \/ sp.precs > Len(s) THEN s ELSE SubSeq(s, 1, sp.precs)
  <2>1. s \in {Null} \cup Texts /\ sp.precs \in Nat
    BY <1>2 DEF IsSpec
  <2>2. s # Null /\ sp.width = 0
    BY <1>2 DEF Standard
  <2>3. s \in Texts
    BY <2>1, <2>2
  <2>4. ConvText(sp) = print_str(s, 0, sp.precs)
    BY <1>2, <2>2 DEF ConvText
  <2> HIDE DEF s
  <2>5. shown \in Texts /\ Len(shown) \in Nat
    BY <2>1, <2>3 DEF Texts
  <2>6. print_str(s, 0, sp.precs) = shown \o Pad(" ", 0 - Len(shown))
    BY <2>2 DEF print_str
  <2> DEFINE n == IF sp.precs = 0 \/ sp.precs > Len(s) THEN Len(s) ELSE sp.precs
  <2>7. CText(sp) = SubSeq(s, 1, n)
    BY <1>2 DEF CText, s
  <2>8. shown = SubSeq(s, 1, n)
    <3>1. s = SubSeq(s, 1, Len(s))
      BY <2>3 DEF Texts
    <3> QED
      BY <3>1
  <2> HIDE DEF shown, n
  <2>9. Pad(" ", 0 - Len(shown)) = <<>>
    <3>1. ~ (0 - Len(shown) > 0)
      BY <2>5
    <3> QED
      BY <3>1 DEF Pad
  <2>10. shown \o <<>> = shown
    BY <2>5 DEF Texts
  <2> QED
    BY <2>4, <2>6, <2>7, <2>8, <2>9, <2>10
<1>3. CASE sp.conv \in {"d", "u", "x"}
  <2>1. /\ sp.alt => sp.conv = "x" 
        /\ sp.zero => ValueOf(sp) >= 0
    BY <1>3, Zenon DEF Standard
  <2> DEFINE V == Word * Word
             neg == ValueOf(sp) < 0
             base == IF sp.conv = "x" THEN 16 ELSE 10
             digits == DigitsOf(Magnitude(sp), base)
             front == IF neg THEN <<"-">> ELSE IF sp.alt THEN <<"0", "x">> ELSE <<>>
             fill == sp.width - Len(front) - Len(digits)
             number == IF neg THEN <<"-">> \o digits ELSE digits
             prefix == IF sp.alt THEN <<"0", "x">> ELSE <<>>
             count == sp.width - Len(number) - Len(prefix)
  <2>2. CText(sp) = IF sp.zero THEN front \o Pad("0", fill) \o digits
                    ELSE Pad(" ", fill) \o front \o digits
    <3>1. CText(sp) = CNumber(sp)
      BY <1>3 DEF CText
    <3> QED
      BY <3>1 DEF CNumber
  <2>3. Magnitude(sp) \in Nat /\ ValueOf(sp) \in Int
    <3>1. V \in Nat
      BY Words2
    <3>2. Signed(sp) \in 0 .. V - 1 /\ Unsigned(sp) \in 0 .. V - 1
      BY <1>3, Values
    <3> HIDE DEF V
    <3>3. CASE sp.conv = "d"
      BY <3>1, <3>2, <3>3, SignOf DEF V
    <3>4. CASE sp.conv \in {"u", "x"}
      BY <3>1, <3>2, <3>4, ValueOfUnsigned
    <3> QED
      BY <1>3, <3>3, <3>4
  <2>4. digits \in Texts
    BY <2>3, DigitsOfType
  <2>5. ConvText(sp) = IF sp.zero THEN prefix \o Pad("0", count) \o number
                       ELSE Pad(" ", count) \o prefix \o number
    <3>1. CASE sp.conv = "d"
      <4>1. (Signed(sp) >= V \div 2) = neg
        BY <3>1, SignOf
      <4>2. digits = DigitsOf(IF neg THEN V - Signed(sp) ELSE Signed(sp), 10)
        BY <3>1, SignOf
      <4>3. ConvText(sp) = print_number(Signed(sp), 10, sp.width, TRUE, sp.zero, sp.alt)
        BY <3>1 DEF ConvText
      <4> QED
        BY <4>1, <4>2, <4>3 DEF print_number
    <3>2. CASE sp.conv = "u"
      <4>1. ~ neg /\ digits = DigitsOf(Unsigned(sp), 10)
        BY <3>2, ValueOfUnsigned
      <4>2. ConvText(sp) = print_number(Unsigned(sp), 10, sp.width, FALSE, sp.zero, sp.alt)
        BY <3>2 DEF ConvText
      <4> QED
        BY <4>1, <4>2 DEF print_number
    <3>3. CASE sp.conv = "x"
      <4>1. ~ neg /\ digits = DigitsOf(Unsigned(sp), 16)
        BY <3>3, ValueOfUnsigned
      <4>2. ConvText(sp) = print_number(Unsigned(sp), 16, sp.width, FALSE, sp.zero, sp.alt)
        BY <3>3 DEF ConvText
      <4> QED
        BY <4>1, <4>2 DEF print_number
    <3> QED
      BY <1>3, <3>1, <3>2, <3>3
  <2>6. neg => ~ sp.alt /\ ~ sp.zero
    <3>1. neg => sp.conv = "d"
      BY <1>3, ValueOfUnsigned
    <3> QED
      BY <2>1, <2>3, <3>1
  <2>7. sp.width \in Nat
    BY DEF IsSpec
  <2> HIDE DEF digits, neg
  <2>8. CASE neg
    <3> DEFINE minus == <<"-">>
    <3>1. number = minus \o digits /\ prefix = <<>> /\ front = minus
      BY <2>6, <2>8
    <3>2. minus \in Texts /\ Len(minus) = 1
      BY Singles, Punctuation
    <3> HIDE DEF minus
    <3>3. Len(number) = 1 + Len(digits) /\ Len(prefix) = 0 /\ Len(front) = 1
      BY <2>4, <3>1, <3>2 DEF Texts
    <3>4. count = fill /\ count \in Int
      <4>1. Len(digits) \in Nat
        BY <2>4 DEF Texts
      <4> HIDE DEF number, front, prefix
      <4> QED
        BY <2>7, <3>3, <4>1
    <3> HIDE DEF count, fill, number, front, prefix
    <3>5. Pad(" ", count) \in Texts
      BY <3>4, PadType, Punctuation
    <3>6. \A p \in Texts : p \o <<>> \o (minus \o digits) = p \o minus \o digits
      BY <2>4, <3>2 DEF Texts
    <3>7. ~ sp.zero
      BY <2>6, <2>8
    <3> QED
      BY <2>2, <2>5, <3>1, <3>4, <3>5, <3>6, <3>7
  <2>9. CASE ~ neg
    <3>1. number = digits /\ prefix = front
      BY <2>9
    <3>2. front \in Texts
      <4>1. PICK c, d \in Chars : c = "0" /\ d = "x"
        BY Punctuation
      <4>2. <<c, d>> \in Texts
        BY DEF Texts
      <4> QED
        BY <2>9, <4>1, <4>2, EmptyText
    <3> HIDE DEF number, front, prefix
    <3>3. count = fill
      <4>1. Len(digits) \in Nat /\ Len(front) \in Nat
        BY <2>4, <3>2 DEF Texts
      <4> QED
        BY <2>7, <3>1, <4>1
    <3> HIDE DEF count, fill
    <3> QED
      BY <2>2, <2>5, <3>1, <3>3
  <2> QED
    BY <2>8, <2>9
<1> QED
  BY <1>1, <1>2, <1>3 DEF Standard

\* What a call means is what vprintf puts for it, and a text.
LEMMA MeantIs ==
    ASSUME NEW call, IsCall(call)
    PROVE  /\ vprintf(FormatOf(call), call.spec.args) = Meant(call)
           /\ Meant(call) \in Texts
<1> DEFINE sp == call.spec
<1>1. call.before \in Texts /\ call.after \in Texts /\ IsSpec(sp)
  BY DEF IsCall
<1>2. vprintf(FormatOf(call), call.spec.args) = call.before \o ConvText(sp) \o call.after
  BY CallPuts
<1>3. ConvText(sp) \in Texts
  BY <1>1, ConvTextType
<1>4. call.before \o ConvText(sp) \o call.after \in Texts
  BY <1>1, <1>3, Concatenation
<1>5. Standard(sp) => ConvText(sp) = CText(sp)
  BY <1>1, StandardText
<1> QED
  BY <1>2, <1>4, <1>5, Zenon DEF Meant
-----------------------------------------------------------------------------
(* Flattening and the serial line *)

\* Induction over the length of a sequence.
LEMMA AppendInduction ==
    ASSUME NEW C, NEW T, <<>> \in T,
           \A s \in Seq(C) : \A c \in C : s \in T => Append(s, c) \in T
    PROVE  \A s \in Seq(C) : s \in T
<1> DEFINE L == {n \in Nat : \A s \in Seq(C) : Len(s) = n => s \in T}
<1>1. 0 \in L
  <2>1. \A s \in Seq(C) : Len(s) = 0 => s = <<>>
    OBVIOUS
  <2> QED
    BY <2>1
<1>2. ASSUME NEW n \in Nat, n \in L
      PROVE  n + 1 \in L
  <2>1. ASSUME NEW s \in Seq(C), Len(s) = n + 1
        PROVE  s \in T
    <3> DEFINE f == SubSeq(s, 1, n)
    <3>1. f \in Seq(C) /\ Len(f) = n /\ s[n + 1] \in C /\ s = Append(f, s[n + 1])
      BY <2>1
    <3> HIDE DEF f
    <3> QED
      BY <1>2, <3>1
  <2> QED
    BY <2>1
<1> HIDE DEF L
<1>3. \A n \in Nat : n \in L
  BY <1>1, <1>2, Induction
<1> QED
  BY <1>3 DEF L

\* g[n] is the first n members of s one after the other.
Joins(g, s, n) == \A j \in 1 .. n : g[j] = IF j = 1 THEN s[j] ELSE g[j - 1] \o s[j]

\* FlattenSeq, by its definition: the joins exist, and are what it gives.
LEMMA JoinsExist ==
    ASSUME NEW s PROVE \A n \in Nat : \E g : Joins(g, s, n)
<1> DEFINE T == {n \in Nat : \E g : Joins(g, s, n)}
<1>1. 0 \in T
  BY DEF Joins
<1>2. ASSUME NEW n \in Nat, n \in T
      PROVE  n + 1 \in T
  <2>1. PICK g : Joins(g, s, n)
    BY <1>2
  <2> DEFINE h == [j \in 1 .. n + 1 |-> IF j <= n THEN g[j]
                                        ELSE IF j = 1 THEN s[j] ELSE g[j - 1] \o s[j]]
  <2>2. ASSUME NEW j \in 1 .. n + 1
        PROVE  h[j] = IF j = 1 THEN s[j] ELSE h[j - 1] \o s[j]
    <3>1. j # 1 => j - 1 \in 1 .. n + 1 /\ j - 1 <= n /\ h[j - 1] = g[j - 1]
      OBVIOUS
    <3>2. h[j] = IF j <= n THEN g[j] ELSE IF j = 1 THEN s[j] ELSE g[j - 1] \o s[j]
      OBVIOUS
    <3> HIDE DEF h
    <3>3. j <= n => g[j] = IF j = 1 THEN s[j] ELSE g[j - 1] \o s[j]
      BY <2>1 DEF Joins
    <3> QED
      BY <3>1, <3>2, <3>3
  <2> HIDE DEF h
  <2>3. Joins(h, s, n + 1)
    BY <2>2 DEF Joins
  <2> QED
    BY <2>3
<1> HIDE DEF T
<1>3. \A n \in Nat : n \in T
  BY <1>1, <1>2, Induction
<1> QED
  BY <1>3 DEF T

LEMMA FlattenIs ==
    ASSUME NEW D, NEW s \in Seq(D), s # <<>>, NEW g, Joins(g, s, Len(s))
    PROVE  FlattenSeq(s) = g[Len(s)]
<1> DEFINE L == Len(s)
           Rec(f) == [j \in 1 .. L |-> IF j = 1 THEN s[j] ELSE f[j - 1] \o s[j]]
           f0 == CHOOSE f : f = Rec(f)
<1>1. L \in Nat /\ L # 0
  OBVIOUS
<1>2. \E f : f = Rec(f)
  <2> DEFINE h == [j \in 1 .. L |-> g[j]]
  <2>1. \A j \in 1 .. L : h[j] = IF j = 1 THEN s[j] ELSE h[j - 1] \o s[j]
    <3>1. ASSUME NEW j \in 1 .. L
          PROVE  h[j] = IF j = 1 THEN s[j] ELSE h[j - 1] \o s[j]
      <4>1. j # 1 => j - 1 \in 1 .. L /\ h[j - 1] = g[j - 1]
        BY <1>1
      <4>2. h[j] = g[j]
        OBVIOUS
      <4> HIDE DEF h
      <4> QED
        BY <4>1, <4>2 DEF Joins
    <3> QED
      BY <3>1
  <2>2. h = Rec(h)
    <3> HIDE DEF L
    <3> QED
      BY <2>1
  <2> QED
    BY <2>2
<1>3. f0 = Rec(f0)
  BY <1>2
<1> HIDE DEF f0
<1>4. \A j \in 1 .. L : f0[j] = IF j = 1 THEN s[j] ELSE f0[j - 1] \o s[j]
  BY <1>3
<1>5. \A n \in Nat : n \in 1 .. L => f0[n] = g[n]
  <2> DEFINE T == {n \in Nat : n \in 1 .. L => f0[n] = g[n]}
  <2>1. 0 \in T
    OBVIOUS
  <2>2. ASSUME NEW n \in Nat, n \in T
        PROVE  n + 1 \in T
    <3>1. CASE n + 1 \in 1 .. L
      <4>1. f0[n + 1] = IF n + 1 = 1 THEN s[n + 1] ELSE f0[n] \o s[n + 1]
        BY <1>4, <3>1
      <4>2. g[n + 1] = IF n + 1 = 1 THEN s[n + 1] ELSE g[n] \o s[n + 1]
        BY <3>1 DEF Joins
      <4>3. n + 1 # 1 => f0[n] = g[n]
        BY <1>1, <2>2, <3>1
      <4> QED
        BY <4>1, <4>2, <4>3
    <3>2. CASE n + 1 \notin 1 .. L
      BY <3>2
    <3> QED
      BY <3>1, <3>2
  <2> HIDE DEF T
  <2>3. \A n \in Nat : n \in T
    BY <2>1, <2>2, Induction
  <2> QED
    BY <2>3 DEF T
<1>6. f0[L] = g[L]
  BY <1>1, <1>5
<1>7. FlattenSeq(s) = f0[L]
  BY <1>1 DEF FlattenSeq, f0
<1> QED
  BY <1>6, <1>7

\* Flattening nothing, and one member more.
LEMMA FlattenNone == FlattenSeq(<<>>) = <<>>
  BY DEF FlattenSeq

LEMMA FlattenAppend ==
    ASSUME NEW C, NEW s \in Seq(Seq(C)), NEW x \in Seq(C)
    PROVE  FlattenSeq(Append(s, x)) = IF s = <<>> THEN x ELSE FlattenSeq(s) \o x
<1> DEFINE t == Append(s, x)
           n == Len(s)
<1>1. /\ t \in Seq(Seq(C)) /\ t # <<>> /\ Len(t) = n + 1 /\ n \in Nat
      /\ t[n + 1] = x /\ (\A j \in 1 .. n : t[j] = s[j])
      /\ (s # <<>> <=> n # 0)
  <2> DEFINE D == Seq(C)
  <2>1. x \in D /\ s \in Seq(D)
    OBVIOUS
  <2> HIDE DEF D
  <2>2. t \in Seq(D) /\ t # <<>> /\ Len(t) = n + 1 /\ n \in Nat /\ t[n + 1] = x
    BY <2>1
  <2>3. \A j \in 1 .. n : t[j] = s[j]
    BY <2>1
  <2>4. s # <<>> <=> n # 0
    BY <2>1
  <2> QED
    BY <2>2, <2>3, <2>4 DEF D
<1> HIDE DEF t, n
<1>2. PICK g : Joins(g, t, n + 1)
  <2>1. n + 1 \in Nat
    BY <1>1
  <2> QED
    BY <2>1, JoinsExist
<1>3. FlattenSeq(t) = g[n + 1]
  BY <1>1, <1>2, FlattenIs
<1>4. g[n + 1] = IF n + 1 = 1 THEN x ELSE g[n] \o x
  <2>1. n + 1 \in 1 .. n + 1 /\ n + 1 - 1 = n
    BY <1>1
  <2> QED
    BY <1>1, <1>2, <2>1 DEF Joins
<1>5. CASE s = <<>>
  <2>1. n + 1 = 1
    BY <1>1, <1>5
  <2> QED
    BY <1>3, <1>4, <1>5, <2>1 DEF t
<1>6. CASE s # <<>>
  <2>1. Joins(g, s, n)
    <3>1. ASSUME NEW j \in 1 .. n
          PROVE  g[j] = IF j = 1 THEN s[j] ELSE g[j - 1] \o s[j]
      <4>1. j \in 1 .. n + 1 /\ t[j] = s[j]
        BY <1>1
      <4> QED
        BY <1>2, <4>1 DEF Joins
    <3> QED
      BY <3>1 DEF Joins
  <2>2. FlattenSeq(s) = g[n]
    BY <1>6, <2>1, FlattenIs DEF n
  <2>3. n + 1 # 1
    BY <1>1, <1>6
  <2> QED
    BY <1>3, <1>4, <1>6, <2>2, <2>3 DEF t
<1> QED
  BY <1>5, <1>6

\* Flattening gives a sequence, and another member goes behind it.
LEMMA FlattenType ==
    ASSUME NEW C
    PROVE  \A s \in Seq(Seq(C)) : FlattenSeq(s) \in Seq(C)
<1> DEFINE T == {s \in Seq(Seq(C)) : FlattenSeq(s) \in Seq(C)}
<1>1. <<>> \in T
  <2>1. FlattenSeq(<<>>) \in Seq(C)
    <3>1. <<>> \in Seq(C)
      OBVIOUS
    <3> QED
      BY <3>1, FlattenNone
  <2>2. <<>> \in Seq(Seq(C))
    OBVIOUS
  <2> QED
    BY <2>1, <2>2
<1>2. ASSUME NEW s \in Seq(Seq(C)), NEW x \in Seq(C), s \in T
      PROVE  Append(s, x) \in T
  <2>1. FlattenSeq(Append(s, x)) = IF s = <<>> THEN x ELSE FlattenSeq(s) \o x
    BY FlattenAppend
  <2>2. FlattenSeq(s) \in Seq(C) /\ Append(s, x) \in Seq(Seq(C))
    BY <1>2
  <2>3. FlattenSeq(Append(s, x)) \in Seq(C)
    BY <2>1, <2>2
  <2> QED
    BY <2>2, <2>3
<1> HIDE DEF T
<1>3. \A s \in Seq(Seq(C)) : s \in T
  BY <1>1, <1>2, AppendInduction
<1> QED
  BY <1>3 DEF T

LEMMA FlattenMore ==
    ASSUME NEW C, NEW s \in Seq(Seq(C)), NEW x \in Seq(C)
    PROVE  FlattenSeq(Append(s, x)) = FlattenSeq(s) \o x
<1>1. FlattenSeq(Append(s, x)) = IF s = <<>> THEN x ELSE FlattenSeq(s) \o x
  BY FlattenAppend
<1>2. s = <<>> => FlattenSeq(s) \o x = x
  BY FlattenNone
<1> QED
  BY <1>1, <1>2

\* What the line gets for one character.
OnLine(c) == IF c = Newline THEN <<Return, Newline>> ELSE <<c>>

\* What the line gets is a text, character by character.
LEMMA OnLineType ==
    \A c \in Chars : OnLine(c) \in Texts
<1>1. PICK nl, cr \in Chars : nl = Newline /\ cr = Return
  BY OutputAssumption DEF Newline, Return
<1>2. <<cr, nl>> \in Texts
  BY DEF Texts
<1> QED
  BY <1>1, <1>2, Singles DEF OnLine

LEMMA SerialAppend ==
    ASSUME NEW t \in Texts, NEW c \in Chars
    PROVE  Serial(Append(t, c)) = Serial(t) \o OnLine(c)
<1> DEFINE L(s) == [n \in 1 .. Len(s) |-> OnLine(s[n])]
<1>1. Len(t) \in Nat /\ \A n \in 1 .. Len(t) : t[n] \in Chars
  BY DEF Texts
<1>2. L(t) \in Seq(Texts)
  <2>1. \A n \in 1 .. Len(t) : OnLine(t[n]) \in Texts
    BY <1>1, OnLineType
  <2> QED
    BY <1>1, <2>1
<1>3. Append(L(t), OnLine(c)) = L(Append(t, c))
  <2> DEFINE u == Append(t, c)
             v == Append(L(t), OnLine(c))
             m == Len(t)
  <2>1. /\ Len(u) = m + 1 /\ u[m + 1] = c
        /\ \A n \in 1 .. m : u[n] = t[n]
    BY DEF Texts
  <2>2. Len(L(t)) = m /\ \A n \in 1 .. m : L(t)[n] = OnLine(t[n])
    BY <1>1
  <2> HIDE DEF L
  <2>3. /\ v \in Seq(Texts) /\ Len(v) = m + 1 /\ v[m + 1] = OnLine(c)
        /\ \A n \in 1 .. m : v[n] = L(t)[n]
    BY <1>2, <2>2, OnLineType
  <2> HIDE DEF u, v, m
  <2>4. v = [n \in 1 .. m + 1 |-> v[n]]
    BY <1>1, <2>3 DEF m
  <2>5. \A n \in 1 .. m + 1 : v[n] = OnLine(u[n])
    <3>1. ASSUME NEW n \in 1 .. m + 1
          PROVE  v[n] = OnLine(u[n])
      <4>1. n \in 1 .. m \/ n = m + 1
        BY <1>1 DEF m
      <4> QED
        BY <2>1, <2>2, <2>3, <4>1
    <3> QED
      BY <3>1
  <2>6. L(u) = [n \in 1 .. m + 1 |-> OnLine(u[n])]
    BY <2>1 DEF L
  <2> QED
    BY <2>4, <2>5, <2>6 DEF u, v
<1>4. \A s : Serial(s) = FlattenSeq(L(s))
  BY DEF Serial, OnLine
<1>5. OnLine(c) \in Texts
  BY OnLineType
<1> HIDE DEF L
<1>6. FlattenSeq(Append(L(t), OnLine(c))) = FlattenSeq(L(t)) \o OnLine(c)
  BY <1>2, <1>5, FlattenMore DEF Texts
<1> QED
  BY <1>3, <1>4, <1>6

\* Nothing gives nothing, a text gives a text, and parts may be sent apart.
LEMMA SerialNone == Serial(<<>>) = <<>>
<1>1. Len(<<>>) = 0
  OBVIOUS
<1>2. \A f : [n \in 1 .. 0 |-> f[n]] = <<>>
  OBVIOUS
<1>3. [n \in 1 .. Len(<<>>) |-> IF <<>>[n] = Newline THEN <<Return, Newline>>
                                ELSE <<<<>>[n]>>] = <<>>
  BY <1>1
<1> QED
  BY <1>3, FlattenNone DEF Serial

LEMMA SerialType ==
    \A t \in Texts : Serial(t) \in Texts
<1> DEFINE T == {t \in Texts : Serial(t) \in Texts}
<1>1. <<>> \in T
  BY SerialNone, EmptyText
<1>2. ASSUME NEW t \in Seq(Chars), NEW c \in Chars, t \in T
      PROVE  Append(t, c) \in T
  <2>1. Append(t, c) \in Texts
    BY DEF Texts
  <2>2. Serial(Append(t, c)) = Serial(t) \o OnLine(c)
    BY <1>2, SerialAppend
  <2>3. Serial(t) \o OnLine(c) \in Texts
    BY <1>2, OnLineType, Concatenation
  <2> QED
    BY <2>1, <2>2, <2>3
<1> HIDE DEF T
<1>3. \A t \in Seq(Chars) : t \in T
  BY <1>1, <1>2, AppendInduction
<1> QED
  BY <1>3 DEF T, Texts

LEMMA SerialBoth ==
    ASSUME NEW t \in Texts
    PROVE  \A u \in Texts : Serial(t \o u) = Serial(t) \o Serial(u)
<1> DEFINE T == {u \in Texts : Serial(t \o u) = Serial(t) \o Serial(u)}
<1>1. <<>> \in T
  <2>1. t \o <<>> = t /\ Serial(t) \o <<>> = Serial(t)
    BY SerialType DEF Texts
  <2> QED
    BY <2>1, SerialNone, EmptyText
<1>2. ASSUME NEW u \in Seq(Chars), NEW c \in Chars, u \in T
      PROVE  Append(u, c) \in T
  <2>1. Append(u, c) \in Texts /\ t \o Append(u, c) = Append(t \o u, c) /\ t \o u \in Texts
    BY DEF Texts
  <2>2. Serial(Append(u, c)) = Serial(u) \o OnLine(c)
    BY <1>2, SerialAppend DEF Texts
  <2>3. Serial(Append(t \o u, c)) = Serial(t \o u) \o OnLine(c)
    BY <2>1, SerialAppend
  <2>4. Serial(t \o u) = Serial(t) \o Serial(u)
    BY <1>2
  <2>5. Serial(t) \in Texts /\ Serial(u) \in Texts /\ OnLine(c) \in Texts
    BY SerialType, OnLineType DEF Texts
  <2>6. (Serial(t) \o Serial(u)) \o OnLine(c) = Serial(t) \o (Serial(u) \o OnLine(c))
    <3>1. \A x, y, z \in Texts : (x \o y) \o z = x \o (y \o z)
      BY DEF Texts
    <3> QED
      BY <2>5, <3>1, Zenon
  <2>7. Serial(t \o Append(u, c)) = Serial(t) \o Serial(Append(u, c))
    BY <2>1, <2>2, <2>3, <2>4, <2>6, Zenon
  <2> QED
    BY <2>1, <2>7
<1> HIDE DEF T
<1>3. \A u \in Seq(Chars) : u \in T
  BY <1>1, <1>2, AppendInduction
<1> QED
  BY <1>3 DEF T, Texts

\* What the line gets for a text, with a serial port or without one.
ToLine(port, text) == IF port THEN Serial(text) ELSE <<>>

\* With a serial port and without one.
LEMMA ToLineBoth ==
    ASSUME NEW port, NEW t \in Texts, NEW u \in Texts
    PROVE  /\ ToLine(port, t) \in Texts
           /\ ToLine(port, t \o u) = ToLine(port, t) \o ToLine(port, u)
<1>1. <<>> \o <<>> = <<>>
  OBVIOUS
<1> QED
  BY <1>1, SerialType, SerialBoth, EmptyText, Zenon DEF ToLine
-----------------------------------------------------------------------------
(* The kernel's messages *)

Plain(conv, args) ==
    [alt |-> FALSE, zero |-> FALSE, width |-> 0, precs |-> 0, len |-> 0,
     conv |-> conv, args |-> args]

LEMMA Nothing ==
    \A t \in Texts : <<>> \o t = t /\ t \o <<>> = t
  BY DEF Texts

\* Short texts, put together.
LEMMA PairType ==
    \A x, y \in Chars : <<x, y>> \in Texts
<1>1. ASSUME NEW x \in Chars, NEW y \in Chars PROVE <<x, y>> \in Seq(Chars)
  OBVIOUS
<1> QED
  BY <1>1 DEF Texts

LEMMA OneAndOne ==
    ASSUME NEW x \in Chars, NEW y \in Chars
    PROVE  <<x>> \o <<y>> = <<x, y>>
<1> DEFINE s == <<x>> \o <<y>>
           t == <<x, y>>
<1>1. s \in Seq(Chars) /\ Len(s) = 2 /\ s[1] = x /\ s[2] = y
  OBVIOUS
<1>2. t \in Seq(Chars) /\ Len(t) = 2 /\ t[1] = x /\ t[2] = y
  OBVIOUS
<1> HIDE DEF s, t
<1>3. \A n \in 1 .. Len(s) : s[n] = t[n]
  BY <1>1, <1>2
<1>4. s = t
  BY <1>1, <1>2, <1>3, SeqEqual
<1> QED
  BY <1>4 DEF s, t

LEMMA TwoAndOne ==
    ASSUME NEW x \in Chars, NEW y \in Chars, NEW z \in Chars
    PROVE  <<x, y>> \o <<z>> = <<x, y, z>>
<1> DEFINE s == <<x, y>> \o <<z>>
           t == <<x, y, z>>
<1>1. s \in Seq(Chars) /\ Len(s) = 3 /\ s[1] = x /\ s[2] = y /\ s[3] = z
  OBVIOUS
<1>2. t \in Seq(Chars) /\ Len(t) = 3 /\ t[1] = x /\ t[2] = y /\ t[3] = z
  OBVIOUS
<1> HIDE DEF s, t
<1>3. \A n \in 1 .. Len(s) : s[n] = t[n]
  BY <1>1, <1>2
<1>4. s = t
  BY <1>1, <1>2, <1>3, SeqEqual
<1> QED
  BY <1>4 DEF s, t

LEMMA ThreeAndOne ==
    ASSUME NEW w \in Chars, NEW x \in Chars, NEW y \in Chars, NEW z \in Chars
    PROVE  <<w, x, y>> \o <<z>> = <<w, x, y, z>>
<1> DEFINE s == <<w, x, y>> \o <<z>>
           t == <<w, x, y, z>>
<1>1. s \in Seq(Chars) /\ Len(s) = 4 /\ s[1] = w /\ s[2] = x /\ s[3] = y /\ s[4] = z
  OBVIOUS
<1>2. t \in Seq(Chars) /\ Len(t) = 4 /\ t[1] = w /\ t[2] = x /\ t[3] = y /\ t[4] = z
  OBVIOUS
<1> HIDE DEF s, t
<1>3. \A n \in 1 .. Len(s) : s[n] = t[n]
  BY <1>1, <1>2
<1>4. s = t
  BY <1>1, <1>2, <1>3, SeqEqual
<1> QED
  BY <1>4 DEF s, t

LEMMA OneAndTwo ==
    ASSUME NEW x \in Chars, NEW y \in Chars, NEW z \in Chars
    PROVE  <<x>> \o <<y, z>> = <<x, y, z>>
<1>1. <<x>> \o (<<y>> \o <<z>>) = (<<x>> \o <<y>>) \o <<z>>
  <2>1. <<x>> \in Seq(Chars) /\ <<y>> \in Seq(Chars) /\ <<z>> \in Seq(Chars)
    OBVIOUS
  <2> QED
    BY <2>1, ConcatAssociative
<1> QED
  BY <1>1, OneAndOne, TwoAndOne

\* A conversion without flags, width, precision and l.
LEMMA PlainText ==
    ASSUME NEW c \in Chars, NEW args
    PROVE  SpecText(Plain(c, args)) = <<"%", c>>
<1> DEFINE sp == Plain(c, args)
<1>1. sp.alt = FALSE /\ sp.zero = FALSE /\ sp.width = 0 /\ sp.precs = 0 /\ sp.len = 0
      /\ sp.conv = c
  BY DEF Plain
<1> HIDE DEF sp
<1>2. Pad("l", 0) = <<>>
  BY DEF Pad
<1>3. SpecText(sp) = <<"%">> \o <<>> \o <<>> \o <<>> \o <<>> \o <<>> \o <<c>>
  BY <1>1, <1>2 DEF SpecText
<1>4. PICK percent \in Chars : percent = "%"
  BY Punctuation
<1>5. <<percent>> \o <<>> \o <<>> \o <<>> \o <<>> \o <<>> \o <<c>> = <<percent, c>>
  <2>1. <<percent>> \o <<>> = <<percent>>
    BY <1>4, Nothing, Singles
  <2>2. <<percent>> \o <<c>> = <<percent, c>>
    BY <1>4, OneAndOne
  <2> QED
    BY <2>1, <2>2
<1> QED
  BY <1>3, <1>4, <1>5 DEF sp

\* A format with one plain conversion.
LEMMA PlainPuts ==
    ASSUME NEW c \in Chars, NEW args, IsSpec(Plain(c, args)), c \notin Continues,
           NEW b \in Texts, \A n \in DOMAIN b : b[n] # "%",
           NEW a \in Texts, \A n \in DOMAIN a : a[n] # "%"
    PROVE  /\ Kvprintf(b \o <<"%", c>> \o a, args) = b \o ConvText(Plain(c, args)) \o a
           /\ Kvprintf(b \o <<"%", c>> \o a, args) \in Texts
<1> DEFINE call == [before |-> b, after |-> a, spec |-> Plain(c, args)]
<1>1. call.before = b /\ call.after = a /\ call.spec = Plain(c, args)
  OBVIOUS
<1>2. call.spec.conv = c /\ call.spec.args = args
  BY DEF Plain
<1> HIDE DEF call
<1>3. IsCall(call)
  BY <1>1, <1>2 DEF IsCall, Continues
<1>4. vprintf(FormatOf(call), args) = b \o ConvText(Plain(c, args)) \o a
  BY <1>1, <1>2, <1>3, CallPuts
<1>5. FormatOf(call) = b \o <<"%", c>> \o a
  BY <1>1, PlainText DEF FormatOf
<1>6. b \o ConvText(Plain(c, args)) \o a \in Texts
  BY ConvTextType, Concatenation
<1> QED
  BY <1>4, <1>5, <1>6 DEF Kvprintf

\* The letters that the messages are made of.
LEMMA Letters ==
    /\ Newline \in Chars /\ Return \in Chars /\ "v" \in Chars /\ "u" \in Chars
    /\ "P" \in Chars /\ "U" \in Chars /\ "G" \in Chars /\ "r" \in Chars
    /\ "p" \in Chars /\ "d" \in Chars /\ "s" \in Chars /\ "c" \in Chars
  BY OutputAssumption

\* Plain conversions take a word, a text or a character.
LEMMA PlainSpec ==
    ASSUME NEW args
    PROVE  /\ args \in [1 .. 1 -> 0 .. Word - 1] => IsSpec(Plain("d", args))
           /\ args \in [1 .. 1 -> Texts] => IsSpec(Plain("s", args))
           /\ args \in [1 .. 1 -> Chars] => IsSpec(Plain("c", args))
<1>1. ASSUME NEW c \in Chars
      PROVE  LET sp == Plain(c, args)
             IN  /\ sp.alt \in BOOLEAN /\ sp.zero \in BOOLEAN /\ sp.width \in Nat
                 /\ sp.precs \in Nat /\ sp.len \in 0 .. 2 /\ sp.conv = c
                 /\ sp.len = 0 /\ sp.args = args
  BY DEF Plain
<1>2. args \in [1 .. 1 -> 0 .. Word - 1] => IsSpec(Plain("d", args))
  <2> DEFINE sp == Plain("d", args)
  <2>1. /\ sp.alt \in BOOLEAN /\ sp.zero \in BOOLEAN /\ sp.width \in Nat
        /\ sp.precs \in Nat /\ sp.len \in 0 .. 2 /\ sp.conv = "d"
        /\ sp.len = 0 /\ sp.args = args
    BY <1>1, Letters
  <2> HIDE DEF sp
  <2>2. args \in [1 .. 1 -> 0 .. Word - 1] => IsSpec(sp)
    BY <2>1, Letters DEF IsSpec
  <2> QED
    BY <2>2 DEF sp
<1>3. args \in [1 .. 1 -> Texts] => IsSpec(Plain("s", args))
  <2> DEFINE sp == Plain("s", args)
  <2>1. /\ sp.alt \in BOOLEAN /\ sp.zero \in BOOLEAN /\ sp.width \in Nat
        /\ sp.precs \in Nat /\ sp.len \in 0 .. 2 /\ sp.conv = "s"
        /\ sp.len = 0 /\ sp.args = args
    BY <1>1, Letters
  <2> HIDE DEF sp
  <2>2. args \in [1 .. 1 -> Texts] => IsSpec(sp)
    <3>1. args \in [1 .. 1 -> Texts] => args \in [1 .. 1 -> {Null} \cup Texts]
      OBVIOUS
    <3> QED
      BY <2>1, <3>1, Letters DEF IsSpec
  <2> QED
    BY <2>2 DEF sp
<1>4. args \in [1 .. 1 -> Chars] => IsSpec(Plain("c", args))
  <2> DEFINE sp == Plain("c", args)
  <2>1. /\ sp.alt \in BOOLEAN /\ sp.zero \in BOOLEAN /\ sp.width \in Nat
        /\ sp.precs \in Nat /\ sp.len \in 0 .. 2 /\ sp.conv = "c"
        /\ sp.len = 0 /\ sp.args = args
    BY <1>1, Letters
  <2> HIDE DEF sp
  <2>2. args \in [1 .. 1 -> Chars] => IsSpec(sp)
    BY <2>1, Letters DEF IsSpec
  <2> QED
    BY <2>2 DEF sp
<1> QED
  BY <1>2, <1>3, <1>4

\* The kernel's own messages are texts.
LEMMA GreetingType == Greeting \in Texts
<1> DEFINE args == <<<<"v">>>>
<1>1. IsSpec(Plain("s", args))
  <2>1. <<"v">> \in Texts
    BY Letters, Singles
  <2>2. args \in [1 .. 1 -> Texts]
    BY <2>1
  <2> QED
    BY <2>2, PlainSpec
<1> HIDE DEF args
<1>2. "s" \in Chars /\ "s" \notin Continues
  BY Letters, DigitValues DEF Continues
<1>3. <<Newline>> \in Texts /\ \A n \in DOMAIN <<Newline>> : <<Newline>>[n] # "%"
  BY Letters, Singles DEF Newline
<1>4. <<>> \in Texts /\ \A n \in DOMAIN <<>> : <<>>[n] # "%"
  BY EmptyText
<1>5. Kvprintf(<<>> \o <<"%", "s">> \o <<Newline>>, args) \in Texts
  BY <1>1, <1>2, <1>3, <1>4, PlainPuts
<1>6. <<>> \o <<"%", "s">> \o <<Newline>> = <<"%", "s", Newline>>
  <2>1. PICK x, y, z \in Chars : x = "%" /\ y = "s" /\ z = Newline
    BY Letters, Punctuation
  <2>2. <<>> \o <<x, y>> = <<x, y>> /\ <<x, y>> \o <<z>> = <<x, y, z>>
    BY Nothing, PairType, TwoAndOne
  <2> QED
    BY <2>1, <2>2, Zenon
<1> QED
  BY <1>5, <1>6 DEF Greeting, args

LEMMA UnknownType == Unknown \in Texts
<1> DEFINE args == <<4>>
<1>1. IsSpec(Plain("d", args))
  <2>1. 4 \in 0 .. Word - 1
    <3>1. Word \in Nat /\ Word > 4
      BY OutputAssumption, PrintfAssumption
    <3> QED
      BY <3>1
  <2>2. \A n \in 0 .. Word - 1 : <<n>> \in [1 .. 1 -> 0 .. Word - 1]
    OBVIOUS
  <2>3. args \in [1 .. 1 -> 0 .. Word - 1]
    BY <2>1, <2>2
  <2> QED
    BY <2>3, PlainSpec
<1> HIDE DEF args
<1>2. "d" \in Chars /\ "d" \notin Continues
  BY Letters, DigitValues DEF Continues
<1>3. <<Newline>> \in Texts /\ \A n \in DOMAIN <<Newline>> : <<Newline>>[n] # "%"
  BY Letters, Singles DEF Newline
<1>4. <<"u">> \in Texts /\ \A n \in DOMAIN <<"u">> : <<"u">>[n] # "%"
  BY Letters, Singles
<1>5. Kvprintf(<<"u">> \o <<"%", "d">> \o <<Newline>>, args) \in Texts
  BY <1>1, <1>2, <1>3, <1>4, PlainPuts
<1>6. <<"u">> \o <<"%", "d">> \o <<Newline>> = <<"u", "%", "d", Newline>>
  <2>1. PICK w, x, y, z \in Chars : w = "u" /\ x = "%" /\ y = "d" /\ z = Newline
    BY Letters, Punctuation
  <2>2. <<w>> \o <<x, y>> = <<w, x, y>> /\ <<w, x, y>> \o <<z>> = <<w, x, y, z>>
    BY OneAndTwo, ThreeAndOne
  <2> QED
    BY <2>1, <2>2, Zenon
<1> QED
  BY <1>5, <1>6 DEF Unknown, args

\* %c puts the character: what sys_print prints is what it reads.
LEMMA CharPuts ==
    ASSUME NEW c \in Chars
    PROVE  Kvprintf(<<"%", "c">>, <<c>>) = <<c>>
<1> DEFINE args == <<c>>
<1>1. IsSpec(Plain("c", args))
  <2>1. args \in [1 .. 1 -> Chars]
    OBVIOUS
  <2> QED
    BY <2>1, PlainSpec
<1> HIDE DEF args
<1>2. "c" \in Chars /\ "c" \notin Continues
  BY Letters, DigitValues DEF Continues
<1>3. <<>> \in Texts /\ \A n \in DOMAIN <<>> : <<>>[n] # "%"
  BY EmptyText
<1>4. Kvprintf(<<>> \o <<"%", "c">> \o <<>>, args) = <<>> \o ConvText(Plain("c", args)) \o <<>>
  BY <1>1, <1>2, <1>3, PlainPuts
<1>5. ConvText(Plain("c", args)) = <<c>>
  <2>1. Plain("c", args).conv = "c" /\ Plain("c", args).args[1] = c
    BY DEF Plain, args
  <2> QED
    BY <2>1 DEF ConvText
<1>6. <<>> \o <<"%", "c">> \o <<>> = <<"%", "c">> /\ <<>> \o <<c>> \o <<>> = <<c>>
  <2>1. <<"%", "c">> \in Texts /\ <<c>> \in Texts
    BY PairType, Singles, Letters, Punctuation
  <2> QED
    BY <2>1, Nothing
<1> QED
  BY <1>4, <1>5, <1>6 DEF args

\* handle_exc's first message has two conversions.
LEMMA ExcText ==
    ASSUME NEW name \in Texts, NEW cr2 \in 0 .. Word - 1
    PROVE  Kvprintf(<<"%", "s", " ", "%", "#", "l", "x", Newline>>, <<name, cr2>>) \in Texts
<1> DEFINE args == <<name, cr2>>
           rest == <<cr2>>
<1>1. PICK no, yes, zero, none : no = FALSE /\ yes = TRUE /\ zero = 0 /\ none = <<>>
  OBVIOUS
<1>2. Null # name \/ Null = name
  OBVIOUS
<1> DEFINE T(g, o) == At("text", no, no, zero, zero, zero, g, o)
           F(alt, len, g, o) == At("flags", no, alt, zero, zero, len, g, o)
           Txt(st, g) == \E o \in Texts : st = T(g, o)
<1>3. ASSUME NEW g, NEW o
      PROVE  /\ NextChar(T(g, o), "%") = F(no, zero, g, o)
             /\ NextChar(T(g, o), " ") = T(g, Append(o, " "))
             /\ NextChar(T(g, o), Newline) = T(g, Append(o, Newline))
  <2>1. PICK c, d, e : c = Newline /\ d = " " /\ e = "%"
    OBVIOUS
  <2>2. c # "%" /\ d # "%"
    BY <2>1 DEF Newline
  <2>3. \A x : x # "%" => NextChar(T(g, o), x) = T(g, Append(o, x))
    BY TextStep
  <2>4. \A x : x = "%" => NextChar(T(g, o), x) = F(no, zero, g, o)
    BY TextStep
  <2> HIDE DEF T, F
  <2> QED
    BY <2>1, <2>2, <2>3, <2>4, Zenon
<1>4. ASSUME NEW g, NEW o
      PROVE  /\ NextChar(F(no, zero, g, o), "#") = F(yes, zero, g, o)
             /\ NextChar(F(yes, zero, g, o), "l") = F(yes, zero + 1, g, o)
  <2>1. NextChar(F(no, zero, g, o), "#") = F((no \/ "flags" = "flags"), zero, g, o)
    BY FlagStep DEF Inside
  <2>2. (no \/ "flags" = "flags") = yes
    BY <1>1
  <2>3. NextChar(F(yes, zero, g, o), "l") = F(yes, zero + 1, g, o)
    BY FlagStep DEF Inside
  <2> QED
    BY <2>1, <2>2, <2>3, Zenon
\* The states that the format is read through.
<1> DEFINE s0 == T(args, none)
           s1 == NextChar(s0, "%")
           s2 == NextChar(s1, "s")
           s3 == NextChar(s2, " ")
           s4 == NextChar(s3, "%")
           s5 == NextChar(s4, "#")
           s6 == NextChar(s5, "l")
           s7 == NextChar(s6, "x")
           s8 == NextChar(s7, Newline)
<1> HIDE DEF s1, s2, s3, s4, s5, s6, s7, s8
<1>e. /\ s1 = NextChar(s0, "%") /\ s2 = NextChar(s1, "s") /\ s3 = NextChar(s2, " ")
      /\ s4 = NextChar(s3, "%") /\ s5 = NextChar(s4, "#") /\ s6 = NextChar(s5, "l")
      /\ s7 = NextChar(s6, "x") /\ s8 = NextChar(s7, Newline)
  BY Zenon DEF s1, s2, s3, s4, s5, s6, s7, s8
<1>5. s1 = F(no, zero, args, none)
  BY <1>3, <1>e
<1>6. \E o \in Texts : s2 = T(rest, o)
  <2> DEFINE st == F(no, zero, args, none)
  <2>1. st.mode = "flags" /\ st.args = args /\ st.width = zero /\ st.precs = zero /\ st.out = none
    BY DEF At
  <2>2. NextChar(st, "s") = Converted(st, print_str(st.args[1], st.width, st.precs), 1)
    <3> HIDE DEF st
    <3>1. "s" \notin DOMAIN DigitValue
      BY DigitValues
    <3> QED
      BY <2>1, <3>1 DEF NextChar, SpecChar
  <2> HIDE DEF st
  <2> DEFINE text == print_str(name, zero, zero)
  <2>3. text \in Texts
    BY <1>1, StrType
  <2>4. st.args[1] = name
    BY <2>1
  <2>5. NextChar(st, "s") = Converted(st, text, 1)
    BY <2>1, <2>2, <2>4
  <2> HIDE DEF text
  <2>6. NextChar(st, "s") = At("text", FALSE, FALSE, 0, 0, 0,
                               SubSeq(st.args, 1 + 1, Len(st.args)), st.out \o text)
    BY <2>5, ConvertedAt, Zenon
  <2>7. SubSeq(st.args, 1 + 1, Len(st.args)) = rest
    <3>1. Len(args) = 2 /\ args[2] = cr2
      OBVIOUS
    <3>2. SubSeq(args, 2, 2) = <<args[2]>>
      <4> DEFINE C == {name, cr2}
      <4>1. args \in Seq(C)
        OBVIOUS
      <4> HIDE DEF args
      <4>2. SubSeq(args, 2, 2) \in Seq(C) /\ Len(SubSeq(args, 2, 2)) = 1
        BY <3>1, <4>1
      <4>3. SubSeq(args, 2, 2)[1] = args[2] /\ args[2] \in C
        BY <3>1, <4>1
      <4>4. <<args[2]>> \in Seq(C) /\ Len(<<args[2]>>) = 1 /\ <<args[2]>>[1] = args[2]
        BY <4>3
      <4> HIDE DEF C
      <4>5. \A n \in 1 .. Len(SubSeq(args, 2, 2)) : SubSeq(args, 2, 2)[n] = <<args[2]>>[n]
        BY <4>2, <4>3, <4>4
      <4> QED
        BY <4>2, <4>4, <4>5, SeqEqual
    <3> HIDE DEF args, rest
    <3> QED
      BY <2>1, <3>1, <3>2 DEF rest
  <2>8. st.out \o text = text
    BY <1>1, <2>1, <2>3, Nothing
  <2>9. NextChar(st, "s") = At("text", FALSE, FALSE, 0, 0, 0, rest, text)
    BY <2>6, <2>7, <2>8, Zenon
  <2>10. NextChar(st, "s") = T(rest, text)
    BY <1>1, <2>9, Zenon
  <2>11. s2 = NextChar(st, "s")
    BY <1>5, <1>e DEF st
  <2> HIDE DEF T
  <2> QED
    BY <2>3, <2>10, <2>11
<1>7. PICK o \in Texts : s2 = T(rest, o)
  BY <1>6
<1> DEFINE p == Append(o, " ")
<1>8. p \in Texts
  <2>1. PICK c \in Chars : c = " "
    BY Punctuation
  <2>2. Append(o, c) \in Seq(Chars)
    BY DEF Texts
  <2> QED
    BY <2>1, <2>2 DEF Texts
<1>9. s3 = T(rest, p)
  <2> HIDE DEF T, F
  <2> QED
    BY <1>3, <1>7, <1>e
<1> HIDE DEF p
<1>10. s4 = F(no, zero, rest, p)
  <2> HIDE DEF T, F
  <2> QED
    BY <1>3, <1>9, <1>e
<1>11. s5 = F(yes, zero, rest, p)
  <2> HIDE DEF F
  <2> QED
    BY <1>4, <1>10, <1>e
<1>12. s6 = F(yes, zero + 1, rest, p)
  <2> HIDE DEF F
  <2> QED
    BY <1>4, <1>11, <1>e
<1>13. \E q \in Texts : \E g : s7 = T(g, q)
  <2> DEFINE st == F(yes, zero + 1, rest, p)
             text == print_number(cr2, 16, zero, no, no, yes)
  <2>1. /\ st.mode = "flags" /\ st.args = rest /\ st.width = zero /\ st.zero = no
        /\ st.alt = yes /\ st.len = zero + 1 /\ st.out = p
    BY DEF At
  <2>2. NextChar(st, "x") = Converted(st, print_number(Unsigned(st), 16, st.width, FALSE,
                                                       st.zero, st.alt), Words(st))
    <3> HIDE DEF st
    <3>1. "x" \notin DOMAIN DigitValue
      BY DigitValues
    <3> QED
      BY <2>1, <3>1 DEF NextChar, SpecChar
  <2> HIDE DEF st
  <2>3. Unsigned(st) = cr2
    <3>1. st.len <= 1
      BY <1>1, <2>1
    <3>2. rest[1] = cr2
      OBVIOUS
    <3> QED
      BY <2>1, <3>1, <3>2 DEF Unsigned, Words
  <2>4. text \in Texts
    <3> DEFINE V == Word * Word
    <3>1. V \in Nat /\ V >= 2 * Word /\ Word \in Nat
      BY Words2
    <3> HIDE DEF V
    <3>2. cr2 \in 0 .. V - 1
      BY <3>1
    <3>3. no \in BOOLEAN /\ yes \in BOOLEAN /\ zero \in Nat
      BY <1>1
    <3> QED
      BY <3>2, <3>3, NumberType DEF V
  <2>5. NextChar(st, "x") = Converted(st, text, Words(st))
    BY <1>1, <2>1, <2>2, <2>3, Zenon
  <2> HIDE DEF text
  <2> DEFINE more == SubSeq(st.args, Words(st) + 1, Len(st.args))
  <2>6. NextChar(st, "x") = At("text", FALSE, FALSE, 0, 0, 0, more, st.out \o text)
    BY <2>5, ConvertedAt, Zenon
  <2> HIDE DEF more
  <2>7. NextChar(st, "x") = T(more, p \o text)
    BY <1>1, <2>1, <2>6, Zenon
  <2>8. p \o text \in Texts
    BY <1>8, <2>4, Concatenation
  <2>9. s7 = NextChar(st, "x")
    BY <1>12, <1>e DEF st
  <2> HIDE DEF T
  <2> QED
    BY <2>7, <2>8, <2>9
<1>14. PICK q, g : q \in Texts /\ s7 = T(g, q)
  BY <1>13
<1>15. s8 = T(g, Append(q, Newline))
  <2> HIDE DEF T, F
  <2> QED
    BY <1>3, <1>14, <1>e
<1>16. Append(q, Newline) \in Texts
  BY <1>14, Letters DEF Texts
<1> DEFINE format == <<"%", "s", " ", "%", "#", "l", "x", Newline>>
           u == [n \in 0 .. 8 |->
                    CASE n = 0 -> s0 [] n = 1 -> s1 [] n = 2 -> s2 [] n = 3 -> s3
                      [] n = 4 -> s4 [] n = 5 -> s5 [] n = 6 -> s6 [] n = 7 -> s7
                      [] n = 8 -> s8]
<1> HIDE DEF s0, T, F, args
<1>17. Path(u, s0, format, s8)
  <2>1. /\ u[0] = s0 /\ u[1] = s1 /\ u[2] = s2 /\ u[3] = s3 /\ u[4] = s4 /\ u[5] = s5
        /\ u[6] = s6 /\ u[7] = s7 /\ u[8] = s8
    OBVIOUS
  <2>2. /\ Len(format) = 8
        /\ format[1] = "%" /\ format[2] = "s" /\ format[3] = " " /\ format[4] = "%"
        /\ format[5] = "#" /\ format[6] = "l" /\ format[7] = "x" /\ format[8] = Newline
    OBVIOUS
  <2> HIDE DEF u, format
  <2>4. ASSUME NEW n \in 1 .. 8
        PROVE  u[n] = NextChar(u[n - 1], format[n])
    <3>1. n = 1 \/ n = 2 \/ n = 3 \/ n = 4 \/ n = 5 \/ n = 6 \/ n = 7 \/ n = 8
      OBVIOUS
    <3>2. /\ u[1] = NextChar(u[0], format[1]) /\ u[2] = NextChar(u[1], format[2])
          /\ u[3] = NextChar(u[2], format[3]) /\ u[4] = NextChar(u[3], format[4])
          /\ u[5] = NextChar(u[4], format[5]) /\ u[6] = NextChar(u[5], format[6])
          /\ u[7] = NextChar(u[6], format[7]) /\ u[8] = NextChar(u[7], format[8])
      BY <1>e, <2>1, <2>2, Zenon
    <3> QED
      BY <3>1, <3>2
  <2> QED
    BY <2>1, <2>2, <2>4 DEF Path
<1> HIDE DEF u
<1>18. Start(args) = s0
  BY <1>1, StartIs, Zenon DEF s0, T
<1>19. format \in Seq(Chars)
  <2>1. PICK a, b, c, d, e, f, h \in Chars :
            /\ a = "%" /\ b = "s" /\ c = " " /\ d = "#" /\ e = "l" /\ f = "x" /\ h = Newline
    BY Letters, Punctuation
  <2>2. <<a, b, c, a, d, e, f, h>> \in Seq(Chars)
    OBVIOUS
  <2> QED
    BY <2>1, <2>2
<1> HIDE DEF format
<1>20. vprintf(format, args) = IF s8.mode = "text" THEN s8.out ELSE Append(s8.out, Last(format))
  <2>1. Reads(Start(args), format, s8)
    BY <1>17, <1>18 DEF Reads
  <2> QED
    BY <1>19, <2>1, VprintfReads
<1>21. s8.mode = "text" /\ s8.out = Append(q, Newline)
  <2>1. T(g, Append(q, Newline)).mode = "text" /\ T(g, Append(q, Newline)).out = Append(q, Newline)
    BY DEF T, At
  <2> QED
    BY <1>15, <2>1
<1> QED
  BY <1>16, <1>20, <1>21 DEF Kvprintf, format, args
-----------------------------------------------------------------------------
(* The invariant *)

Flushing == caller = "putc" /\ pc \in {"print", "lock", "out"}
Starting == pc \in {"boot", "start"} \/ (caller = "start" /\ pc \in {"lock", "out"})
Put == FlattenSeq([n \in 1 .. k |-> Meant(program.calls[n])])

Places == {"boot", "start", "main", "ulock", "putc", "print", "lock", "out", "panic",
           "exc", "stopped"}
Callers == {"boot", "start", "putc", "main", "exc"}

Types ==
    /\ program \in Programs /\ over \in BOOLEAN
    /\ k \in 0 .. Len(program.calls)
    /\ todo \in Texts /\ buf \in Texts
    /\ data \in Seq(Chars \cup {Unmapped}) /\ i \in 1 .. Len(data) + 1
    /\ pc \in Places /\ caller \in Callers
    /\ out \in Texts /\ thr \in Chars \cup {None} /\ term \in Texts

Control ==
    /\ pc = "boot" => caller = "boot" /\ thr = None /\ term = <<>>
    /\ pc = "start" => caller = "start"
    /\ Starting => k = 0 /\ todo = <<>> /\ buf = <<>> /\ ~ over
    /\ pc = "print" => caller \in {"putc", "main"}
    /\ pc \in {"lock", "out"} => caller \in {"start", "putc", "main", "exc"}
    /\ caller = "exc" => pc \in {"lock", "out", "exc", "panic", "stopped"}
    /\ out # <<>> => pc \in {"lock", "out", "panic"}
    /\ todo # <<>> => pc \in {"ulock", "putc"} \/ Flushing
    /\ over => /\ k = Len(program.calls) /\ program.ends \in {"prints", "unknown"}
               /\ pc \in {"print", "lock", "out", "main", "exc", "panic", "stopped"}
               /\ Crashed \/ caller = "main"

\* What sys_print is given, and what of it is printed.
String ==
    /\ SubSeq(data, 1, i - 1) \in Texts
    /\ Flushing => data = buf /\ ~ over
    /\ ~ Flushing /\ ~ (over /\ program.ends = "prints") => data = <<>> /\ i = 1

Messages ==
    /\ Crashed => \E j \in 0 .. 3 : report = SubSeq(AllMessages, j + 1, 3)
    /\ pc \in {"panic", "stopped"} => report = <<>>

Buffer ==
    ~ Flushing => Len(buf) < BufSize /\ \A n \in DOMAIN buf : buf[n] # Newline

Course == Types /\ Control /\ String /\ Messages /\ Buffer
-----------------------------------------------------------------------------
\* What is assumed of a program.
LEMMA ProgramFacts ==
    ASSUME program \in Programs
    PROVE  /\ program.ends \in Ends
           /\ program.raw \in Seq(Chars \cup {Unmapped})
           /\ Len(program.calls) \in Nat
           /\ \A n \in 1 .. Len(program.calls) : IsCall(program.calls[n])
<1> DEFINE p == program
           S == {call \in ToSet(p.calls) : IsCall(call)}
<1>1. p.ends \in Ends /\ p.raw \in Seq(Chars \cup {Unmapped}) /\ p.calls \in Seq(S)
  BY OutputAssumption
<1>2. \A c \in S : IsCall(c)
  OBVIOUS
<1> HIDE DEF S
<1> QED
  BY <1>1, <1>2

\* There are three messages, and all that goes to the line is text.
LEMMA ExcMessagesType ==
    ASSUME NEW name \in Texts, NEW cr2 \in 0 .. Word - 1
    PROVE  ExcMessages(name, cr2) \in Seq(Texts) /\ Len(ExcMessages(name, cr2)) = 3
<1> DEFINE t == Kvprintf(<<"%", "s", " ", "%", "#", "l", "x", Newline>>, <<name, cr2>>)
           r == <<"r", Newline>>
<1>1. t \in Texts
  BY ExcText
<1>2. r \in Texts
  BY PairType, Letters
<1>3. ExcMessages(name, cr2) = <<t, r, r>>
  BY DEF ExcMessages
<1> HIDE DEF t, r
<1>4. <<t, r, r>> \in Seq(Texts) /\ Len(<<t, r, r>>) = 3
  BY <1>1, <1>2
<1> QED
  BY <1>3, <1>4

LEMMA MessagesType == AllMessages \in Seq(Texts) /\ Len(AllMessages) = 3
<1>1. <<"U">> \in Texts /\ <<"G">> \in Texts /\ <<"P">> \in Texts
  BY Letters, Singles
<1>2. 0 \in 0 .. Word - 1 /\ PageFaultAddr \in 0 .. Word - 1
  <2>1. Word \in Nat /\ Word > 4
    BY OutputAssumption, PrintfAssumption
  <2> QED
    BY <2>1 DEF PageFaultAddr
<1>3. AllMessages \in {ExcMessages(<<"U">>, 0), ExcMessages(<<"G">>, 0),
                       ExcMessages(<<"P">>, PageFaultAddr)}
  BY DEF AllMessages
<1> QED
  BY <1>1, <1>2, <1>3, ExcMessagesType

LEMMA WrittenType == \A t \in Texts : Written(t) \in Texts
  BY SerialType, EmptyText DEF Written

LEMMA PanicTextType == PanicText \in Texts
  BY PairType, Letters DEF PanicText

\* The character that sys_print reads is printed as it is.
LEMMA ReadCharacter ==
    ASSUME Types, i <= Len(data), data[i] # Unmapped
    PROVE  data[i] \in Chars /\ Kvprintf(<<"%", "c">>, <<data[i]>>) = <<data[i]>>
<1>1. data[i] \in Chars
  BY DEF Types
<1> QED
  BY <1>1, CharPuts

\* The messages left over.
LEMMA MessagesLeft ==
    ASSUME Messages, Crashed
    PROVE  /\ Len(report) \in 0 .. 3
           /\ report # <<>> => /\ Head(report) = AllMessages[4 - Len(report)]
                               /\ 4 - Len(report) \in 1 .. 3
                               /\ Head(report) \in Texts
                               /\ Len(Tail(report)) = Len(report) - 1
                               /\ \E j \in 0 .. 3 : Tail(report) = SubSeq(AllMessages, j + 1, 3)
           /\ report = <<>> <=> Len(report) = 0
<1> DEFINE A == AllMessages
<1>1. A \in Seq(Texts) /\ Len(A) = 3
  BY MessagesType
<1>2. PICK j \in 0 .. 3 : report = SubSeq(A, j + 1, 3)
  BY DEF Messages
<1> HIDE DEF A
<1>3. report \in Seq(Texts) /\ Len(report) = 3 - j
  <2>1. j + 1 \in 1 .. Len(A) + 1 /\ 3 \in j .. Len(A)
    BY <1>1
  <2>2. SubSeq(A, j + 1, 3) \in Seq(Texts) /\ Len(SubSeq(A, j + 1, 3)) = 3 - j
    BY <1>1, <2>1, SubSeqProperties
  <2> QED
    BY <1>2, <2>2
<1>4. ASSUME report # <<>>
      PROVE  /\ Head(report) = A[j + 1] /\ j + 1 \in 1 .. 3 /\ 4 - Len(report) = j + 1
             /\ Tail(report) = SubSeq(A, j + 2, 3) /\ j + 1 \in 0 .. 3
             /\ A[j + 1] \in Texts
  <2>1. j \in 0 .. 2
    BY <1>3, <1>4
  <2>2. Head(report) = A[j + 1] /\ A[j + 1] \in Texts
    BY <1>1, <1>2, <2>1
  <2>3. Tail(report) = SubSeq(A, j + 2, 3)
    <3>1. Tail(SubSeq(A, j + 1, 3)) = SubSeq(A, j + 1 + 1, 3)
      BY <1>1, <2>1, HeadTailOfSubSeq
    <3> QED
      BY <1>2, <3>1
  <2> QED
    BY <1>3, <2>1, <2>2, <2>3
<1>5. \E m \in 0 .. 3 : report # <<>> => Tail(report) = SubSeq(A, m + 1, 3)
  <2>1. report # <<>> => Tail(report) = SubSeq(A, (j + 1) + 1, 3) /\ j + 1 \in 0 .. 3
    BY <1>4
  <2> QED
    BY <2>1
<1>6. report # <<>> => Len(Tail(report)) = Len(report) - 1
  BY <1>3
<1> QED
  BY <1>3, <1>4, <1>5, <1>6 DEF A
-----------------------------------------------------------------------------
\* At the start.
LEMMA CourseInit == Init => Course
<1> SUFFICES ASSUME Init PROVE Course
  OBVIOUS
<1>1. Types
  <2>1. program \in Programs
    BY DEF Init
  <2>2. Len(program.calls) \in Nat
    BY <2>1, ProgramFacts
  <2>3. <<>> \in Texts /\ <<>> \in Seq(Chars \cup {Unmapped}) /\ Len(<<>>) = 0
    BY EmptyText
  <2>4. 0 \in 0 .. Len(program.calls) /\ 1 \in 1 .. 0 + 1
    BY <2>2
  <2> QED
    BY <2>1, <2>3, <2>4 DEF Init, Types, Places, Callers
<1>2. Control
  BY DEF Init, Control, Flushing, Starting, Crashed
<1>3. String
  <2>1. data = <<>> /\ i = 1
    BY DEF Init
  <2>2. SubSeq(data, 1, i - 1) = <<>>
    BY <2>1
  <2> QED
    BY <2>1, <2>2, EmptyText DEF String, Init, Flushing
<1>4. Messages
  BY DEF Init, Messages, Crashed
<1>5. Buffer
  BY OutputAssumption DEF Init, Buffer
<1> QED
  BY <1>1, <1>2, <1>3, <1>4, <1>5 DEF Course

\* Every step keeps the types.
LEMMA TypesNext ==
    ASSUME Course, [Next]_vars
    PROVE  Types'
<1>t. Types
  BY DEF Course
<1>p. /\ program.raw \in Seq(Chars \cup {Unmapped}) /\ Len(program.calls) \in Nat
      /\ \A n \in 1 .. Len(program.calls) : IsCall(program.calls[n])
  BY <1>t, ProgramFacts DEF Types
<1>1. CASE Boot
  <2>1. out' \in Texts
    BY <1>1, GreetingType, WrittenType DEF Boot, BeginPrintf
  <2> QED
    BY <1>1, <1>t, <2>1 DEF Types, Places, Callers, Boot, BeginPrintf, fixed, user, string, Kernel
<1>2. CASE StartProgram
  <2>1. buf' \in Texts
    BY <1>2, EmptyText DEF StartProgram
  <2> QED
    BY <1>2, <1>t, <2>1 DEF Types, Places, Callers, StartProgram, fixed, user, string, Kernel
<1>3. CASE CallPrintf
  <2>1. k < Len(program.calls) /\ k' = k + 1 /\ program' = program
    BY <1>3 DEF CallPrintf, fixed
  <2>2. k \in Nat /\ Len(program.calls) \in Nat
    BY <1>p, <1>t DEF Types
  <2>3. k' \in 0 .. Len(program'.calls) /\ k + 1 \in 1 .. Len(program.calls)
    BY <2>1, <2>2
  <2>4. todo' \in Texts
    <3>1. IsCall(program.calls[k + 1])
      BY <1>p, <2>3
    <3> QED
      BY <1>3, <3>1, MeantIs DEF CallPrintf
  <2>5. pc' \in Places
    BY <1>3, Zenon DEF CallPrintf, Places
  <2> QED
    BY <1>3, <1>t, <2>3, <2>4, <2>5 DEF Types, CallPrintf, fixed, user, string, Kernel
<1>4. CASE UserLock
  BY <1>4, <1>t DEF Types, Places, Callers, UserLock, fixed, user, string, Kernel
<1>5. CASE putc
  <2>1. todo # <<>> /\ buf' = Append(buf, Head(todo)) /\ todo' = Tail(todo)
    BY <1>5 DEF putc
  <2>2. buf' \in Texts /\ todo' \in Texts
    BY <1>t, <2>1 DEF Types, Texts
  <2>3. CASE Flushes(buf')
    <3>1. data' = buf' /\ i' = 1 /\ pc' = "print" /\ caller' = "putc"
          /\ UNCHANGED <<program, over, k, out, thr, term>>
      BY <1>5, <2>3 DEF putc, Sysenter, fixed
    <3>2. data' \in Seq(Chars \cup {Unmapped}) /\ i' \in 1 .. Len(data') + 1
      BY <2>2, <3>1 DEF Texts
    <3> QED
      BY <1>t, <2>2, <3>1, <3>2 DEF Types, Places, Callers
  <2>4. CASE ~ Flushes(buf')
    <3>1. UNCHANGED <<program, over, k, data, i, pc, caller, out, thr, term>>
      BY <1>5, <2>4 DEF putc, fixed, Kernel, string
    <3> QED
      BY <1>t, <2>2, <3>1 DEF Types
  <2> QED
    BY <2>3, <2>4
<1>6. CASE PrintfReturns
  BY <1>6, <1>t DEF Types, Places, Callers, PrintfReturns, fixed, user, string, Kernel
<1>7. CASE RawPrint
  <2>1. data' \in Seq(Chars \cup {Unmapped}) /\ i' \in 1 .. Len(data') + 1
    <3>1. data' = program.raw /\ i' = 1
      BY <1>7 DEF RawPrint, Sysenter
    <3> QED
      BY <1>p, <3>1
  <2> QED
    BY <1>7, <1>t, <2>1 DEF Types, Places, Callers, RawPrint, Sysenter, fixed, user, string, Kernel
<1>8. CASE UnknownCall
  <2>1. out' \in Texts
    BY <1>8, UnknownType, WrittenType DEF UnknownCall, BeginPrintf
  <2>2. data' \in Seq(Chars \cup {Unmapped}) /\ i' \in 1 .. Len(data') + 1
    BY <1>8 DEF UnknownCall
  <2> QED
    BY <1>8, <1>t, <2>1, <2>2 DEF Types, Places, Callers, UnknownCall, BeginPrintf, fixed, user, string, Kernel
<1>9. CASE UserFault
  BY <1>9, <1>t DEF Types, Places, Callers, UserFault, PageFault, Exception, AtEnd, fixed, user, string, Kernel
<1>10. CASE MainReturns
  BY <1>10, <1>t DEF Types, Places, Callers, MainReturns, UndefinedOpcode, Exception, AtEnd, fixed, user, string, Kernel
<1>11. CASE UserShutdown
  BY <1>11, <1>t DEF Types, Places, Callers, UserShutdown, GeneralProtection, Exception, InPanic, fixed, user, string, Kernel
<1>12. CASE PrintChar
  <2>1. i \in Nat /\ i <= Len(data) /\ Len(data) \in Nat
    BY <1>12, <1>t DEF Types, PrintChar
  <2>2. CASE data[i] = Unmapped
    BY <1>12, <1>t, <2>2 DEF Types, Places, PrintChar, PageFault, Exception, fixed, user, string, Kernel
  <2>3. CASE data[i] # Unmapped
    <3>1. <<data[i]>> \in Texts /\ Kvprintf(<<"%", "c">>, <<data[i]>>) = <<data[i]>>
      BY <1>t, <2>1, <2>3, ReadCharacter, Singles
    <3>2. out' = Written(<<data[i]>>) /\ i' = i + 1 /\ data' = data
      BY <1>12, <2>3, <3>1 DEF PrintChar, BeginPrintf
    <3>3. out' \in Texts
      BY <3>1, <3>2, WrittenType
    <3>4. i' \in 1 .. Len(data') + 1
      BY <2>1, <3>2
    <3> QED
      BY <1>12, <1>t, <2>3, <3>2, <3>3, <3>4 DEF Types, Places, PrintChar, BeginPrintf, fixed, user, string, Kernel
  <2> QED
    BY <2>2, <2>3
<1>13. CASE PrintReturns
  <2>1. pc' \in Places
    BY <1>13, <1>t DEF PrintReturns, Types, Places, Callers
  <2>2. CASE caller = "putc"
    <3>1. buf' = <<>> /\ data' = <<>> /\ i' = 1
      BY <1>13, <2>2 DEF PrintReturns
    <3>2. buf' \in Texts /\ data' \in Seq(Chars \cup {Unmapped}) /\ i' \in 1 .. Len(data') + 1
      BY <3>1, EmptyText
    <3> QED
      BY <1>13, <1>t, <2>1, <3>2 DEF Types, PrintReturns, fixed, user, string, Kernel
  <2>3. CASE caller # "putc"
    <3>1. buf' = buf /\ data' = data /\ i' = i
      BY <1>13, <2>3 DEF PrintReturns
    <3> QED
      BY <1>13, <1>t, <2>1, <3>1 DEF Types, PrintReturns, fixed, user, string, Kernel
  <2> QED
    BY <2>2, <2>3
<1>14. CASE HandleExc
  <2>1. CASE report # <<>>
    <3>1. Head(report) \in Texts
      BY <1>14, <1>t, <2>1, MessagesLeft DEF HandleExc, Crashed, Course
    <3>2. out' \in Texts
      BY <1>14, <2>1, <3>1, WrittenType DEF HandleExc, BeginPrintf
    <3> QED
      BY <1>14, <1>t, <2>1, <3>2 DEF Types, Places, Callers, HandleExc, BeginPrintf, fixed, user, string, Kernel
  <2>2. CASE report = <<>>
    <3>1. out' \in Texts
      BY <1>14, <2>2, PanicTextType, WrittenType DEF HandleExc
    <3> QED
      BY <1>14, <1>t, <2>2, <3>1 DEF Types, Places, Callers, HandleExc, fixed, user, string, Kernel
  <2> QED
    BY <2>1, <2>2
<1>15. CASE Lock
  BY <1>15, <1>t DEF Types, Places, Callers, Lock, fixed, user, string, Kernel
<1>16. CASE Unlock
  <2>1. pc' \in Places
    BY <1>16 DEF Unlock, Places
  <2> QED
    BY <1>16, <1>t, <2>1 DEF Types, Unlock, fixed, user, string, Kernel
<1>17. CASE WriteReg
  <2>1. thr' = Head(out) /\ out' = Tail(out) /\ out # <<>>
    BY <1>17 DEF WriteReg
  <2>2. thr' \in Chars /\ out' \in Texts
    BY <1>t, <2>1 DEF Types, Texts
  <2> QED
    BY <1>17, <1>t, <2>2 DEF Types, WriteReg, fixed, user, string, Kernel
<1>18. CASE Shutdown
  BY <1>18, <1>t DEF Types, Places, Callers, Shutdown, fixed, user, string, Kernel
<1>19. CASE Transmit
  <2>1. thr \in Chars
    BY <1>19, <1>t DEF Types, Transmit
  <2>2. term' \in Texts
    BY <1>19, <1>t, <2>1 DEF Types, Transmit, Texts
  <2> QED
    BY <1>19, <1>t, <2>2 DEF Types, Transmit, fixed, user, string, Kernel
<1>20. CASE UNCHANGED vars
  BY <1>20, <1>t DEF Types, Places, Callers, vars, fixed, user, string
<1> QED
  BY <1>1, <1>2, <1>3, <1>4, <1>5, <1>6, <1>7, <1>8, <1>9, <1>10, <1>11, <1>12, <1>13, <1>14, <1>15, <1>16, <1>17, <1>18, <1>19, <1>20 DEF Next, Processor

\* Only a string of the program's own has an address that is not mapped.
LEMMA FaultIsRaw ==
    ASSUME Course, pc = "print", i <= Len(data), data[i] = Unmapped
    PROVE  caller = "main" /\ over /\ program.ends = "prints" /\ todo = <<>>
<1>1. Types /\ Control /\ String
  BY DEF Course
<1>2. i \in 1 .. Len(data) /\ Len(data) \in Nat
  BY <1>1 DEF Types
<1>3. ~ Flushing
  <2>1. SUFFICES ASSUME Flushing PROVE FALSE
    OBVIOUS
  <2>2. data = buf
    BY <1>1, <2>1 DEF String
  <2>3. data[i] \in Chars
    BY <1>1, <1>2, <2>2 DEF Types, Texts
  <2> QED
    BY <2>3, OutputAssumption
<1>4. over /\ program.ends = "prints"
  <2>1. SUFFICES ASSUME ~ (over /\ program.ends = "prints") PROVE FALSE
    OBVIOUS
  <2>2. data = <<>>
    BY <1>1, <1>3, <2>1 DEF String
  <2>3. Len(data) = 0
    BY <2>2
  <2> QED
    BY <1>2, <2>3
<1> QED
  BY <1>1, <1>3, <1>4 DEF Control, Flushing

\* Every step leads to a place that its caller, the buffer and the line allow.
LEMMA ControlNext ==
    ASSUME Course, [Next]_vars
    PROVE  Control'
<1>t. Types /\ Control
  BY DEF Course
<1>p. Len(program.calls) \in Nat
  BY <1>t, ProgramFacts DEF Types
<1>1. CASE Boot
  BY <1>1, <1>t, <1>p DEF Types, Places, Callers, Control, Flushing, Starting, Crashed, Boot, BeginPrintf, fixed, user, string, Kernel
<1>2. CASE StartProgram
  BY <1>2, <1>t, <1>p DEF Types, Places, Callers, Control, Flushing, Starting, Crashed, StartProgram, fixed, user, string, Kernel
<1>3. CASE CallPrintf
  BY <1>3, <1>t, <1>p DEF Types, Places, Callers, Control, Flushing, Starting, Crashed, CallPrintf, fixed, user, string, Kernel
<1>4. CASE UserLock
  BY <1>4, <1>t, <1>p DEF Types, Places, Callers, Control, Flushing, Starting, Crashed, UserLock, fixed, user, string, Kernel
<1>5. CASE putc
  BY <1>5, <1>t, <1>p, EmptyText DEF Types, Places, Callers, Control, Flushing, Starting, Crashed, putc, Sysenter, fixed, user, string, Kernel
<1>6. CASE PrintfReturns
  BY <1>6, <1>t, <1>p DEF Types, Places, Callers, Control, Flushing, Starting, Crashed, PrintfReturns, fixed, user, string, Kernel
<1>7. CASE RawPrint
  BY <1>7, <1>t, <1>p DEF Types, Places, Callers, Control, Flushing, Starting, Crashed, RawPrint, Sysenter, AtEnd, fixed, user, string, Kernel
<1>8. CASE UnknownCall
  BY <1>8, <1>t, <1>p DEF Types, Places, Callers, Control, Flushing, Starting, Crashed, UnknownCall, BeginPrintf, AtEnd, fixed, user, string, Kernel
<1>9. CASE UserFault
  BY <1>9, <1>t, <1>p DEF Types, Places, Callers, Control, Flushing, Starting, Crashed, UserFault, PageFault, Exception, AtEnd, fixed, user, string, Kernel
<1>10. CASE MainReturns
  BY <1>10, <1>t, <1>p DEF Types, Places, Callers, Control, Flushing, Starting, Crashed, MainReturns, UndefinedOpcode, Exception, AtEnd, fixed, user, string, Kernel
<1>11. CASE UserShutdown
  BY <1>11, <1>t, <1>p DEF Types, Places, Callers, Control, Flushing, Starting, Crashed, UserShutdown, GeneralProtection, Exception, InPanic, fixed, user, string, Kernel
<1>12. CASE PrintChar
  <2>1. CASE data[i] = Unmapped
    <3>1. caller = "main" /\ over /\ program.ends = "prints" /\ todo = <<>>
      BY <1>12, <2>1, FaultIsRaw DEF PrintChar
    <3> QED
      BY <1>12, <1>t, <1>p, <2>1, <3>1 DEF Types, Places, Callers, Control, Flushing, Starting, Crashed, PrintChar, PageFault, Exception, fixed, user, string, Kernel
  <2>2. CASE data[i] # Unmapped
    BY <1>12, <1>t, <1>p, <2>2 DEF Types, Places, Callers, Control, Flushing, Starting, Crashed, PrintChar, BeginPrintf, fixed, user, string, Kernel
  <2> QED
    BY <2>1, <2>2
<1>13. CASE PrintReturns
  BY <1>13, <1>t, <1>p DEF Types, Places, Callers, Control, Flushing, Starting, Crashed, PrintReturns, fixed, user, string, Kernel
<1>14. CASE HandleExc
  BY <1>14, <1>t, <1>p DEF Types, Places, Callers, Control, Flushing, Starting, Crashed, HandleExc, BeginPrintf, fixed, user, string, Kernel
<1>15. CASE Lock
  BY <1>15, <1>t, <1>p DEF Types, Places, Callers, Control, Flushing, Starting, Crashed, Lock, fixed, user, string, Kernel
<1>16. CASE Unlock
  BY <1>16, <1>t, <1>p DEF Types, Places, Callers, Control, Flushing, Starting, Crashed, Unlock, fixed, user, string, Kernel
<1>17. CASE WriteReg
  BY <1>17, <1>t, <1>p DEF Types, Places, Callers, Control, Flushing, Starting, Crashed, WriteReg, fixed, user, string, Kernel
<1>18. CASE Shutdown
  BY <1>18, <1>t, <1>p DEF Types, Places, Callers, Control, Flushing, Starting, Crashed, Shutdown, fixed, user, string, Kernel
<1>19. CASE Transmit
  BY <1>19, <1>t, <1>p DEF Types, Places, Callers, Control, Flushing, Starting, Crashed, Transmit, fixed, user, string, Kernel
<1>20. CASE UNCHANGED vars
  BY <1>20, <1>t, <1>p DEF Types, Places, Callers, Control, Flushing, Starting, Crashed, vars, fixed, user, string
<1> QED
  BY <1>1, <1>2, <1>3, <1>4, <1>5, <1>6, <1>7, <1>8, <1>9, <1>10, <1>11, <1>12, <1>13, <1>14, <1>15, <1>16, <1>17, <1>18, <1>19, <1>20 DEF Next, Processor

\* Every step leaves less than a buffer of an unfinished line, or is writing it.
LEMMA BufferNext ==
    ASSUME Course, [Next]_vars
    PROVE  Buffer'
<1>t. Types /\ Control /\ Buffer
  BY DEF Course
<1>1. CASE Boot
  BY <1>1, <1>t DEF Control, Buffer, Flushing, Starting, Boot, BeginPrintf, fixed, user, string, Kernel
<1>2. CASE StartProgram
  BY <1>2, <1>t DEF Control, Buffer, Flushing, Starting, StartProgram, fixed, user, string, Kernel
<1>3. CASE CallPrintf
  BY <1>3, <1>t DEF Control, Buffer, Flushing, Starting, CallPrintf, fixed, user, string, Kernel
<1>4. CASE UserLock
  BY <1>4, <1>t DEF Control, Buffer, Flushing, Starting, UserLock, fixed, user, string, Kernel
<1>5. CASE putc
  <2>1. /\ pc = "putc" /\ todo # <<>> /\ buf' = Append(buf, Head(todo))
        /\ Len(buf) < BufSize /\ \A n \in DOMAIN buf : buf[n] # Newline
    BY <1>5, <1>t DEF putc, Buffer, Flushing
  <2>2. CASE Flushes(buf')
    BY <1>5, <2>2 DEF Buffer, Flushing, putc, Sysenter
  <2>3. CASE ~ Flushes(buf')
    <3>1. Head(todo) \in Chars /\ buf \in Seq(Chars)
      BY <1>t, <2>1 DEF Types, Texts
    <3>2. /\ Len(buf') = Len(buf) + 1 /\ buf'[Len(buf) + 1] = Head(todo)
          /\ DOMAIN buf' = 1 .. Len(buf) + 1
          /\ \A n \in 1 .. Len(buf) : buf'[n] = buf[n]
      BY <2>1, <3>1
    <3>3. Last(buf') = Head(todo)
      BY <3>2 DEF Last
    <3>4. Head(todo) # Newline /\ Len(buf') # BufSize
      BY <2>3, <3>3 DEF Flushes
    <3>5. Len(buf') < BufSize
      <4>1. Len(buf) \in Nat /\ BufSize \in Nat
        BY <3>1, OutputAssumption
      <4> QED
        BY <2>1, <3>2, <3>4, <4>1
    <3>6. ASSUME NEW n \in DOMAIN buf'
          PROVE  buf'[n] # Newline
      <4>1. n \in 1 .. Len(buf) \/ n = Len(buf) + 1
        BY <3>1, <3>2
      <4>2. DOMAIN buf = 1 .. Len(buf)
        BY <3>1
      <4> QED
        BY <2>1, <3>2, <3>4, <4>1, <4>2
    <3> QED
      BY <3>5, <3>6 DEF Buffer
  <2> QED
    BY <2>2, <2>3
<1>6. CASE PrintfReturns
  BY <1>6, <1>t DEF Control, Buffer, Flushing, Starting, PrintfReturns, fixed, user, string, Kernel
<1>7. CASE RawPrint
  BY <1>7, <1>t DEF Control, Buffer, Flushing, Starting, RawPrint, Sysenter, AtEnd, fixed, user, string, Kernel
<1>8. CASE UnknownCall
  BY <1>8, <1>t DEF Control, Buffer, Flushing, Starting, UnknownCall, BeginPrintf, AtEnd, fixed, user, string, Kernel
<1>9. CASE UserFault
  BY <1>9, <1>t DEF Control, Buffer, Flushing, Starting, UserFault, PageFault, Exception, AtEnd, fixed, user, string, Kernel
<1>10. CASE MainReturns
  BY <1>10, <1>t DEF Control, Buffer, Flushing, Starting, MainReturns, UndefinedOpcode, Exception, AtEnd, fixed, user, string, Kernel
<1>11. CASE UserShutdown
  BY <1>11, <1>t DEF Control, Buffer, Flushing, Starting, UserShutdown, GeneralProtection, Exception, InPanic, fixed, user, string, Kernel
<1>12. CASE PrintChar
  <2>1. CASE data[i] = Unmapped
    <3>1. caller = "main" /\ over /\ program.ends = "prints" /\ todo = <<>>
      BY <1>12, <2>1, FaultIsRaw DEF PrintChar
    <3> QED
      BY <1>12, <1>t, <2>1, <3>1 DEF Control, Buffer, Flushing, Starting, PrintChar, PageFault, Exception, fixed, user, string, Kernel
  <2>2. CASE data[i] # Unmapped
    BY <1>12, <1>t, <2>2 DEF Control, Buffer, Flushing, Starting, PrintChar, BeginPrintf, fixed, user, string, Kernel
  <2> QED
    BY <2>1, <2>2
<1>13. CASE PrintReturns
  <2>1. CASE caller = "putc"
    <3>1. buf' = <<>>
      BY <1>13, <2>1 DEF PrintReturns
    <3>2. Len(buf') = 0 /\ DOMAIN buf' = {}
      BY <3>1
    <3> QED
      BY <3>2, OutputAssumption DEF Buffer
  <2>2. CASE caller # "putc"
    BY <1>13, <1>t, <2>2 DEF Buffer, Flushing, PrintReturns, fixed, user, string, Kernel
  <2> QED
    BY <2>1, <2>2
<1>14. CASE HandleExc
  BY <1>14, <1>t DEF Control, Buffer, Flushing, Starting, HandleExc, BeginPrintf, fixed, user, string, Kernel
<1>15. CASE Lock
  BY <1>15, <1>t DEF Control, Buffer, Flushing, Starting, Lock, fixed, user, string, Kernel
<1>16. CASE Unlock
  BY <1>16, <1>t DEF Control, Buffer, Flushing, Starting, Unlock, fixed, user, string, Kernel
<1>17. CASE WriteReg
  BY <1>17, <1>t DEF Control, Buffer, Flushing, Starting, WriteReg, fixed, user, string, Kernel
<1>18. CASE Shutdown
  BY <1>18, <1>t DEF Control, Buffer, Flushing, Starting, Shutdown, fixed, user, string, Kernel
<1>19. CASE Transmit
  BY <1>19, <1>t DEF Control, Buffer, Flushing, Starting, Transmit, fixed, user, string, Kernel
<1>20. CASE UNCHANGED vars
  BY <1>20, <1>t DEF Control, Buffer, Flushing, Starting, vars, fixed, user, string
<1> QED
  BY <1>1, <1>2, <1>3, <1>4, <1>5, <1>6, <1>7, <1>8, <1>9, <1>10, <1>11, <1>12, <1>13, <1>14, <1>15, <1>16, <1>17, <1>18, <1>19, <1>20 DEF Next, Processor

\* Every step leaves the handler with the rest of its messages.
LEMMA MessagesNext ==
    ASSUME Course, [Next]_vars
    PROVE  Messages'
<1>t. Types /\ Control /\ Messages
  BY DEF Course
<1>a. program' = program => AllMessages' = AllMessages
  BY Zenon DEF AllMessages
<1>f. \E j \in 0 .. 3 : AllMessages = SubSeq(AllMessages, j + 1, 3)
  <2>1. AllMessages = SubSeq(AllMessages, 1, 3)
    BY MessagesType, SubSeqFull
  <2>2. 0 \in 0 .. 3 /\ 0 + 1 = 1
    OBVIOUS
  <2> HIDE DEF AllMessages
  <2> QED
    BY <2>1, <2>2
<1>1. CASE Boot
  BY <1>1, <1>t, <1>a DEF Control, Messages, Crashed, Boot, BeginPrintf, fixed, user, string, Kernel
<1>2. CASE StartProgram
  BY <1>2, <1>t, <1>a DEF Control, Messages, Crashed, StartProgram, fixed, user, string, Kernel
<1>3. CASE CallPrintf
  BY <1>3, <1>t, <1>a DEF Control, Messages, Crashed, CallPrintf, fixed, user, string, Kernel
<1>4. CASE UserLock
  BY <1>4, <1>t, <1>a DEF Control, Messages, Crashed, UserLock, fixed, user, string, Kernel
<1>5. CASE putc
  BY <1>5, <1>t, <1>a DEF Control, Messages, Crashed, putc, Sysenter, fixed, user, string, Kernel
<1>6. CASE PrintfReturns
  BY <1>6, <1>t, <1>a DEF Control, Messages, Crashed, PrintfReturns, fixed, user, string, Kernel
<1>7. CASE RawPrint
  BY <1>7, <1>t, <1>a DEF Control, Messages, Crashed, RawPrint, Sysenter, AtEnd, fixed, user, string, Kernel
<1>8. CASE UnknownCall
  BY <1>8, <1>t, <1>a DEF Control, Messages, Crashed, UnknownCall, BeginPrintf, AtEnd, fixed, user, string, Kernel
<1>9. CASE UserFault
  <2>1. report' = AllMessages /\ program' = program /\ pc' = "exc"
    <3>1. report' = ExcMessages(<<"P">>, PageFaultAddr)
      BY <1>9 DEF UserFault, PageFault, Exception
    <3>2. program.ends = "faults"
      BY <1>9 DEF UserFault, AtEnd, InPanic
    <3>3. AllMessages = ExcMessages(<<"P">>, PageFaultAddr)
      BY <3>2 DEF AllMessages
    <3> QED
      BY <1>9, <3>1, <3>3 DEF UserFault, PageFault, Exception, fixed
  <2> QED
    BY <1>a, <1>f, <2>1 DEF Messages
<1>10. CASE MainReturns
  <2>1. report' = AllMessages /\ program' = program /\ pc' = "exc"
    <3>1. report' = ExcMessages(<<"U">>, 0)
      BY <1>10 DEF MainReturns, UndefinedOpcode, Exception
    <3>2. program.ends = "returns"
      BY <1>10 DEF MainReturns, AtEnd, InPanic
    <3>3. AllMessages = ExcMessages(<<"U">>, 0)
      BY <3>2 DEF AllMessages
    <3> QED
      BY <1>10, <3>1, <3>3 DEF MainReturns, UndefinedOpcode, Exception, fixed
  <2> QED
    BY <1>a, <1>f, <2>1 DEF Messages
<1>11. CASE UserShutdown
  <2>1. report' = AllMessages /\ program' = program /\ pc' = "exc"
    <3>1. report' = ExcMessages(<<"G">>, 0)
      BY <1>11 DEF UserShutdown, GeneralProtection, Exception
    <3>2. program.ends = "panics"
      BY <1>11 DEF UserShutdown, AtEnd, InPanic
    <3>3. AllMessages = ExcMessages(<<"G">>, 0)
      BY <3>2 DEF AllMessages
    <3> QED
      BY <1>11, <3>1, <3>3 DEF UserShutdown, GeneralProtection, Exception, fixed
  <2> QED
    BY <1>a, <1>f, <2>1 DEF Messages
<1>12. CASE PrintChar
  <2>1. CASE data[i] = Unmapped
    <3>1. program.ends = "prints"
      BY <1>12, <2>1, FaultIsRaw DEF PrintChar
    <3>2. AllMessages = ExcMessages(<<"P">>, PageFaultAddr)
      BY <3>1 DEF AllMessages
    <3>3. report' = AllMessages /\ program' = program /\ pc' = "exc"
      BY <1>12, <2>1, <3>2 DEF PrintChar, PageFault, Exception, fixed
    <3> QED
      BY <1>a, <1>f, <3>3 DEF Messages
  <2>2. CASE data[i] # Unmapped
    BY <1>12, <1>t, <1>a, <2>2 DEF Control, Messages, Crashed, PrintChar, BeginPrintf, fixed
  <2> QED
    BY <2>1, <2>2
<1>13. CASE PrintReturns
  BY <1>13, <1>t, <1>a DEF Control, Messages, Crashed, PrintReturns, fixed, user, string, Kernel
<1>14. CASE HandleExc
  <2>1. pc = "exc" /\ Crashed /\ program' = program
    BY <1>14 DEF HandleExc, Crashed, fixed
  <2>2. CASE report # <<>>
    <3>1. \E j \in 0 .. 3 : Tail(report) = SubSeq(AllMessages, j + 1, 3)
      BY <1>t, <2>1, <2>2, MessagesLeft
    <3>2. report' = Tail(report) /\ pc' = "lock"
      BY <1>14, <2>2 DEF HandleExc, BeginPrintf
    <3> QED
      BY <1>a, <2>1, <3>1, <3>2 DEF Messages
  <2>3. CASE report = <<>>
    <3>1. report' = report /\ pc' = "panic"
      BY <1>14, <2>3 DEF HandleExc
    <3> QED
      BY <1>a, <1>t, <2>1, <2>3, <3>1 DEF Messages
  <2> QED
    BY <2>2, <2>3
<1>15. CASE Lock
  BY <1>15, <1>t, <1>a DEF Control, Messages, Crashed, Lock, fixed, user, string, Kernel
<1>16. CASE Unlock
  BY <1>16, <1>t, <1>a DEF Control, Messages, Crashed, Unlock, fixed, user, string, Kernel
<1>17. CASE WriteReg
  BY <1>17, <1>t, <1>a DEF Control, Messages, Crashed, WriteReg, fixed, user, string, Kernel
<1>18. CASE Shutdown
  BY <1>18, <1>t, <1>a DEF Control, Messages, Crashed, Shutdown, fixed, user, string, Kernel
<1>19. CASE Transmit
  BY <1>19, <1>t, <1>a DEF Control, Messages, Crashed, Transmit, fixed, user, string, Kernel
<1>20. CASE UNCHANGED vars
  BY <1>20, <1>t, <1>a DEF Control, Messages, Crashed, vars, fixed, user, string
<1> QED
  BY <1>1, <1>2, <1>3, <1>4, <1>5, <1>6, <1>7, <1>8, <1>9, <1>10, <1>11, <1>12, <1>13, <1>14, <1>15, <1>16, <1>17, <1>18, <1>19, <1>20 DEF Next, Processor

\* Every step leaves sys_print with the buffer, the program's own string or none.
LEMMA StringNext ==
    ASSUME Course, [Next]_vars
    PROVE  String'
<1>t. Types /\ Control /\ String
  BY DEF Course
<1>e. \A t : SubSeq(t, 1, 1 - 1) = <<>>
  BY SubSeqEmpty
<1>1. CASE Boot
  BY <1>1, <1>t, <1>e, EmptyText DEF Control, String, Flushing, Crashed, Boot, BeginPrintf, fixed, user, string, Kernel
<1>2. CASE StartProgram
  BY <1>2, <1>t, <1>e, EmptyText DEF Control, String, Flushing, Crashed, StartProgram, fixed, user, string, Kernel
<1>3. CASE CallPrintf
  BY <1>3, <1>t, <1>e, EmptyText DEF Control, String, Flushing, Crashed, CallPrintf, fixed, user, string, Kernel
<1>4. CASE UserLock
  BY <1>4, <1>t, <1>e, EmptyText DEF Control, String, Flushing, Crashed, UserLock, fixed, user, string, Kernel
<1>5. CASE putc
  <2>1. CASE Flushes(buf')
    <3>1. /\ pc = "putc" /\ data' = buf' /\ i' = 1 /\ caller' = "putc" /\ over' = over
          /\ pc' = "print"
      BY <1>5, <2>1 DEF putc, Sysenter
    <3>2. ~ over
      BY <1>t, <3>1 DEF Control
    <3>3. SubSeq(data', 1, i' - 1) \in Texts
      BY <1>e, <3>1, EmptyText
    <3> QED
      BY <3>1, <3>2, <3>3 DEF String, Flushing
  <2>2. CASE ~ Flushes(buf')
    <3>1. pc = "putc" /\ UNCHANGED <<program, over, data, i, pc, caller>>
      BY <1>5, <2>2 DEF putc, fixed, Kernel, string
    <3> QED
      BY <1>t, <3>1 DEF String, Flushing
  <2> QED
    BY <2>1, <2>2
<1>6. CASE PrintfReturns
  BY <1>6, <1>t, <1>e, EmptyText DEF Control, String, Flushing, Crashed, PrintfReturns, fixed, user, string, Kernel
<1>7. CASE RawPrint
  <2>1. /\ i' = 1 /\ caller' = "main" /\ over' /\ program' = program
        /\ program.ends = "prints"
    BY <1>7 DEF RawPrint, Sysenter, AtEnd, fixed
  <2>2. SubSeq(data', 1, i' - 1) \in Texts
    BY <1>e, <2>1, EmptyText
  <2> QED
    BY <2>1, <2>2 DEF String, Flushing
<1>8. CASE UnknownCall
  BY <1>8, <1>t, <1>e, EmptyText DEF Control, String, Flushing, Crashed, UnknownCall, BeginPrintf, AtEnd, fixed, user, string, Kernel
<1>9. CASE UserFault
  BY <1>9, <1>t, <1>e, EmptyText DEF Control, String, Flushing, Crashed, UserFault, PageFault, Exception, AtEnd, fixed, user, string, Kernel
<1>10. CASE MainReturns
  BY <1>10, <1>t, <1>e, EmptyText DEF Control, String, Flushing, Crashed, MainReturns, UndefinedOpcode, Exception, AtEnd, fixed, user, string, Kernel
<1>11. CASE UserShutdown
  BY <1>11, <1>t, <1>e, EmptyText DEF Control, String, Flushing, Crashed, UserShutdown, GeneralProtection, Exception, InPanic, fixed, user, string, Kernel
<1>12. CASE PrintChar
  <2>1. CASE data[i] = Unmapped
    <3>1. caller = "main" /\ over /\ program.ends = "prints" /\ todo = <<>>
      BY <1>12, <2>1, FaultIsRaw DEF PrintChar
    <3> QED
      BY <1>12, <1>t, <2>1, <3>1 DEF String, Flushing, PrintChar, PageFault, Exception, fixed, user, string
  <2>2. CASE data[i] # Unmapped
    <3>1. /\ pc = "print" /\ pc' = "lock" /\ i' = i + 1
          /\ UNCHANGED <<program, over, buf, data, caller>>
      BY <1>12, <2>2 DEF PrintChar, BeginPrintf, fixed, user
    <3>2. i \in Nat \ {0} /\ i <= Len(data)
      BY <1>12, <1>t DEF PrintChar, Types
    <3>3. data[i] \in Chars
      BY <1>t, <2>2, <3>2, ReadCharacter
    <3>4. SubSeq(data, 1, i) = SubSeq(data, 1, i - 1) \o <<data[i]>>
      <4>1. i \in 1 .. Len(data) /\ 1 \in 1 .. i
        BY <1>t, <3>2 DEF Types
      <4> QED
        BY <1>t, <4>1, SubSeqRecursiveSecond DEF Types
    <3>5. SubSeq(data, 1, i) \in Texts
      BY <1>t, <3>3, <3>4, Singles, Concatenation DEF String
    <3>6. i' - 1 = i
      BY <3>1, <3>2
    <3>7. SubSeq(data', 1, i' - 1) \in Texts
      BY <3>1, <3>5, <3>6
    <3>8. Flushing' = Flushing /\ (Flushing => data = buf /\ ~ over)
      BY <1>t, <3>1 DEF Flushing, String
    <3>9. Flushing \/ (over /\ program.ends = "prints")
      <4>1. data # <<>>
        <5>1. SUFFICES ASSUME data = <<>> PROVE FALSE
          OBVIOUS
        <5>2. Len(data) = 0
          BY <5>1
        <5> QED
          BY <3>2, <5>2
      <4> QED
        BY <1>t, <4>1 DEF String
    <3> QED
      BY <3>1, <3>7, <3>8, <3>9 DEF String
  <2> QED
    BY <2>1, <2>2
<1>13. CASE PrintReturns
  <2>1. CASE caller = "putc"
    <3>1. data' = <<>> /\ i' = 1 /\ pc' = "putc"
      BY <1>13, <2>1 DEF PrintReturns
    <3>2. SubSeq(data', 1, i' - 1) \in Texts
      BY <1>e, <3>1, EmptyText
    <3> QED
      BY <3>1, <3>2 DEF String, Flushing
  <2>2. CASE caller # "putc"
    BY <1>13, <1>t, <2>2 DEF String, Flushing, PrintReturns, fixed
  <2> QED
    BY <2>1, <2>2
<1>14. CASE HandleExc
  BY <1>14, <1>t, <1>e, EmptyText DEF Control, String, Flushing, Crashed, HandleExc, BeginPrintf, fixed, user, string, Kernel
<1>15. CASE Lock
  BY <1>15, <1>t, <1>e, EmptyText DEF Control, String, Flushing, Crashed, Lock, fixed, user, string, Kernel
<1>16. CASE Unlock
  BY <1>16, <1>t, <1>e, EmptyText DEF Control, String, Flushing, Crashed, Unlock, fixed, user, string, Kernel
<1>17. CASE WriteReg
  BY <1>17, <1>t, <1>e, EmptyText DEF Control, String, Flushing, Crashed, WriteReg, fixed, user, string, Kernel
<1>18. CASE Shutdown
  BY <1>18, <1>t, <1>e, EmptyText DEF Control, String, Flushing, Crashed, Shutdown, fixed, user, string, Kernel
<1>19. CASE Transmit
  BY <1>19, <1>t, <1>e, EmptyText DEF Control, String, Flushing, Crashed, Transmit, fixed, user, string, Kernel
<1>20. CASE UNCHANGED vars
  BY <1>20, <1>t, <1>e, EmptyText DEF Control, String, Flushing, Crashed, vars, fixed, user, string
<1> QED
  BY <1>1, <1>2, <1>3, <1>4, <1>5, <1>6, <1>7, <1>8, <1>9, <1>10, <1>11, <1>12, <1>13, <1>14, <1>15, <1>16, <1>17, <1>18, <1>19, <1>20 DEF Next, Processor

\* All of it is kept.
LEMMA CourseNext ==
    ASSUME Course, [Next]_vars
    PROVE  Course'
  BY TypesNext, ControlNext, StringNext, MessagesNext, BufferNext DEF Course
-----------------------------------------------------------------------------
(* What the program has put, and what of it has left for the kernel *)

Split == HandedOver \in Texts /\ Put = HandedOver \o buf \o todo

\* The front and the back of two texts put together.
LEMMA FrontPart ==
    ASSUME NEW s \in Texts, NEW t \in Texts
    PROVE  SubSeq(s \o t, 1, Len(s)) = s
<1>1. s \in Seq(Chars) /\ t \in Seq(Chars) /\ Len(s) \in Nat
  BY DEF Texts
<1>2. CASE Len(s) = 0
  <2>1. s = <<>>
    BY <1>1, <1>2
  <2>2. SubSeq(s \o t, 1, 0) = <<>>
    BY SubSeqEmpty
  <2> QED
    BY <1>2, <2>1, <2>2
<1>3. CASE Len(s) # 0
  <2>1. 1 \in 1 .. Len(s) /\ Len(s) \in 1 .. Len(s)
    BY <1>1, <1>3
  <2>2. SubSeq(s \o t, 1, Len(s)) = SubSeq(s, 1, Len(s))
    BY <1>1, <2>1, SubSeqOfConcat1
  <2> QED
    BY <1>1, <2>2, SubSeqFull
<1> QED
  BY <1>2, <1>3

LEMMA BackPart ==
    ASSUME NEW s \in Texts, NEW t \in Texts
    PROVE  SubSeq(s \o t, Len(s) + 1, Len(s) + Len(t)) = t
<1>1. s \in Seq(Chars) /\ t \in Seq(Chars) /\ Len(s) \in Nat /\ Len(t) \in Nat
  BY DEF Texts
<1>2. CASE Len(t) = 0
  <2>1. t = <<>>
    BY <1>1, <1>2
  <2>2. Len(s) + 1 \in Int /\ Len(s) + Len(t) \in Int /\ Len(s) + Len(t) < Len(s) + 1
    BY <1>1, <1>2
  <2>3. SubSeq(s \o t, Len(s) + 1, Len(s) + Len(t)) = <<>>
    BY <2>2, SubSeqEmpty
  <2> QED
    BY <2>1, <2>3
<1>3. CASE Len(t) # 0
  <2> DEFINE m == Len(s) + 1
             n == Len(s) + Len(t)
  <2>1. m \in Len(s) + 1 .. Len(s) + Len(t) /\ n \in Len(s) + 1 .. Len(s) + Len(t)
        /\ m - Len(s) = 1 /\ n - Len(s) = Len(t)
    BY <1>1, <1>3
  <2> HIDE DEF m, n
  <2>2. SubSeq(s \o t, m, n) = SubSeq(t, m - Len(s), n - Len(s))
    BY <1>1, <2>1, SubSeqOfConcat2
  <2>3. SubSeq(t, 1, Len(t)) = t
    BY <1>1, SubSeqFull
  <2> QED
    BY <2>1, <2>2, <2>3 DEF m, n
<1> QED
  BY <1>2, <1>3

\* Of a text that ends in b and t: what is before both, and the part b.
Without(all, t) == SubSeq(all, 1, Len(all) - Len(t))
Before(all, b, t) == Without(Without(all, t), b)
Between(all, b, t) == SubSeq(Without(all, t), Len(Before(all, b, t)) + 1, Len(Without(all, t)))

\* These parts are the ones the texts were put together from.
LEMMA WithoutIs ==
    ASSUME NEW s \in Texts, NEW t \in Texts
    PROVE  Without(s \o t, t) = s
<1>1. s \in Seq(Chars) /\ t \in Seq(Chars) /\ Len(s) \in Nat /\ Len(t) \in Nat
  BY DEF Texts
<1>2. Len(s \o t) = Len(s) + Len(t)
  BY <1>1, ConcatProperties
<1>3. Len(s \o t) - Len(t) = Len(s)
  BY <1>1, <1>2
<1> QED
  BY <1>3, FrontPart DEF Without

LEMMA Parts ==
    ASSUME NEW h \in Texts, NEW b \in Texts, NEW t \in Texts
    PROVE  Before(h \o b \o t, b, t) = h /\ Between(h \o b \o t, b, t) = b
<1> DEFINE hb == h \o b
           all == hb \o t
<1>1. hb \in Texts
  BY Concatenation
<1>2. Without(hb, b) = h
  BY WithoutIs
<1>3. SubSeq(hb, Len(h) + 1, Len(hb)) = b
  <2>1. h \in Seq(Chars) /\ b \in Seq(Chars)
    BY DEF Texts
  <2>2. Len(hb) = Len(h) + Len(b)
    BY <2>1, ConcatProperties
  <2> QED
    BY <2>2, BackPart
<1> HIDE DEF hb
<1>4. Without(all, t) = hb
  BY <1>1, WithoutIs
<1> HIDE DEF all
<1>5. Before(all, b, t) = h
  BY <1>2, <1>4 DEF Before
<1>6. Between(all, b, t) = b
  BY <1>3, <1>4, <1>5 DEF Between
<1> QED
  BY <1>5, <1>6 DEF all, hb

\* So the parts of Put are what was handed over and the buffer.
LEMMA HandedOverIs ==
    ASSUME NEW h \in Texts, buf \in Texts, todo \in Texts, Put = h \o buf \o todo
    PROVE  HandedOver = h /\ Held = buf
<1>1. HandedOver = Before(Put, buf, todo) /\ Held = Between(Put, buf, todo)
  BY Zenon DEF HandedOver, Held, Printed, Put, Before, Between, Without
<1> QED
  BY <1>1, Parts

LEMMA HandedOverNext ==
    ASSUME NEW h \in Texts, buf' \in Texts, todo' \in Texts, Put' = h \o buf' \o todo'
    PROVE  HandedOver' = h
<1>1. HandedOver' = Before(Put', buf', todo')
  BY Zenon DEF HandedOver, Printed, Put, Before, Without
<1> QED
  BY <1>1, Parts

\* A further call puts its characters behind all others.
LEMMA PutMore ==
    ASSUME Types, k < Len(program.calls), program' = program, k' = k + 1
    PROVE  /\ Put' = Put \o Meant(program.calls[k + 1])
           /\ Put \in Texts /\ Meant(program.calls[k + 1]) \in Texts
<1>1. Len(program.calls) \in Nat /\ \A n \in 1 .. Len(program.calls) : Meant(program.calls[n]) \in Texts
  BY ProgramFacts, MeantIs DEF Types
<1>2. k \in Nat /\ k + 1 \in 1 .. Len(program.calls)
  BY <1>1 DEF Types
<1> DEFINE M(n) == Meant(program.calls[n])
           s == [n \in 1 .. k |-> M(n)]
           x == M(k + 1)
           u == [n \in 1 .. k + 1 |-> M(n)]
<1>3. \A n \in 1 .. k : M(n) \in Texts
  BY <1>1, <1>2
<1>4. x \in Texts
  BY <1>1, <1>2
<1> HIDE DEF M
<1>5. s \in Seq(Texts) /\ Len(s) = k /\ \A n \in 1 .. k : s[n] = M(n)
  BY <1>2, <1>3
<1>6. u \in Seq(Texts) /\ Len(u) = k + 1 /\ \A n \in 1 .. k + 1 : u[n] = M(n)
  <2>1. \A n \in 1 .. k + 1 : M(n) \in Texts
    <3>1. \A n \in 1 .. k + 1 : n \in 1 .. k \/ n = k + 1
      BY <1>2
    <3> QED
      BY <1>3, <1>4, <3>1
  <2> QED
    BY <1>2, <2>1
<1> HIDE DEF s, u
<1>7. Append(s, x) = u
  <2> HIDE DEF x
  <2>1. /\ Append(s, x) \in Seq(Texts) /\ Len(Append(s, x)) = k + 1
        /\ Append(s, x)[k + 1] = x /\ \A n \in 1 .. k : Append(s, x)[n] = s[n]
    BY <1>2, <1>4, <1>5
  <2>2. \A n \in 1 .. k + 1 : Append(s, x)[n] = u[n]
    <3>1. ASSUME NEW n \in 1 .. k + 1
          PROVE  Append(s, x)[n] = u[n]
      <4>1. n \in 1 .. k \/ n = k + 1
        BY <1>2
      <4>2. x = M(k + 1)
        BY DEF x
      <4> QED
        BY <1>5, <1>6, <2>1, <4>1, <4>2
    <3> QED
      BY <3>1
  <2> QED
    BY <1>6, <2>1, <2>2, SeqEqual
<1>8. FlattenSeq(Append(s, x)) = FlattenSeq(s) \o x /\ FlattenSeq(s) \in Texts
  BY <1>4, <1>5, FlattenMore, FlattenType DEF Texts
<1>9. Put = FlattenSeq(s) /\ Put' = FlattenSeq(u)
  BY DEF Put, s, u, M
<1> QED
  BY <1>4, <1>7, <1>8, <1>9 DEF x, M

\* Other steps leave what was put.
LEMMA PutSame ==
    ASSUME program' = program, k' = k
    PROVE  Put' = Put
  BY DEF Put
-----------------------------------------------------------------------------
\* What a step hands over.
Empties == PrintReturns /\ caller = "putc"

\* Where nothing is put or buffered, nothing is handed over.
LEMMA SplitSame ==
    ASSUME Course, Split, UNCHANGED <<program, k, todo, buf>>
    PROVE  HandedOver' = HandedOver /\ Split'
<1>1. Put' = Put
  BY PutSame
<1>2. buf \in Texts /\ todo \in Texts
  BY DEF Course, Types
<1> DEFINE h == HandedOver
<1>3. h \in Texts /\ Put = h \o buf \o todo
  BY DEF Split
<1> HIDE DEF h
<1>4. HandedOver' = h
  BY <1>1, <1>2, <1>3, HandedOverNext
<1> QED
  BY <1>1, <1>3, <1>4 DEF Split, h

\* Every step keeps the split, and only the end of a write moves it.
LEMMA SplitNext ==
    ASSUME Course, Split, [Next]_vars
    PROVE  /\ Split'
           /\ Empties => HandedOver' = HandedOver \o buf
           /\ ~ Empties => HandedOver' = HandedOver
<1> DEFINE h == HandedOver
<1>1. h \in Texts /\ Put = h \o buf \o todo
  BY DEF Split
<1>2. buf \in Texts /\ todo \in Texts /\ Types /\ Control
  BY DEF Course, Types
<1>3. buf' \in Texts /\ todo' \in Texts
  BY TypesNext DEF Types
<1>4. SUFFICES ASSUME NEW g \in Texts, Put' = g \o buf' \o todo',
                      g = (IF Empties THEN h \o buf ELSE h)
               PROVE  HandedOver' = g /\ Split'
  <2> HIDE DEF h
  <2>1. \E g \in Texts : /\ Put' = g \o buf' \o todo'
                         /\ g = IF Empties THEN h \o buf ELSE h
    <3>1. CASE CallPrintf
      <4>1. k < Len(program.calls) /\ program' = program /\ k' = k + 1 /\ buf' = buf
            /\ pc = "main" /\ todo' = vprintf(FormatOf(program.calls[k + 1]),
                                              program.calls[k + 1].spec.args)
        BY <3>1 DEF CallPrintf, fixed
      <4>2. IsCall(program.calls[k + 1])
        <5>1. Len(program.calls) \in Nat /\ k \in Nat
          BY <1>2, ProgramFacts DEF Types
        <5>2. k + 1 \in 1 .. Len(program.calls)
          BY <4>1, <5>1
        <5> QED
          BY <1>2, <5>2, ProgramFacts DEF Types
      <4>3. todo' = Meant(program.calls[k + 1])
        BY <4>1, <4>2, MeantIs
      <4>4. Put' = Put \o todo'
        BY <1>2, <4>1, <4>3, PutMore
      <4>5. todo = <<>>
        BY <1>2, <4>1 DEF Control, Flushing
      <4>6. h \o buf \o todo = h \o buf
        BY <1>1, <1>2, <4>5, Concatenation, Nothing
      <4>7. ~ Empties
        BY <4>1 DEF Empties, PrintReturns
      <4> QED
        BY <1>1, <4>1, <4>4, <4>6, <4>7
    <3>2. CASE putc
      <4>1. todo # <<>> /\ buf' = Append(buf, Head(todo)) /\ todo' = Tail(todo)
            /\ program' = program /\ k' = k /\ pc = "putc"
        BY <3>2 DEF putc, fixed
      <4>2. Put' = Put
        BY <4>1, PutSame
      <4>3. h \o buf \o todo = h \o Append(buf, Head(todo)) \o Tail(todo)
        <5> DEFINE c == Head(todo)
                   t == Tail(todo)
        <5>1. c \in Chars /\ t \in Texts /\ todo = <<c>> \o t
          BY <1>2, <4>1 DEF Texts
        <5> HIDE DEF c, t
        <5>2. Append(buf, c) = buf \o <<c>> /\ <<c>> \in Texts
          BY <1>2, <5>1, Singles DEF Texts
        <5>3. \A x, y, z \in Texts : (x \o y) \o z = x \o (y \o z)
          BY DEF Texts
        <5>4. h \o buf \in Texts
          BY <1>1, <1>2, Concatenation
        <5>5. (h \o buf) \o (<<c>> \o t) = ((h \o buf) \o <<c>>) \o t
          BY <5>1, <5>2, <5>3, <5>4
        <5>6. (h \o buf) \o <<c>> = h \o (buf \o <<c>>)
          BY <1>1, <1>2, <5>2, <5>3
        <5> QED
          BY <5>1, <5>2, <5>5, <5>6 DEF c, t
      <4>4. ~ Empties
        BY <4>1 DEF Empties, PrintReturns
      <4> QED
        BY <1>1, <4>1, <4>2, <4>3, <4>4
    <3>3. CASE Empties
      <4>1. /\ buf' = <<>> /\ todo' = todo /\ program' = program /\ k' = k
        BY <3>3 DEF Empties, PrintReturns, fixed
      <4>2. Put' = Put
        BY <4>1, PutSame
      <4>3. h \o buf \in Texts /\ (h \o buf) \o <<>> = h \o buf
        BY <1>1, <1>2, Concatenation, Nothing
      <4> QED
        BY <1>1, <3>3, <4>1, <4>2, <4>3
    <3>4. CASE StartProgram
      <4>1. buf' = <<>> /\ buf = <<>> /\ todo' = todo /\ program' = program /\ k' = k
            /\ pc = "start"
        BY <1>2, <3>4 DEF StartProgram, fixed, Control, Starting
      <4>2. Put' = Put
        BY <4>1, PutSame
      <4>3. ~ Empties
        BY <4>1 DEF Empties, PrintReturns
      <4> QED
        BY <1>1, <4>1, <4>2, <4>3
    <3>5. CASE UNCHANGED <<program, k, todo, buf>> /\ ~ Empties
      BY <1>1, <3>5, PutSame
    <3>6. \/ CallPrintf \/ putc \/ Empties \/ StartProgram
          \/ UNCHANGED <<program, k, todo, buf>> /\ ~ Empties
      <4>1. CASE PrintReturns
        <5>1. program' = program /\ k' = k /\ todo' = todo /\ (caller # "putc" => buf' = buf)
          BY <4>1 DEF PrintReturns, fixed
        <5> QED
          BY <4>1, <5>1 DEF Empties
      <4>2. CASE ~ PrintReturns
        <5>1. ~ Empties
          BY <4>2 DEF Empties
        <5>2. \/ CallPrintf \/ putc \/ StartProgram \/ UNCHANGED <<program, k, todo, buf>>
          <6> USE DEF fixed, user, string, Kernel
          <6>1. CASE Boot \/ UserLock \/ PrintfReturns \/ RawPrint \/ UnknownCall
            BY <6>1 DEF Boot, UserLock, PrintfReturns, RawPrint, UnknownCall
          <6>2. CASE UserFault \/ MainReturns \/ UserShutdown \/ PrintChar \/ HandleExc
            BY <6>2 DEF UserFault, MainReturns, UserShutdown, PrintChar, HandleExc
          <6>3. CASE Lock \/ Unlock \/ WriteReg \/ Shutdown \/ Transmit
            BY <6>3 DEF Lock, Unlock, WriteReg, Shutdown, Transmit
          <6>4. CASE UNCHANGED vars
            BY <6>4 DEF vars
          <6> QED
            BY <4>2, <6>1, <6>2, <6>3, <6>4 DEF Next, Processor
        <5> QED
          BY <5>1, <5>2
      <4> QED
        BY <4>1, <4>2
    <3> QED
      BY <3>1, <3>2, <3>3, <3>4, <3>5, <3>6
  <2>2. PICK g \in Texts : /\ Put' = g \o buf' \o todo'
                           /\ g = IF Empties THEN h \o buf ELSE h
    BY <2>1
  <2> QED
    BY <1>4, <2>2 DEF h
<1>5. HandedOver' = g
  BY <1>3, <1>4, HandedOverNext
<1> QED
  BY <1>4, <1>5 DEF Split
-----------------------------------------------------------------------------
(* What the line shows *)

Reading == SubSeq(data, 1, i - 1)
Sending == IF thr = None THEN <<>> ELSE <<thr>>
Line == term \o Sending \o out
Five(g, h, r, u, m) == g \o h \o r \o u \o m
Shown == Five(Greeted, HandedOver, Reading, Refused, Reported)

\* The property, in these names.
LEMMA ShowsIs == TerminalShows <=> Line = ToLine(serial, Shown)
  BY Zenon DEF TerminalShows, Line, Sending, Shown, Five, Reading, Written, ToLine

Join(x, y) == x \o y

\* Putting texts together.
LEMMA JoinFacts ==
    /\ \A x, y \in Texts : Join(x, y) \in Texts
    /\ \A x, y, z \in Texts : Join(x, Join(y, z)) = Join(Join(x, y), z)
    /\ \A x \in Texts : Join(x, <<>>) = x /\ Join(<<>>, x) = x
<1>1. ASSUME NEW x \in Texts, NEW y \in Texts, NEW z \in Texts
      PROVE  x \o (y \o z) = (x \o y) \o z
  <2>1. x \in Seq(Chars) /\ y \in Seq(Chars) /\ z \in Seq(Chars)
    BY DEF Texts
  <2> QED
    BY <2>1, ConcatAssociative
<1> QED
  BY <1>1, Concatenation, Nothing, Zenon DEF Join

\* What is shown grows at its end, where all later parts are empty.
LEMMA FiveTexts ==
    ASSUME NEW g \in Texts, NEW h \in Texts, NEW r \in Texts, NEW u \in Texts,
           NEW m \in Texts, NEW t \in Texts, NEW e, e = <<>>
    PROVE  /\ Five(g, h, r, u, m) \in Texts
           /\ Five(g, h, r, u, Join(m, t)) = Join(Five(g, h, r, u, m), t)
           /\ Five(g, h, Join(r, t), e, e) = Join(Five(g, h, r, e, e), t)
           /\ Five(g, h, r, t, e) = Join(Five(g, h, r, e, e), t)
           /\ Five(g, Join(h, t), e, e, e) = Five(g, h, t, e, e)
           /\ Five(t, e, e, e, e) = t
           /\ Five(e, e, e, e, e) = e
<1>1. e \in Texts
  BY EmptyText
<1>2. \A a, b, c, d, f : Five(a, b, c, d, f) = Join(Join(Join(Join(a, b), c), d), f)
  BY Zenon DEF Five, Join
<1>3. \A x \in Texts : Join(x, e) = x /\ Join(e, x) = x
  BY <1>1, JoinFacts
<1>4. PICK a \in Texts : a = Join(g, h)
  BY JoinFacts
<1>5. PICK b \in Texts : b = Join(a, r)
  BY JoinFacts
<1>6. PICK c \in Texts : c = Join(b, u)
  BY JoinFacts
<1>7. /\ Five(g, h, r, u, m) \in Texts
      /\ Five(g, h, r, u, Join(m, t)) = Join(Five(g, h, r, u, m), t)
  <2>1. \A x : Five(g, h, r, u, x) = Join(c, x)
    BY <1>2, <1>4, <1>5, <1>6
  <2>2. Join(c, Join(m, t)) = Join(Join(c, m), t) /\ Join(c, m) \in Texts
    BY JoinFacts
  <2> QED
    BY <2>1, <2>2
<1>8. /\ Five(g, h, Join(r, t), e, e) = Join(Five(g, h, r, e, e), t)
      /\ Five(g, h, r, t, e) = Join(Five(g, h, r, e, e), t)
  <2>1. \A x, y : Five(g, h, x, y, e) = Join(Join(Join(a, x), y), e)
    BY <1>2, <1>4
  <2>2. Join(a, Join(r, t)) = Join(b, t) /\ Join(b, t) \in Texts
    BY <1>5, JoinFacts
  <2>3. Five(g, h, Join(r, t), e, e) = Join(b, t) /\ Five(g, h, r, e, e) = b
    BY <1>3, <1>5, <2>1, <2>2
  <2>4. Five(g, h, r, t, e) = Join(b, t)
    BY <1>3, <1>5, <2>1, <2>2
  <2> QED
    BY <2>3, <2>4
<1>9. Five(g, Join(h, t), e, e, e) = Five(g, h, t, e, e)
  BY <1>2, <1>3, JoinFacts
<1>10. Five(t, e, e, e, e) = t /\ Five(e, e, e, e, e) = e
  BY <1>1, <1>2, <1>3
<1> QED
  BY <1>7, <1>8, <1>9, <1>10

\* The parts of what is shown.
LEMMA ReportedType ==
    ASSUME Course PROVE Reported \in Texts
<1>1. CASE ~ Crashed
  BY <1>1, EmptyText DEF Reported
<1>2. CASE Crashed
  <2>1. Len(report) \in 0 .. 3 /\ AllMessages \in Seq(Texts) /\ Len(AllMessages) = 3
    BY <1>2, MessagesLeft, MessagesType DEF Course
  <2> DEFINE n == Len(AllMessages) - Len(report)
  <2>2. \A x \in 0 .. 3 : 3 - x \in 0 .. 3
    OBVIOUS
  <2>3. SubSeq(AllMessages, 1, n) \in Seq(Texts)
    <3> DEFINE A == AllMessages
    <3>1. A \in Seq(Texts) /\ Len(A) = 3 /\ n \in 0 .. 3
      BY <2>1, <2>2, Zenon
    <3> HIDE DEF A, n
    <3>2. SubSeq(A, 1, n) \in Seq(Texts)
      BY <3>1
    <3> QED
      BY <3>2 DEF A
  <2>4. FlattenSeq(SubSeq(AllMessages, 1, n)) \in Texts
    BY <2>3, FlattenType DEF Texts
  <2>5. (IF pc \in {"panic", "stopped"} THEN PanicText ELSE <<>>) \in Texts
    BY PanicTextType, EmptyText
  <2> HIDE DEF n
  <2>6. FlattenSeq(SubSeq(AllMessages, 1, n))
        \o (IF pc \in {"panic", "stopped"} THEN PanicText ELSE <<>>) \in Texts
    BY <2>4, <2>5, Concatenation
  <2> QED
    BY <1>2, <2>6 DEF Reported, n
<1> QED
  BY <1>1, <1>2

\* All parts are texts.
LEMMA ShownParts ==
    ASSUME Course, Split
    PROVE  /\ Greeted \in Texts /\ HandedOver \in Texts /\ Reading \in Texts
           /\ Refused \in Texts /\ Reported \in Texts /\ Shown \in Texts
<1>1. Greeted \in Texts /\ Refused \in Texts
  BY GreetingType, UnknownType, EmptyText DEF Greeted, Refused
<1>2. HandedOver \in Texts /\ Reading \in Texts
  BY DEF Split, Course, String, Reading
<1>3. Reported \in Texts
  BY ReportedType
<1>4. Shown \in Texts
  BY <1>1, <1>2, <1>3, FiveTexts, EmptyText DEF Shown
<1> QED
  BY <1>1, <1>2, <1>3, <1>4

\* A step that gives the serial console the text it adds to what is shown.
LEMMA Adds ==
    ASSUME Course, Split, TerminalShows, out = <<>>, UNCHANGED <<serial, term, thr>>,
           NEW t \in Texts, out' = Written(t), Shown' = Shown \o t
    PROVE  TerminalShows'
<1>1. Shown \in Texts /\ term \in Texts
  BY ShownParts DEF Course, Types
<1>2. Line = ToLine(serial, Shown)
  BY ShowsIs
<1>3. Sending \in Texts
  BY Singles, EmptyText DEF Sending, Course, Types
<1>4. term \o Sending \in Texts
  BY <1>1, <1>3, Concatenation
<1>5. Line = term \o Sending
  BY <1>4, Nothing DEF Line
<1>6. Line' = (term \o Sending) \o out'
  BY DEF Line, Sending
<1>7. out' = ToLine(serial, t)
  BY DEF Written, ToLine
<1>8. ToLine(serial, Shown \o t) = ToLine(serial, Shown) \o ToLine(serial, t)
  BY <1>1, ToLineBoth
<1>9. Line' = ToLine(serial', Shown')
  BY <1>2, <1>5, <1>6, <1>7, <1>8
<1> QED
  BY <1>9, ShowsIs, Zenon DEF TerminalShows, Line, Sending, Shown, Five, Reading, Written, ToLine

\* A step that changes neither the line nor what is shown.
LEMMA Keeps ==
    ASSUME TerminalShows, Line' = Line, Shown' = Shown, serial' = serial
    PROVE  TerminalShows'
<1>1. Line' = ToLine(serial', Shown')
  BY ShowsIs
<1> QED
  BY <1>1, Zenon DEF TerminalShows, Line, Sending, Shown, Five, Reading, Written, ToLine
-----------------------------------------------------------------------------
\* The parts that a step leaves.
LEMMA GreetedKept ==
    ASSUME pc # "boot", pc' # "boot"
    PROVE  Greeted = Greeting /\ Greeted' = Greeting
  BY Zenon DEF Greeted

LEMMA RefusedKept ==
    ASSUME UNCHANGED <<program, over>>
    PROVE  Refused' = Refused
  BY DEF Refused

\* Nothing is reported before the exception, and no message at first.
LEMMA NotReported ==
    ASSUME ~ Crashed
    PROVE  Reported = <<>>
  BY DEF Reported

LEMMA NotReportedNext ==
    ASSUME ~ Crashed'
    PROVE  Reported' = <<>>
  BY DEF Reported

\* The report begins with no message, and is kept by steps of a crash.
LEMMA ReportBegins ==
    ASSUME program' = program, pc' = "exc", Len(report') = 3
    PROVE  Reported' = <<>>
<1>1. AllMessages' = AllMessages
  BY Zenon DEF AllMessages
<1>2. Len(AllMessages) = 3
  BY MessagesType
<1>3. SubSeq(AllMessages, 1, 3 - 3) = <<>>
  BY SubSeqEmpty
<1>4. Reported' = FlattenSeq(SubSeq(AllMessages', 1, Len(AllMessages') - Len(report'))) \o <<>>
  BY DEF Reported, Crashed
<1>5. FlattenSeq(<<>>) \o <<>> = <<>>
  BY FlattenNone, EmptyText, Nothing
<1> QED
  BY <1>1, <1>2, <1>3, <1>4, <1>5

LEMMA ReportedKept ==
    ASSUME UNCHANGED <<program, report>>, Crashed, Crashed',
           pc \in {"panic", "stopped"} <=> pc' \in {"panic", "stopped"}
    PROVE  Reported' = Reported
<1>1. AllMessages' = AllMessages
  BY Zenon DEF AllMessages
<1> QED
  BY <1>1 DEF Reported

\* A step that neither shows more nor changes what is on its way.
LEMMA Still ==
    ASSUME Course, Split, TerminalShows, HandedOver' = HandedOver,
           Reading' = Reading, Refused' = Refused, Reported' = Reported,
           Greeted' = Greeted, UNCHANGED serial, Line' = Line
    PROVE  TerminalShows'
<1>1. Shown' = Shown
  BY Zenon DEF Shown, Five
<1> QED
  BY <1>1, Keeps

\* More parts that a step leaves.
LEMMA LineKept ==
    ASSUME UNCHANGED <<term, thr, out>>
    PROVE  Line' = Line
  BY DEF Line, Sending

LEMMA ReadingKept ==
    ASSUME UNCHANGED <<data, i>>
    PROVE  Reading' = Reading
  BY DEF Reading

LEMMA ReadingStarts ==
    ASSUME i' = 1
    PROVE  Reading' = <<>>
<1>1. \A s : SubSeq(s, 1, 1 - 1) = <<>>
  BY SubSeqEmpty
<1> QED
  BY <1>1 DEF Reading

\* Nothing is being read.
LEMMA NoReading ==
    ASSUME Course, ~ Flushing, ~ (over /\ program.ends = "prints")
    PROVE  Reading = <<>>
<1>1. data = <<>> /\ i = 1
  BY DEF Course, String
<1>2. \A s : SubSeq(s, 1, 1 - 1) = <<>>
  BY SubSeqEmpty
<1> QED
  BY <1>1, <1>2 DEF Reading

\* The characters before the next one, and that one.
LEMMA ReadTo ==
    ASSUME NEW C, NEW s \in Seq(C), NEW n \in 1 .. Len(s)
    PROVE  SubSeq(s, 1, n) = SubSeq(s, 1, n - 1) \o <<s[n]>>
<1>1. Len(s) \in Nat /\ n \in Nat /\ 1 \in 1 .. Len(s) + 1 /\ n - 1 \in 0 .. Len(s)
  OBVIOUS
<1> DEFINE a == SubSeq(s, 1, n)
           b == SubSeq(s, 1, n - 1)
           d == b \o <<s[n]>>
<1>2. a \in Seq(C) /\ Len(a) = n /\ \A j \in 1 .. n : a[j] = s[j]
  BY <1>1
<1>3. b \in Seq(C) /\ Len(b) = n - 1 /\ \A j \in 1 .. n - 1 : b[j] = s[j]
  BY <1>1
<1>4. s[n] \in C
  OBVIOUS
<1> HIDE DEF a, b
<1>5. d \in Seq(C) /\ Len(d) = n /\ d[n] = s[n] /\ \A j \in 1 .. n - 1 : d[j] = b[j]
  BY <1>1, <1>3, <1>4
<1> HIDE DEF d
<1>6. \A j \in 1 .. n : a[j] = d[j]
  <2>1. ASSUME NEW j \in 1 .. n PROVE a[j] = d[j]
    <3>1. j = n \/ j \in 1 .. n - 1
      BY <1>1
    <3> QED
      BY <1>2, <1>3, <1>5, <3>1
  <2> QED
    BY <2>1
<1>7. a = d
  BY <1>2, <1>5, <1>6, SeqEqual
<1> QED
  BY <1>7 DEF a, b, d

\* The greeting.
LEMMA BootShows ==
    ASSUME Course, Split, TerminalShows, Boot, HandedOver' = HandedOver
    PROVE  TerminalShows'
<1>1. /\ pc = "boot" /\ pc' = "lock" /\ caller = "boot" /\ caller' = "start"
      /\ out' = Written(Greeting) /\ out = <<>> /\ thr' = thr /\ term' = term
      /\ UNCHANGED <<program, serial, k, over, todo, buf, data, i, report>>
  BY DEF Boot, BeginPrintf, fixed, user, string, Course, Control
<1>2. ~ Flushing /\ ~ over /\ ~ Crashed /\ ~ Crashed' /\ todo = <<>> /\ buf = <<>>
  BY <1>1 DEF Flushing, Course, Control, Starting, Crashed
<1>3. Greeted = <<>> /\ Greeted' = Greeting /\ Refused = <<>> /\ Refused' = <<>>
  BY <1>1, <1>2 DEF Greeted, Refused
<1>4. Reading = <<>> /\ Reading' = <<>> /\ Reported = <<>> /\ Reported' = <<>>
  BY <1>1, <1>2, NoReading, ReadingKept, NotReported, NotReportedNext
<1>5. HandedOver = <<>>
  <2>1. k = 0
    BY <1>1 DEF Course, Control, Starting
  <2>2. [n \in 1 .. k |-> Meant(program.calls[n])] = <<>>
    BY <2>1
  <2>3. Put = <<>>
    BY <2>2, FlattenNone DEF Put
  <2>4. Put = <<>> \o buf \o todo
    BY <1>2, <2>3
  <2> QED
    BY <1>2, <2>4, EmptyText, HandedOverIs
<1>6. Shown = Five(<<>>, <<>>, <<>>, <<>>, <<>>)
      /\ Shown' = Five(Greeting, <<>>, <<>>, <<>>, <<>>)
  BY <1>3, <1>4, <1>5, Zenon DEF Shown, Five
<1>7. Five(<<>>, <<>>, <<>>, <<>>, <<>>) = <<>>
      /\ Five(Greeting, <<>>, <<>>, <<>>, <<>>) = Greeting /\ <<>> \o Greeting = Greeting
  BY FiveTexts, GreetingType, EmptyText, Nothing
<1>8. Shown' = Shown \o Greeting
  BY <1>6, <1>7
<1> QED
  BY <1>1, <1>8, GreetingType, Adds

\* The answer to an unknown system call.
LEMMA UnknownShows ==
    ASSUME Course, Split, TerminalShows, UnknownCall, HandedOver' = HandedOver
    PROVE  TerminalShows'
<1>1. /\ pc = "main" /\ pc' = "lock" /\ caller' = "main" /\ ~ over /\ over'
      /\ out' = Written(Unknown) /\ thr' = thr /\ term' = term /\ i' = 1
      /\ program.ends = "unknown" /\ UNCHANGED <<program, serial>>
  BY DEF UnknownCall, AtEnd, BeginPrintf, fixed, user, string
<1>2. ~ Flushing /\ ~ Crashed /\ ~ Crashed' /\ out = <<>>
  BY <1>1 DEF Flushing, Course, Control, Crashed
<1>3. Greeted' = Greeted /\ Refused = <<>> /\ Refused' = Unknown
  BY <1>1, <1>2 DEF Greeted, Refused
<1>4. Reading = <<>> /\ Reading' = <<>> /\ Reported = <<>> /\ Reported' = <<>>
  BY <1>1, <1>2, NoReading, ReadingStarts, NotReported, NotReportedNext
<1>5. Shown = Five(Greeted, HandedOver, <<>>, <<>>, <<>>)
      /\ Shown' = Five(Greeted, HandedOver, <<>>, Unknown, <<>>)
  BY <1>3, <1>4, Zenon DEF Shown, Five
<1>6. Five(Greeted, HandedOver, <<>>, Unknown, <<>>)
      = Five(Greeted, HandedOver, <<>>, <<>>, <<>>) \o Unknown
  <2>1. PICK g, h, t, e \in Texts : g = Greeted /\ h = HandedOver /\ t = Unknown /\ e = <<>>
    BY ShownParts, UnknownType, EmptyText
  <2>2. Five(g, h, e, t, e) = Join(Five(g, h, e, e, e), t)
    BY <2>1, FiveTexts
  <2> QED
    BY <2>1, <2>2, Zenon DEF Join
<1>7. Shown' = Shown \o Unknown
  BY <1>5, <1>6
<1> QED
  BY <1>1, <1>2, <1>7, UnknownType, Adds

\* One character of the string is shown as soon as its printf begins.
LEMMA CharacterShows ==
    ASSUME Course, Split, TerminalShows, PrintChar, data[i] # Unmapped,
           HandedOver' = HandedOver
    PROVE  TerminalShows'
<1>t. Types /\ Control /\ String
  BY DEF Course
<1> DEFINE c == data[i]
           t == <<c>>
<1>1. /\ pc = "print" /\ pc' = "lock" /\ caller' = caller /\ i <= Len(data) /\ i' = i + 1
      /\ out' = Written(Kvprintf(<<"%", "c">>, t))
      /\ UNCHANGED <<program, serial, over, data, term, thr>>
  BY DEF PrintChar, BeginPrintf, fixed, user
<1>2. c \in Chars /\ Kvprintf(<<"%", "c">>, t) = t
  BY <1>t, <1>1, ReadCharacter
<1>3. t \in Texts
  BY <1>2, Singles
<1>4. ~ Crashed /\ ~ Crashed' /\ out = <<>> /\ caller \in {"putc", "main"}
  BY <1>t, <1>1 DEF Control, Crashed
<1>5. i \in 1 .. Len(data) /\ Len(data) \in Nat
  BY <1>t, <1>1 DEF Types
<1>6. ~ (over /\ program.ends = "unknown")
  <2>1. SUFFICES ASSUME over /\ program.ends = "unknown" PROVE FALSE
    OBVIOUS
  <2>2. data = <<>>
    BY <1>t, <1>1, <2>1 DEF String
  <2>3. Len(data) = 0
    BY <2>2
  <2> QED
    BY <1>5, <2>3
<1>7. Greeted' = Greeted /\ Refused = <<>> /\ Refused' = <<>>
  BY <1>1, <1>6 DEF Greeted, Refused
<1>8. Reported = <<>> /\ Reported' = <<>>
  BY <1>4, NotReported, NotReportedNext
<1>9. Reading' = Reading \o t
  <2>1. data \in Seq(Chars \cup {Unmapped})
    BY <1>t DEF Types
  <2>2. SubSeq(data, 1, i) = SubSeq(data, 1, i - 1) \o <<data[i]>>
    BY <1>5, <2>1, ReadTo
  <2>3. i' - 1 = i
    BY <1>1, <1>5
  <2> QED
    BY <1>1, <2>2, <2>3 DEF Reading
<1> HIDE DEF t
<1>10. Shown = Five(Greeted, HandedOver, Reading, <<>>, <<>>)
       /\ Shown' = Five(Greeted, HandedOver, Reading \o t, <<>>, <<>>)
  BY <1>7, <1>8, <1>9, Zenon DEF Shown, Five
<1>11. Five(Greeted, HandedOver, Reading \o t, <<>>, <<>>)
       = Five(Greeted, HandedOver, Reading, <<>>, <<>>) \o t
  <2>1. PICK g, h, r, e \in Texts : g = Greeted /\ h = HandedOver /\ r = Reading /\ e = <<>>
    BY ShownParts, EmptyText
  <2>2. Five(g, h, Join(r, t), e, e) = Join(Five(g, h, r, e, e), t)
    BY <1>3, <2>1, FiveTexts
  <2> QED
    BY <2>1, <2>2, Zenon DEF Join
<1>12. Shown' = Shown \o t
  BY <1>10, <1>11
<1> QED
  BY <1>1, <1>2, <1>3, <1>4, <1>12, Adds

\* The first exception adds nothing yet.
LEMMA ExceptionShows ==
    ASSUME Course, Split, TerminalShows, HandedOver' = HandedOver, ~ Crashed,
           pc # "boot", pc' = "exc", Len(report') = 3,
           UNCHANGED <<program, serial, over, data, i, term, thr, out>>
    PROVE  TerminalShows'
<1>1. Greeted' = Greeted
  BY GreetedKept
<1>2. Refused' = Refused /\ Reading' = Reading /\ Line' = Line
  BY RefusedKept, ReadingKept, LineKept
<1>3. Reported = <<>> /\ Reported' = <<>>
  BY NotReported, ReportBegins
<1> QED
  BY <1>1, <1>2, <1>3, Still

\* The handler's next message, or the panic's.
LEMMA HandlerShows ==
    ASSUME Course, Split, TerminalShows, HandleExc, HandedOver' = HandedOver
    PROVE  TerminalShows'
<1>1. /\ pc = "exc" /\ Crashed /\ Crashed' /\ out = <<>> /\ pc' # "boot"
      /\ UNCHANGED <<program, serial, over, data, i, term, thr>>
  BY DEF HandleExc, BeginPrintf, fixed, user, string, Course, Control, Crashed
<1>2. Greeted' = Greeted /\ Refused' = Refused /\ Reading' = Reading
  BY <1>1, GreetedKept, RefusedKept, ReadingKept
<1>3. AllMessages' = AllMessages
  BY <1>1, Zenon DEF AllMessages
<1>4. AllMessages \in Seq(Texts) /\ Len(AllMessages) = 3 /\ Len(report) \in 0 .. 3
  BY <1>1, MessagesType, MessagesLeft DEF Course
<1> DEFINE A == AllMessages
           said == FlattenSeq(SubSeq(A, 1, 3 - Len(report)))
<1>5. PICK left \in 0 .. 3 : left = 3 - Len(report)
  <2>1. PICK n \in 0 .. 3 : n = Len(report)
    BY <1>4
  <2>2. 3 - n \in 0 .. 3
    OBVIOUS
  <2> QED
    BY <2>1, <2>2
<1>6. SubSeq(A, 1, 3 - Len(report)) \in Seq(Texts)
  <2>1. PICK a \in Seq(Texts) : a = A /\ Len(a) = 3
    BY <1>4
  <2>2. SubSeq(a, 1, left) \in Seq(Texts)
    BY <2>1
  <2> QED
    BY <1>5, <2>1, <2>2
<1>7. said \in Texts /\ Reported = said
  <2>1. Reported = said \o <<>>
    BY <1>1, <1>4 DEF Reported
  <2>2. said \in Texts
    BY <1>6, FlattenType DEF Texts
  <2> QED
    BY <2>1, <2>2, Nothing
<1>8. \E t \in Texts : out' = Written(t) /\ Reported' = said \o t
  <2>1. CASE report # <<>>
    <3>1. /\ Head(report) = A[4 - Len(report)] /\ 4 - Len(report) \in 1 .. 3
          /\ Head(report) \in Texts /\ Len(Tail(report)) = Len(report) - 1
      BY <1>1, <2>1, MessagesLeft DEF Course
    <3>2. out' = Written(Head(report)) /\ report' = Tail(report) /\ pc' = "lock"
      BY <2>1 DEF HandleExc, BeginPrintf
    <3>3. SubSeq(A, 1, 3 - Len(report')) = Append(SubSeq(A, 1, 3 - Len(report)), Head(report))
      <4>1. PICK a \in Seq(Texts) : a = A /\ Len(a) = 3
        BY <1>4
      <4>2. PICK n \in 0 .. 3 : n = Len(report)
        BY <1>4
      <4>3. n - 1 \in Int /\ 3 - (n - 1) = 4 - n /\ 4 - n \in 1 .. 3 /\ (4 - n) - 1 = 3 - n
            /\ 3 - n \in Int
        BY <3>1, <4>2
      <4>4. SubSeq(a, 1, 4 - n) = SubSeq(a, 1, (4 - n) - 1) \o <<a[4 - n]>>
        BY <4>1, <4>3, ReadTo
      <4>5. \A s \in Seq(Texts), x \in Texts : Append(s, x) = s \o <<x>>
        OBVIOUS
      <4>6. SubSeq(a, 1, 3 - n) \in Seq(Texts)
        BY <1>6, <4>1, <4>2
      <4>7. Head(report) = a[4 - n] /\ Head(report) \in Texts
        BY <3>1, <4>1, <4>2
      <4>8. Append(SubSeq(a, 1, 3 - n), Head(report)) = SubSeq(a, 1, 3 - n) \o <<Head(report)>>
        BY <4>5, <4>6, <4>7
      <4>9. SubSeq(a, 1, 4 - n) = Append(SubSeq(a, 1, 3 - n), Head(report))
        BY <4>3, <4>4, <4>7, <4>8
      <4>10. 3 - Len(report') = 4 - n
        BY <3>1, <3>2, <4>2, <4>3
      <4> QED
        BY <4>1, <4>2, <4>9, <4>10
    <3>4. FlattenSeq(SubSeq(A, 1, 3 - Len(report'))) = said \o Head(report)
      <4>1. PICK s : s = SubSeq(A, 1, 3 - Len(report))
        OBVIOUS
      <4>2. s \in Seq(Texts)
        BY <1>6, <4>1
      <4>3. FlattenSeq(Append(s, Head(report))) = FlattenSeq(s) \o Head(report)
        BY <3>1, <4>2, FlattenMore DEF Texts
      <4> QED
        BY <3>3, <4>1, <4>3
    <3>5. Reported' = (said \o Head(report)) \o <<>>
      BY <1>1, <1>3, <1>4, <3>2, <3>4 DEF Reported
    <3>6. Reported' = said \o Head(report)
      BY <1>7, <3>1, <3>5, Nothing, Concatenation
    <3> QED
      BY <3>1, <3>2, <3>6
  <2>2. CASE report = <<>>
    <3>1. out' = Written(PanicText) /\ report' = report /\ pc' = "panic"
      BY <2>2 DEF HandleExc
    <3>2. Reported' = said \o PanicText
      BY <1>1, <1>3, <1>4, <3>1 DEF Reported
    <3> QED
      BY <3>1, <3>2, PanicTextType
  <2> QED
    BY <2>1, <2>2
<1>9. PICK t \in Texts : out' = Written(t) /\ Reported' = said \o t
  BY <1>8
<1> HIDE DEF said
<1>10. Shown = Five(Greeted, HandedOver, Reading, Refused, said)
      /\ Shown' = Five(Greeted, HandedOver, Reading, Refused, said \o t)
  BY <1>2, <1>7, <1>9, Zenon DEF Shown, Five
<1>11. Shown' = Shown \o t
  <2>1. PICK g, h, r, u, m, e \in Texts :
            g = Greeted /\ h = HandedOver /\ r = Reading /\ u = Refused /\ m = said /\ e = <<>>
    BY <1>7, ShownParts, EmptyText
  <2>2. Five(g, h, r, u, Join(m, t)) = Join(Five(g, h, r, u, m), t)
    BY <2>1, FiveTexts
  <2> QED
    BY <1>10, <2>1, <2>2, Zenon DEF Join
<1> QED
  BY <1>1, <1>9, <1>11, Adds

\* The whole of a buffer is read: it counts as handed over.
LEMMA EmptiesShows ==
    ASSUME Course, Split, TerminalShows, Empties, HandedOver' = HandedOver \o buf
    PROVE  TerminalShows'
<1>t. Types /\ Control /\ String
  BY DEF Course
<1>1. /\ pc = "print" /\ caller = "putc" /\ i > Len(data) /\ pc' = "putc" /\ i' = 1
      /\ UNCHANGED <<program, serial, over, caller, term, thr, out>>
  BY DEF Empties, PrintReturns, fixed
<1>2. data = buf /\ ~ over
  BY <1>t, <1>1 DEF String, Flushing
<1>3. Reading = buf
  <2>1. buf \in Seq(Chars) /\ Len(buf) \in Nat /\ i \in 1 .. Len(buf) + 1
    BY <1>t, <1>2 DEF Types, Texts
  <2>2. i - 1 = Len(buf)
    BY <1>1, <1>2, <2>1
  <2>3. SubSeq(buf, 1, Len(buf)) = buf
    BY <2>1, SubSeqFull
  <2> QED
    BY <1>2, <2>2, <2>3 DEF Reading
<1>4. Reading' = <<>>
  BY <1>1, ReadingStarts
<1>5. Greeted' = Greeted /\ Refused = <<>> /\ Refused' = <<>>
  BY <1>1, <1>2 DEF Greeted, Refused
<1>6. Reported = <<>> /\ Reported' = <<>>
  BY <1>1, NotReported, NotReportedNext DEF Crashed
<1>7. Shown = Five(Greeted, HandedOver, buf, <<>>, <<>>)
      /\ Shown' = Five(Greeted, HandedOver \o buf, <<>>, <<>>, <<>>)
  BY <1>3, <1>4, <1>5, <1>6, Zenon DEF Shown, Five
<1>8. Shown' = Shown
  <2>1. PICK g, h, t, e \in Texts : g = Greeted /\ h = HandedOver /\ t = buf /\ e = <<>>
    BY <1>t, ShownParts, EmptyText DEF Types
  <2>2. Five(g, Join(h, t), e, e, e) = Five(g, h, t, e, e)
    BY <2>1, FiveTexts
  <2> QED
    BY <1>7, <2>1, <2>2, Zenon DEF Join
<1> QED
  BY <1>1, <1>8, LineKept, Keeps

\* On its way through the transmitter the line stays the same.
LEMMA WriteShows ==
    ASSUME Course, Split, TerminalShows, WriteReg \/ Transmit, HandedOver' = HandedOver
    PROVE  TerminalShows'
<1>t. Types /\ Control
  BY DEF Course
<1>1. /\ UNCHANGED <<program, serial, over, data, i, pc, caller, report>>
  BY DEF WriteReg, Transmit, fixed, user, string
<1>2. Greeted' = Greeted /\ Refused' = Refused /\ Reading' = Reading
  BY <1>1, RefusedKept, ReadingKept DEF Greeted
<1>3. Reported' = Reported
  <2>1. CASE Crashed
    BY <1>1, <2>1, ReportedKept DEF Crashed
  <2>2. CASE ~ Crashed
    BY <1>1, <2>2, NotReported, NotReportedNext DEF Crashed
  <2> QED
    BY <2>1, <2>2
<1>4. Line' = Line
  <2>1. CASE WriteReg
    <3>1. thr = None /\ out # <<>> /\ thr' = Head(out) /\ out' = Tail(out) /\ term' = term
      BY <2>1 DEF WriteReg
    <3>2. PICK c \in Chars, t \in Texts : c = Head(out) /\ t = Tail(out) /\ out = <<c>> \o t
      <4>1. Head(out) \in Chars /\ Tail(out) \in Texts /\ out = <<Head(out)>> \o Tail(out)
        BY <1>t, <3>1 DEF Types, Texts
      <4> QED
        BY <4>1
    <3>3. c # None
      BY OutputAssumption
    <3>4. Line = (term \o <<>>) \o (<<c>> \o t) /\ Line' = (term \o <<c>>) \o t
      BY <3>1, <3>2, <3>3 DEF Line, Sending
    <3>5. PICK x \in Texts : x = <<c>>
      BY Singles
    <3>6. PICK y \in Texts : y = term
      BY <1>t DEF Types
    <3>7. Join(y, Join(x, t)) = Join(Join(y, x), t)
      BY JoinFacts
    <3>8. y \o <<>> = y
      BY Nothing
    <3> QED
      BY <3>4, <3>5, <3>6, <3>7, <3>8, Zenon DEF Join
  <2>2. CASE Transmit
    <3>1. thr # None /\ thr' = None /\ term' = Append(term, thr) /\ out' = out
      BY <2>2 DEF Transmit
    <3>2. thr \in Chars /\ term \in Texts
      BY <1>t, <3>1 DEF Types
    <3>3. Append(term, thr) = term \o <<thr>>
      BY <3>2 DEF Texts
    <3>4. (term \o <<thr>>) \o <<>> = term \o <<thr>>
      BY <3>2, Singles, Concatenation, Nothing
    <3>5. Line = (term \o <<thr>>) \o out /\ Line' = (term' \o <<>>) \o out
      BY <3>1 DEF Line, Sending
    <3> QED
      BY <3>1, <3>3, <3>4, <3>5
  <2> QED
    BY <2>1, <2>2
<1> QED
  BY <1>1, <1>2, <1>3, <1>4, Still

\* What the rest of the steps leave as it was.
LEMMA OthersShow ==
    ASSUME Course, Split, TerminalShows, HandedOver' = HandedOver, pc # "boot",
           pc' # "boot", UNCHANGED <<program, serial, term, thr, out>>,
           UNCHANGED <<data, i>> \/ (Reading = <<>> /\ i' = 1),
           UNCHANGED over \/ program.ends # "unknown",
           \/ ~ Crashed /\ ~ Crashed'
           \/ /\ Crashed /\ Crashed' /\ UNCHANGED report
              /\ (pc \in {"panic", "stopped"} <=> pc' \in {"panic", "stopped"})
    PROVE  TerminalShows'
<1>1. Greeted' = Greeted /\ Line' = Line
  BY GreetedKept, LineKept
<1>2. Reading' = Reading
  BY ReadingKept, ReadingStarts
<1>3. Refused' = Refused
  BY DEF Refused
<1>4. Reported' = Reported
  <2>1. CASE Crashed
    BY <2>1, ReportedKept
  <2>2. CASE ~ Crashed
    BY <2>2, NotReported, NotReportedNext
  <2> QED
    BY <2>1, <2>2
<1> QED
  BY <1>1, <1>2, <1>3, <1>4, Still

\* Every step shows on the line what it should.
LEMMA TerminalNext ==
    ASSUME Course, Split, TerminalShows, [Next]_vars
    PROVE  TerminalShows'
<1>t. Types /\ Control
  BY DEF Course
<1>s. Empties => HandedOver' = HandedOver \o buf
  BY SplitNext
<1>k. ~ Empties => HandedOver' = HandedOver
  BY SplitNext
<1>e. pc # "print" => ~ Empties
  BY DEF Empties, PrintReturns
<1>l. \A name \in Texts, cr2 \in 0 .. Word - 1 : Len(ExcMessages(name, cr2)) = 3
  BY ExcMessagesType
<1>n. /\ <<"P">> \in Texts /\ <<"U">> \in Texts /\ <<"G">> \in Texts
      /\ 0 \in 0 .. Word - 1 /\ PageFaultAddr \in 0 .. Word - 1
  <2>1. Word \in Nat /\ Word > 4
    BY OutputAssumption, PrintfAssumption
  <2>2. 0 \in 0 .. Word - 1 /\ PageFaultAddr \in 0 .. Word - 1
    BY <2>1 DEF PageFaultAddr
  <2> QED
    BY <2>2, Letters, Singles
<1>f. /\ Len(ExcMessages(<<"P">>, PageFaultAddr)) = 3
      /\ Len(ExcMessages(<<"U">>, 0)) = 3 /\ Len(ExcMessages(<<"G">>, 0)) = 3
  BY <1>l, <1>n
<1>1. CASE Boot
  BY <1>1, <1>e, <1>k, BootShows DEF Boot
<1>2. CASE StartProgram
  <2>1. /\ pc = "start" /\ pc' = "main" /\ caller = "start"
        /\ UNCHANGED <<program, serial, over, data, i, caller, report, out, thr, term>>
    BY <1>2, <1>t DEF StartProgram, fixed, Kernel, string, Control
  <2>2. ~ Crashed /\ ~ Crashed'
    BY <2>1 DEF Crashed
  <2> QED
    BY <2>1, <2>2, <1>e, <1>k, OthersShow
<1>3. CASE CallPrintf
  <2>1. /\ pc = "main" /\ pc' \in {"putc", "ulock"}
        /\ UNCHANGED <<program, serial, over, data, i, caller, report, out, thr, term>>
    BY <1>3 DEF CallPrintf, fixed, Kernel, string
  <2>2. ~ Crashed /\ ~ Crashed'
    BY <1>t, <2>1 DEF Crashed, Control
  <2> QED
    BY <2>1, <2>2, <1>e, <1>k, OthersShow
<1>4. CASE UserLock
  <2>1. /\ pc = "ulock" /\ pc' = "putc"
        /\ UNCHANGED <<program, serial, over, data, i, caller, report, out, thr, term>>
    BY <1>4 DEF UserLock, fixed, user, Kernel, string
  <2>2. ~ Crashed /\ ~ Crashed'
    BY <1>t, <2>1 DEF Crashed, Control
  <2> QED
    BY <2>1, <2>2, <1>e, <1>k, OthersShow
<1>5. CASE putc
  <2>1. /\ pc = "putc" /\ UNCHANGED <<program, serial, over, report, out, thr, term>>
        /\ \/ pc' = pc /\ UNCHANGED <<data, i, caller>>
           \/ pc' = "print" /\ i' = 1 /\ caller' = "putc"
    BY <1>5 DEF putc, Sysenter, fixed, Kernel, string
  <2>2. ~ Crashed /\ ~ Crashed'
    BY <1>t, <2>1 DEF Crashed, Control
  <2>3. Reading = <<>>
    BY <1>t, <2>1, NoReading DEF Flushing, Control
  <2> QED
    BY <2>1, <2>2, <2>3, <1>e, <1>k, OthersShow
<1>6. CASE PrintfReturns
  <2>1. /\ pc = "putc" /\ pc' = "main"
        /\ UNCHANGED <<program, serial, over, data, i, caller, report, out, thr, term>>
    BY <1>6 DEF PrintfReturns, fixed, Kernel, string
  <2>2. ~ Crashed /\ ~ Crashed'
    BY <1>t, <2>1 DEF Crashed, Control
  <2> QED
    BY <2>1, <2>2, <1>e, <1>k, OthersShow
<1>7. CASE RawPrint
  <2>1. /\ pc = "main" /\ pc' = "print" /\ i' = 1 /\ ~ over /\ caller' = "main"
        /\ program.ends = "prints"
        /\ UNCHANGED <<program, serial, report, out, thr, term>>
    BY <1>7 DEF RawPrint, AtEnd, Sysenter, fixed
  <2>2. ~ Crashed /\ ~ Crashed'
    BY <1>t, <2>1 DEF Crashed, Control
  <2>3. Reading = <<>>
    BY <2>1, NoReading DEF Flushing
  <2> QED
    BY <2>1, <2>2, <2>3, <1>e, <1>k, OthersShow
<1>8. CASE UnknownCall
  BY <1>8, <1>e, <1>k, UnknownShows DEF UnknownCall, AtEnd
<1>9. CASE UserFault
  <2>1. /\ pc = "main" /\ pc' = "exc" /\ Len(report') = 3
        /\ UNCHANGED <<program, serial, over, data, i, out, thr, term>>
    BY <1>9, <1>f DEF UserFault, AtEnd, PageFault, Exception, fixed, user, string
  <2>2. ~ Crashed
    BY <1>t, <2>1 DEF Crashed, Control
  <2> QED
    BY <2>1, <2>2, <1>e, <1>k, ExceptionShows
<1>10. CASE MainReturns
  <2>1. /\ pc = "main" /\ pc' = "exc" /\ Len(report') = 3
        /\ UNCHANGED <<program, serial, over, data, i, out, thr, term>>
    BY <1>10, <1>f DEF MainReturns, AtEnd, UndefinedOpcode, Exception, fixed, user, string
  <2>2. ~ Crashed
    BY <1>t, <2>1 DEF Crashed, Control
  <2> QED
    BY <2>1, <2>2, <1>e, <1>k, ExceptionShows
<1>11. CASE UserShutdown
  <2>1. /\ pc = "putc" /\ pc' = "exc" /\ Len(report') = 3
        /\ UNCHANGED <<program, serial, over, data, i, out, thr, term>>
    BY <1>11, <1>f DEF UserShutdown, GeneralProtection, Exception, fixed, user, string
  <2>2. ~ Crashed
    BY <1>t, <2>1 DEF Crashed, Control
  <2> QED
    BY <2>1, <2>2, <1>e, <1>k, ExceptionShows
<1>12. CASE PrintChar
  <2>1. ~ Empties
    BY <1>12, <1>t DEF Empties, PrintReturns, PrintChar, Types
  <2>2. CASE data[i] = Unmapped
    <3>1. /\ pc = "print" /\ pc' = "exc" /\ Len(report') = 3
          /\ UNCHANGED <<program, serial, over, data, i, out, thr, term>>
      BY <1>12, <1>f, <2>2 DEF PrintChar, PageFault, Exception, fixed, user, string
    <3>2. ~ Crashed
      BY <1>t, <3>1 DEF Crashed, Control
    <3> QED
      BY <3>1, <3>2, <2>1, <1>k, ExceptionShows
  <2>3. CASE data[i] # Unmapped
    BY <1>12, <1>k, <2>1, <2>3, CharacterShows
  <2> QED
    BY <2>2, <2>3
<1>13. CASE PrintReturns
  <2>1. CASE Empties
    BY <1>s, <2>1, EmptiesShows
  <2>2. CASE ~ Empties
    <3>1. /\ pc = "print" /\ pc' = caller /\ caller # "putc"
          /\ UNCHANGED <<program, serial, over, data, i, caller, report, out, thr, term>>
      BY <1>13, <2>2 DEF Empties, PrintReturns, fixed
    <3>2. caller = "main" /\ ~ Crashed /\ ~ Crashed'
      BY <1>t, <3>1 DEF Crashed, Control
    <3> QED
      BY <3>1, <3>2, <2>2, <1>k, OthersShow
  <2> QED
    BY <2>1, <2>2
<1>14. CASE HandleExc
  BY <1>14, <1>e, <1>k, HandlerShows DEF HandleExc
<1>15. CASE Lock
  <2>1. /\ pc = "lock" /\ pc' = "out"
        /\ UNCHANGED <<program, serial, over, data, i, caller, report, out, thr, term>>
    BY <1>15 DEF Lock, fixed, user, string
  <2>2. (~ Crashed /\ ~ Crashed') \/ (Crashed /\ Crashed')
    BY <2>1 DEF Crashed
  <2> QED
    BY <2>1, <2>2, <1>e, <1>k, OthersShow
<1>16. CASE Unlock
  <2>1. /\ pc = "out" /\ pc' = IF caller \in {"start", "exc"} THEN caller ELSE "print"
        /\ UNCHANGED <<program, serial, over, data, i, caller, report, out, thr, term>>
    BY <1>16 DEF Unlock, fixed, user, string
  <2>2. (~ Crashed /\ ~ Crashed') \/ (Crashed /\ Crashed')
    BY <2>1 DEF Crashed
  <2> QED
    BY <2>1, <2>2, <1>e, <1>k, OthersShow
<1>17. CASE WriteReg \/ Transmit
  <2>1. ~ Empties
    <3>1. CASE WriteReg
      BY <3>1, <1>e DEF WriteReg
    <3>2. CASE Transmit
      BY <3>2 DEF Transmit, Empties, PrintReturns
    <3> QED
      BY <1>17, <3>1, <3>2
  <2> QED
    BY <1>17, <2>1, <1>k, WriteShows
<1>18. CASE Shutdown
  <2>1. /\ pc = "panic" /\ pc' = "stopped"
        /\ UNCHANGED <<program, serial, over, data, i, caller, report, out, thr, term>>
    BY <1>18 DEF Shutdown, fixed, user, string
  <2>2. Crashed /\ Crashed'
    BY <2>1 DEF Crashed
  <2> QED
    BY <2>1, <2>2, <1>e, <1>k, OthersShow
<1>19. CASE UNCHANGED vars
  <2>1. UNCHANGED <<program, serial, over, data, i, pc, caller, report, out, thr, term, k, todo, buf>>
    BY <1>19 DEF vars, user, string
  <2>2. HandedOver' = HandedOver
    BY <2>1, SplitSame
  <2>3. Greeted' = Greeted /\ Refused' = Refused /\ Reading' = Reading /\ Line' = Line
    BY <2>1, RefusedKept, ReadingKept, LineKept DEF Greeted
  <2>4. Reported' = Reported
    BY <2>1, ReportedKept, NotReported, NotReportedNext DEF Crashed
  <2> QED
    BY <2>1, <2>2, <2>3, <2>4, Still
<1> QED
  BY <1>1, <1>2, <1>3, <1>4, <1>5, <1>6, <1>7, <1>8, <1>9, <1>10, <1>11, <1>12, <1>13,
     <1>14, <1>15, <1>16, <1>17, <1>18, <1>19 DEF Next, Processor

\* At the start nothing is put and nothing shown.
LEMMA SplitInit ==
    ASSUME Init PROVE Split /\ TerminalShows
<1>1. /\ k = 0 /\ todo = <<>> /\ buf = <<>> /\ data = <<>> /\ i = 1 /\ pc = "boot"
      /\ caller = "boot" /\ out = <<>> /\ thr = None /\ term = <<>> /\ ~ over
  BY DEF Init
<1>2. HandedOver = <<>> /\ Put = <<>> \o buf \o todo
  <2>1. [n \in 1 .. k |-> Meant(program.calls[n])] = <<>>
    BY <1>1
  <2>2. Put = <<>>
    BY <2>1, FlattenNone DEF Put
  <2>3. Put = <<>> \o buf \o todo
    BY <1>1, <2>2
  <2> QED
    BY <1>1, <2>3, EmptyText, HandedOverIs
<1>3. Split
  BY <1>2, EmptyText DEF Split
<1>4. ~ Flushing /\ ~ Crashed
  BY <1>1 DEF Flushing, Crashed
<1>5. Course
  BY CourseInit
<1>6. Greeted = <<>> /\ Refused = <<>> /\ Reading = <<>> /\ Reported = <<>>
  BY <1>1, <1>4, <1>5, NoReading, NotReported DEF Greeted, Refused
<1>7. Shown = Five(<<>>, <<>>, <<>>, <<>>, <<>>)
  BY <1>2, <1>6, Zenon DEF Shown, Five
<1>8. Shown = <<>>
  BY <1>7, FiveTexts, EmptyText
<1>9. Line = <<>> \o <<>> \o <<>>
  BY <1>1 DEF Line, Sending
<1>10. Line = <<>>
  BY <1>9
<1>11. ToLine(serial, <<>>) = <<>>
  BY SerialNone DEF ToLine
<1> QED
  BY <1>3, <1>8, <1>10, <1>11, ShowsIs
-----------------------------------------------------------------------------
\* For every conversion vprintf promises to treat as C does, whatever its flags,
\* width, precision, size and argument, and whatever text is around it, vprintf
\* puts the characters C puts.
THEOREM ConversionIsC ==
    ASSUME NEW call, IsCall(call), Standard(call.spec)
    PROVE  /\ vprintf(FormatOf(call), call.spec.args)
                  = call.before \o CText(call.spec) \o call.after
           /\ vprintf(FormatOf(call), call.spec.args) \in Texts
<1>1. Meant(call) = call.before \o CText(call.spec) \o call.after
  BY Zenon DEF Meant
<1> QED
  BY <1>1, MeantIs

OutputInv == Course /\ Split /\ TerminalShows

\* In every reachable state of Output the variables have their types, control is
\* where callers and locks allow, the buffer holds less than BufSize characters of
\* an unfinished line unless it is being written, what the program put is what was
\* handed over and what was not, and the line shows it.
THEOREM OutputInvariant == Spec => []OutputInv
<1>1. Init => OutputInv
  BY CourseInit, SplitInit DEF OutputInv
<1>2. OutputInv /\ [Next]_vars => OutputInv'
  BY CourseNext, SplitNext, TerminalNext DEF OutputInv
<1> QED
  BY <1>1, <1>2, PTL DEF Spec

\* For every set of programs and calls, buffer and word size, what left the kernel
\* for the serial line (Console_serial::putc) is at every moment the greeting and
\* exactly the characters of the program's calls that were handed over, in order,
\* and the messages of handle_exc and panic.
THEOREM TerminalShowsAll == Spec => []TerminalShows
<1>1. OutputInv => TerminalShows
  BY DEF OutputInv
<1> QED
  BY <1>1, OutputInvariant, PTL

\* What Console_kernel still holds between calls, and when the machine stopped, is
\* less than a buffer of one unfinished line.
THEOREM LastLineOnly == Spec => []LosesOnlyLastLine
<1>1. OutputInv => LosesOnlyLastLine
  <2>1. SUFFICES ASSUME OutputInv PROVE LosesOnlyLastLine
    OBVIOUS
  <2>2. Held = buf
    BY <2>1, HandedOverIs DEF OutputInv, Course, Types, Split
  <2>3. pc \in {"main", "exc", "panic", "stopped"} => ~ Flushing
    BY DEF Flushing
  <2> QED
    BY <2>1, <2>2, <2>3 DEF OutputInv, Course, Buffer, LosesOnlyLastLine
<1> QED
  BY <1>1, OutputInvariant, PTL
=============================================================================
