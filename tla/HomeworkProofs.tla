---------------------------- MODULE HomeworkProofs -----------------------------
(***************************************************************************)
(* The two programs of hw4 and hw7 that compute with numbers.              *)
(*                                                                         *)
(* hw4, for any pairs of numbers, any number of them and a pipe of any     *)
(* size: nsd is the greatest common divisor and nd finds a divisor of any  *)
(* number that is not prime; every answer is right and to the pair at its  *)
(* place; and the parent says OK only when the last pair was answered.     *)
(*                                                                         *)
(* hw7, for any input and any reads: what is printed is the input's        *)
(* numbers in base 16, one after the other, and all of them at the end.    *)
(***************************************************************************)
EXTENDS ForkPipe, NumReader, FiniteSetTheorems, WellFoundedInduction, SequenceTheorems, TLAPS

(* Greatest elements *)

LEMMA LeastExists ==
    ASSUME NEW S \in SUBSET Nat, S # {}
    PROVE  \E x \in S : \A y \in S : x <= y
<1> DEFINE R == {ss \in Nat \X Nat : ss[1] < ss[2]}
<1>1. IsWellFoundedOn(R, Nat)
  BY Zenon, NatLessThanWellFounded DEF OpToRel
<1>2. S \subseteq Nat
  OBVIOUS
<1> HIDE DEF R
<1>3. PICK x \in S : \A y \in S : ~ (<<y, x>> \in R)
  BY <1>1, <1>2, WFMin
<1>4. ASSUME NEW y \in S
      PROVE  x <= y
  <2>1. x \in Nat /\ y \in Nat
    BY <1>2
  <2>2. ~ (y < x)
    BY <1>3, <2>1 DEF R
  <2>3. QED
    BY <2>1, <2>2
<1>5. QED
  BY <1>4

LEMMA GreatestExists ==
    ASSUME NEW S \in SUBSET Nat, S # {}, NEW n \in Nat, \A s \in S : s <= n
    PROVE  \E x \in S : \A y \in S : x >= y
<1> DEFINE T == {d \in Nat : n - d \in S}
<1>1. PICK s \in S : s \in Nat /\ s <= n
  OBVIOUS
<1>2. n - s \in Nat /\ n - (n - s) = s
  BY <1>1
<1>3. T # {} /\ T \in SUBSET Nat
  BY <1>1, <1>2
<1>4. PICK d \in T : \A e \in T : d <= e
  BY <1>3, LeastExists
<1>5. d \in Nat /\ n - d \in S
  BY <1>4
<1>6. ASSUME NEW y \in S
      PROVE  n - d >= y
  <2>1. y \in Nat /\ n - y \in Nat /\ n - (n - y) = y
    OBVIOUS
  <2>2. d <= n - y
    BY <1>4, <2>1
  <2>3. QED
    BY <1>5, <2>1, <2>2
<1>7. QED
  BY <1>5, <1>6

LEMMA MaxIs ==
    ASSUME NEW S \in SUBSET Nat, NEW x \in S, \A y \in S : x >= y
    PROVE  Max(S) = x
<1>1. Max(S) \in S /\ \A y \in S : Max(S) >= y
  BY DEF Max
<1>2. Max(S) \in Nat /\ x \in Nat /\ Max(S) >= x /\ x >= Max(S)
  BY <1>1
<1>3. QED
  BY <1>2
-----------------------------------------------------------------------------
(* The divisors *)

\* What a search down from start finds: the greatest, or where it began.
LEMMA SearchDownFinds ==
    ASSUME NEW start \in Nat, NEW S \in SUBSET (2 .. start)
    PROVE  /\ S # {} => /\ SearchDown(start, S) \in S
                        /\ \A r \in S : SearchDown(start, S) >= r
           /\ S = {} => SearchDown(start, S) = IF start = 0 THEN 0 ELSE 1
<1>1. S \cap (2 .. start) = S /\ S \in SUBSET Nat /\ \A r \in S : r <= start
  <2>1. \A r \in S : r \in 2 .. start
    OBVIOUS
  <2>2. \A r \in S : r \in Nat /\ r <= start
    BY <2>1
  <2>3. QED
    BY <2>1, <2>2
<1>2. CASE S # {}
  <2>1. PICK x \in S : \A y \in S : x >= y
    BY <1>1, <1>2, GreatestExists
  <2>2. Max(S) = x
    BY <1>1, <2>1, MaxIs
  <2>3. QED
    BY <1>1, <1>2, <2>1, <2>2 DEF SearchDown
<1>3. CASE S = {}
  <2>1. Min({start, 1}) \in {start, 1} /\ \A y \in {start, 1} : Min({start, 1}) <= y
    <3>1. \E x \in {start, 1} : \A y \in {start, 1} : x <= y
      OBVIOUS
    <3>2. QED
      BY <3>1 DEF Min
  <2>2. QED
    BY <1>1, <1>3, <2>1 DEF SearchDown
<1>4. QED
  BY <1>2, <1>3

\* A divisor of a positive number is no greater than it, and a proper one no
\* greater than half of it: nd may begin there.
LEMMA DivisorsAreSmall ==
    ASSUME NEW a \in Nat \ {0}, NEW r \in Nat \ {0}, a % r = 0
    PROVE  r <= a /\ (r < a => r <= a \div 2)
OBVIOUS

LEMMA MinOfTwo ==
    ASSUME NEW a \in Nat, NEW b \in Nat
    PROVE  Min({a, b}) = IF a <= b THEN a ELSE b
<1>1. Min({a, b}) \in {a, b} /\ \A y \in {a, b} : Min({a, b}) <= y
  <2>1. \E x \in {a, b} : \A y \in {a, b} : x <= y
    OBVIOUS
  <2>2. QED
    BY <2>1 DEF Min
<1>2. QED
  BY <1>1

LEMMA MaxOfTwo ==
    ASSUME NEW a \in Nat, NEW b \in Nat
    PROVE  Max({a, b}) = IF a <= b THEN b ELSE a
<1>1. CASE a <= b
  BY <1>1, MaxIs
<1>2. CASE ~ (a <= b)
  BY <1>2, MaxIs
<1>3. QED
  BY <1>1, <1>2

\* nd returns 1 for the primes and for 1 only: Prime, as the code tests it, is
\* what it is meant to be.
LEMMA PrimeIsPrime ==
    ASSUME NEW a \in Nat
    PROVE  Prime(a) <=> IsPrime(a)
<1>1. CASE a = 1
  BY <1>1 DEF Prime, IsPrime
<1>2. CASE a # 1
  <2> DEFINE half == a \div 2
             S    == {r \in 2 .. half : a % r = 0}
  <2>1. nd(a) = SearchDown(half, S) /\ half \in Nat /\ S \in SUBSET (2 .. half)
    <3>1. Abs(a) = a
      BY DEF Abs
    <3>2. nd(a) = SearchDown(half, S)
      BY <1>2, <3>1 DEF nd, Divides
    <3>3. QED
      BY <3>2
  <2>2. /\ S # {} => nd(a) \in S
        /\ S = {} => nd(a) = IF half = 0 THEN 0 ELSE 1
    BY <2>1, SearchDownFinds
  <2>3. CASE a = 0
    BY <2>2, <2>3 DEF Prime, IsPrime
  <2>4. CASE a # 0 /\ S # {}
    <3>1. PICK r \in S : TRUE
      BY <2>4
    <3>2. r \in 2 .. a - 1 /\ a % r = 0
      BY <2>4
    <3>3. nd(a) # 1
      BY <2>2, <2>4
    <3>4. QED
      BY <3>2, <3>3 DEF Prime, IsPrime
  <2>5. CASE a # 0 /\ S = {}
    <3>1. a > 1 /\ half # 0
      BY <1>2, <2>5
    <3>2. ASSUME NEW r \in 2 .. a - 1, a % r = 0
          PROVE  FALSE
      <4>1. r <= a \div 2 /\ r \in 2 .. a \div 2
        BY <3>1, <3>2, DivisorsAreSmall
      <4>2. r \in S
        BY <3>2, <4>1
      <4>3. QED
        BY <2>5, <4>2
    <3>3. QED
      BY <1>2, <2>2, <2>5, <3>1, <3>2 DEF Prime, IsPrime
  <2>6. QED
    BY <2>3, <2>4, <2>5
<1>3. QED
  BY <1>1, <1>2

\* nsd, which tries every number downwards from the smaller one, returns the
\* greatest common divisor of two positive numbers.
THEOREM NsdIsGcd ==
    ASSUME NEW a \in Nat \ {0}, NEW b \in Nat \ {0}
    PROVE  nsd(a, b) = GreatestCommonDivisor(a, b) /\ nsd(a, b) \in Nat
<1> DEFINE start == IF a <= b THEN a ELSE b
           S     == {r \in 2 .. start : a % r = 0 /\ b % r = 0}
           G     == {r \in 1 .. Max({a, b}) : a % r = 0 /\ b % r = 0}
<1>1. nsd(a, b) = SearchDown(start, S) /\ start \in Nat /\ start # 0
  <2>1. Abs(a) = a /\ Abs(b) = b
    BY DEF Abs
  <2>2. Min({a, b}) = start
    BY MinOfTwo
  <2>3. nsd(a, b) = SearchDown(start, S)
    BY <2>1, <2>2 DEF nsd, Divides
  <2>4. QED
    BY <2>3
<1>2. /\ S # {} => nsd(a, b) \in S /\ \A r \in S : nsd(a, b) >= r
      /\ S = {} => nsd(a, b) = 1
  <2>1. S \in SUBSET (2 .. start)
    OBVIOUS
  <2> HIDE DEF S, start
  <2>2. QED
    BY <1>1, <2>1, SearchDownFinds
<1>3. \A r \in Nat : r \in G <=> r = 1 \/ r \in S
  <2>1. Max({a, b}) = IF a <= b THEN b ELSE a
    BY MaxOfTwo
  <2>2. ASSUME NEW r \in G
        PROVE  r = 1 \/ r \in S
    <3>1. r \in Nat \ {0} /\ a % r = 0 /\ b % r = 0
      BY <2>1
    <3>2. r <= a /\ r <= b
      BY <3>1, DivisorsAreSmall
    <3>3. QED
      BY <3>1, <3>2
  <2>3. ASSUME NEW r \in S
        PROVE  r \in G
    BY <2>1
  <2>4. 1 \in G
    <3>1. a % 1 = 0 /\ b % 1 = 0
      OBVIOUS
    <3>2. QED
      BY <2>1, <3>1
  <2>5. QED
    BY <2>2, <2>3, <2>4
<1>4. S \subseteq Nat /\ G \subseteq Nat /\ \A r \in S : r > 1
  BY MaxOfTwo
<1> HIDE DEF S, G, start
<1>5. nsd(a, b) \in G /\ nsd(a, b) \in Nat /\ \A r \in G : nsd(a, b) >= r
  <2>1. CASE S # {}
    <3>1. nsd(a, b) \in Nat /\ nsd(a, b) \in G /\ nsd(a, b) > 1
      BY <1>2, <1>3, <1>4, <2>1
    <3>2. \A r \in G : r = 1 \/ r \in S
      BY <1>3, <1>4
    <3>3. QED
      BY <1>2, <2>1, <3>1, <3>2
  <2>2. CASE S = {}
    <3>1. G = {1}
      BY <1>3, <1>4, <2>2
    <3>2. QED
      BY <1>2, <2>2, <3>1
  <2>3. QED
    BY <2>1, <2>2
<1>6. Max(G) = nsd(a, b)
  BY <1>4, <1>5, MaxIs
<1>7. QED
  BY <1>5, <1>6 DEF GreatestCommonDivisor, G

\* Of a pair with a 0 nothing is said.
IsRight(pair, answer) ==
    pair[1] # 0 /\ pair[2] # 0 => answer = RightAnswer(pair[1], pair[2])

LEMMA AnswerIsRight ==
    ASSUME NEW a \in Nat, NEW b \in Nat
    PROVE  /\ a # 0 /\ b # 0 => Answer(a, b) = RightAnswer(a, b)
           /\ Answer(a, b) \in Int
<1>1. CASE IsPrime(a) /\ IsPrime(b)
  BY <1>1, PrimeIsPrime DEF Answer, RightAnswer, BothPrime
<1>2. CASE ~ (IsPrime(a) /\ IsPrime(b)) /\ (a = 0 \/ b = 0)
  <2>1. Min({a, b}) = 0
    BY <1>2, MinOfTwo
  <2>2. nsd(a, b) = SearchDown(0, {})
    BY <2>1 DEF nsd, Abs
  <2>3. SearchDown(0, {}) = 0
    BY SearchDownFinds
  <2>4. QED
    BY <1>2, <2>2, <2>3, PrimeIsPrime DEF Answer
<1>3. CASE ~ (IsPrime(a) /\ IsPrime(b)) /\ a # 0 /\ b # 0
  BY <1>3, NsdIsGcd, PrimeIsPrime DEF Answer, RightAnswer
<1>4. QED
  BY <1>1, <1>2, <1>3
-----------------------------------------------------------------------------
(* The processes *)

Sites == {"pipe", "forkGEN", "forkNSD", "close", "kill", "waitGEN", "waitNSD", "new",
          "signal", "redirect", "test", "write", "exec", "read", "gone"}

Types ==
    /\ pc \in [Processes -> Sites]
    /\ status \in [Children -> Int]
    /\ pipe \in Seq(Pairs) /\ sent \in Seq(Pairs) /\ answers \in Seq(Int)

\* The pairs sent are those answered and then those in the pipe, and the
\* answers are the right ones.
InOrder ==
    /\ Len(sent) = Len(answers) + Len(pipe)
    /\ \A k \in 1 .. Len(pipe) : pipe[k] = sent[Len(answers) + k]
    /\ \A k \in 1 .. Len(answers) : IsRight(sent[k], answers[k])

\* The end that GEN writes to is open while the parent may still fork, and
\* while GEN runs.
EndIsOpen ==
    /\ pc["parent"] \in {"forkGEN", "forkNSD", "close"} => "parent" \in writers
    /\ pc["GEN"] \notin {"new", "gone"} => "GEN" \in writers
    /\ pc["parent"] = "pipe" => pc["GEN"] = "new"

\* NSD ends well only at the end of the pipe, after which nobody writes.
EndsAtEnd ==
    /\ status["NSD"] = 0 => pc["NSD"] = "gone" /\ pipe = <<>> /\ writers = {}
    /\ result = 0 => status["NSD"] = 0
    /\ pc["parent"] = "pipe" => pc["NSD"] = "new"

Inv == Types /\ InOrder /\ EndIsOpen /\ EndsAtEnd

LEMMA Names ==
    /\ Processes = {"GEN", "NSD", "parent"} /\ Children = {"GEN", "NSD"}
    /\ Pairs \subseteq Nat \X Nat
BY ForkPipeAssumption DEF Processes, Children

LEMMA InitInv == Init => Inv
<1> SUFFICES ASSUME Init PROVE Inv
  OBVIOUS
<1>1. Types
  BY DEF Init, Types, Sites, Running
<1>2. InOrder
  BY DEF Init, InOrder
<1>3. EndIsOpen /\ EndsAtEnd
  BY Names DEF Init, EndIsOpen, EndsAtEnd, Running
<1>4. QED
  BY <1>1, <1>2, <1>3 DEF Inv

\* A step of the parent leaves the lines alone.
LEMMA ParentInv ==
    ASSUME Inv, Parent
    PROVE  Inv'
<1> USE Names
<1>1. Types /\ InOrder /\ EndIsOpen /\ EndsAtEnd
  BY DEF Inv
<1>2. UNCHANGED <<pipe, sent, answers>>
  BY DEF Parent, MakePipe, ForkGEN, ForkNSD, CloseEnds, Kill, WaitGEN, WaitNSD, Exit, Fork,
         history
<1>3. InOrder'
  BY <1>1, <1>2 DEF InOrder
<1>4. CASE MakePipe
  <2>1. Types'
    BY <1>1, <1>2, <1>4 DEF MakePipe, Exit, Goto, Types, Sites
  <2>2. EndIsOpen' /\ EndsAtEnd'
    <3>1. status["NSD"] # 0 /\ status' = status
      BY <1>1, <1>4 DEF MakePipe, Exit, EndsAtEnd
    <3>2. EndIsOpen'
      BY <1>1, <1>4 DEF MakePipe, Exit, Goto, Types, EndIsOpen
    <3>3. pc'["parent"] # "pipe" /\ result' # 0
      BY <1>1, <1>4, <3>1 DEF MakePipe, Exit, Goto, Types, EndsAtEnd
    <3>4. QED
      BY <3>1, <3>2, <3>3 DEF EndsAtEnd
  <2>3. QED
    BY <1>3, <2>1, <2>2 DEF Inv
<1>5. CASE ForkGEN
  <2>1. Types'
    BY <1>1, <1>2, <1>5 DEF ForkGEN, Fork, Exit, Goto, Types, Sites
  <2>2. EndIsOpen' /\ EndsAtEnd'
    BY <1>1, <1>2, <1>5 DEF ForkGEN, Fork, Exit, Goto, Types, EndIsOpen, EndsAtEnd
  <2>3. QED
    BY <1>3, <2>1, <2>2 DEF Inv
<1>6. CASE ForkNSD
  <2>1. Types'
    BY <1>1, <1>2, <1>6 DEF ForkNSD, Fork, Goto, Types, Sites
  <2>2. EndIsOpen' /\ EndsAtEnd'
    BY <1>1, <1>2, <1>6 DEF ForkNSD, Fork, Goto, Types, EndIsOpen, EndsAtEnd, ends
  <2>3. QED
    BY <1>3, <2>1, <2>2 DEF Inv
<1>7. CASE CloseEnds
  <2>1. Types'
    BY <1>1, <1>2, <1>7 DEF CloseEnds, Goto, Types, Sites
  <2>2. EndIsOpen' /\ EndsAtEnd'
    BY <1>1, <1>2, <1>7 DEF CloseEnds, Goto, Types, EndIsOpen, EndsAtEnd
  <2>3. QED
    BY <1>3, <2>1, <2>2 DEF Inv
<1>8. CASE Kill
  <2>1. Types'
    BY <1>1, <1>2, <1>8 DEF Kill, Goto, Types, Sites, ends
  <2>2. EndIsOpen' /\ EndsAtEnd'
    BY <1>1, <1>2, <1>8 DEF Kill, Goto, Types, EndIsOpen, EndsAtEnd, ends
  <2>3. QED
    BY <1>3, <2>1, <2>2 DEF Inv
<1>9. CASE WaitGEN
  <2>1. Types'
    BY <1>1, <1>2, <1>9 DEF WaitGEN, Goto, Types, Sites
  <2>2. EndIsOpen' /\ EndsAtEnd'
    BY <1>1, <1>2, <1>9 DEF WaitGEN, Goto, Types, EndIsOpen, EndsAtEnd, ends
  <2>3. QED
    BY <1>3, <2>1, <2>2 DEF Inv
<1>10. CASE WaitNSD
  <2>1. Types'
    BY <1>1, <1>2, <1>10 DEF WaitNSD, Exit, Goto, Types, Sites
  <2>2. EndIsOpen' /\ EndsAtEnd'
    BY <1>1, <1>2, <1>10 DEF WaitNSD, Verdict, Exit, Goto, Types, EndIsOpen, EndsAtEnd
  <2>3. QED
    BY <1>3, <2>1, <2>2 DEF Inv
<1>11. QED
  BY <1>4, <1>5, <1>6, <1>7, <1>8, <1>9, <1>10 DEF Parent

\* A pair that GEN writes comes behind all others.
LEMMA WrittenInOrder ==
    ASSUME Types, InOrder, NEW pair \in Pairs,
           pipe' = Append(pipe, pair), sent' = Append(sent, pair), answers' = answers
    PROVE  InOrder' /\ pipe' \in Seq(Pairs) /\ sent' \in Seq(Pairs)
<1>1. /\ pipe \in Seq(Pairs) /\ sent \in Seq(Pairs) /\ answers \in Seq(Int)
      /\ Len(pipe) \in Nat /\ Len(sent) \in Nat /\ Len(answers) \in Nat
  BY DEF Types
<1>2. /\ Len(pipe') = Len(pipe) + 1 /\ Len(sent') = Len(sent) + 1
      /\ pipe'[Len(pipe) + 1] = pair /\ sent'[Len(sent) + 1] = pair
      /\ \A k \in 1 .. Len(pipe) : pipe'[k] = pipe[k]
      /\ \A k \in 1 .. Len(sent) : sent'[k] = sent[k]
      /\ pipe' \in Seq(Pairs) /\ sent' \in Seq(Pairs)
  BY <1>1
<1>3. ASSUME NEW k \in 1 .. Len(pipe')
      PROVE  pipe'[k] = sent'[Len(answers') + k]
  <2>1. CASE k = Len(pipe) + 1
    BY <1>1, <1>2, <2>1 DEF InOrder
  <2>2. CASE k # Len(pipe) + 1
    <3>1. k \in 1 .. Len(pipe) /\ Len(answers) + k \in 1 .. Len(sent)
      BY <1>1, <1>2, <2>2 DEF InOrder
    <3>2. QED
      BY <1>2, <3>1 DEF InOrder
  <2>3. QED
    BY <2>1, <2>2
<1>4. ASSUME NEW k \in 1 .. Len(answers')
      PROVE  IsRight(sent'[k], answers'[k])
  <2>1. k \in 1 .. Len(answers) /\ k \in 1 .. Len(sent)
    BY <1>1 DEF InOrder
  <2>2. QED
    BY <1>2, <2>1 DEF InOrder
<1>5. Len(sent') = Len(answers') + Len(pipe')
  BY <1>1, <1>2 DEF InOrder
<1>6. QED
  BY <1>2, <1>3, <1>4, <1>5 DEF InOrder

\* NSD answers the pair that is next.
LEMMA AnsweredInOrder ==
    ASSUME Types, InOrder, AnswerPair
    PROVE  InOrder' /\ pipe' \in Seq(Pairs) /\ answers' \in Seq(Int)
<1> DEFINE pair == Head(pipe)
           ans  == Answer(pair[1], pair[2])
<1>1. /\ pipe \in Seq(Pairs) /\ sent \in Seq(Pairs) /\ answers \in Seq(Int)
      /\ Len(pipe) \in Nat \ {0} /\ Len(sent) \in Nat /\ Len(answers) \in Nat
      /\ pipe # <<>> /\ pipe' = Tail(pipe) /\ answers' = Append(answers, ans)
      /\ sent' = sent
  BY DEF Types, AnswerPair
<1>2. pair = pipe[1] /\ pair \in Pairs
  BY <1>1
<1>3. IsRight(pair, ans) /\ ans \in Int
  <2>1. pair[1] \in Nat /\ pair[2] \in Nat
    BY <1>2, Names
  <2>2. QED
    BY <2>1, AnswerIsRight DEF IsRight
<1>4. pair = sent[Len(answers) + 1]
  BY <1>1, <1>2 DEF InOrder
<1> HIDE DEF pair, ans
<1>5. /\ Len(pipe') = Len(pipe) - 1 /\ Len(answers') = Len(answers) + 1
      /\ answers'[Len(answers) + 1] = ans
      /\ \A k \in 1 .. Len(answers) : answers'[k] = answers[k]
      /\ \A k \in 1 .. Len(pipe) - 1 : pipe'[k] = pipe[k + 1]
      /\ pipe' \in Seq(Pairs) /\ answers' \in Seq(Int)
  BY <1>1, <1>3
<1>6. ASSUME NEW k \in 1 .. Len(pipe')
      PROVE  pipe'[k] = sent'[Len(answers') + k]
  <2>1. k + 1 \in 1 .. Len(pipe) /\ Len(answers) + (k + 1) = Len(answers') + k
    BY <1>1, <1>5
  <2>2. pipe[k + 1] = sent[Len(answers) + (k + 1)]
    BY <2>1 DEF InOrder
  <2>3. QED
    BY <1>1, <1>5, <2>1, <2>2
<1>7. ASSUME NEW k \in 1 .. Len(answers')
      PROVE  IsRight(sent'[k], answers'[k])
  <2>1. CASE k = Len(answers) + 1
    BY <1>1, <1>3, <1>4, <1>5, <2>1
  <2>2. CASE k # Len(answers) + 1
    <3>1. k \in 1 .. Len(answers)
      BY <1>1, <1>5, <2>2
    <3>2. QED
      BY <1>1, <1>5, <3>1 DEF InOrder
  <2>3. QED
    BY <2>1, <2>2
<1>8. Len(sent') = Len(answers') + Len(pipe')
  <2>1. Len(sent) = Len(answers) + Len(pipe)
    BY DEF InOrder
  <2>2. QED
    BY <1>1, <1>5, <2>1
<1>9. QED
  BY <1>5, <1>6, <1>7, <1>8 DEF InOrder

LEMMA GenerateInv ==
    ASSUME Inv, Generate
    PROVE  Inv'
<1> USE Names
<1>1. Types /\ InOrder /\ EndIsOpen /\ EndsAtEnd
  BY DEF Inv
<1>2. CASE UNCHANGED <<pipe, sent, answers>>
  <2>1. InOrder'
    BY <1>1, <1>2 DEF InOrder
  <2>2. Types'
    BY <1>1, <1>2 DEF Generate, InstallHandler, RedirectOut, TestSig, WritePair, Exit, Goto,
                      Types, Sites, ends
  <2>3. EndIsOpen' /\ EndsAtEnd'
    BY <1>1, <1>2 DEF Generate, InstallHandler, RedirectOut, TestSig, WritePair, Exit, Goto,
                      Types, EndIsOpen, EndsAtEnd, ends
  <2>4. QED
    BY <2>1, <2>2, <2>3 DEF Inv
<1>3. CASE ~ UNCHANGED <<pipe, sent, answers>>
  <2>1. /\ pc["GEN"] = "write" /\ pc' = [pc EXCEPT !["GEN"] = "test"]
        /\ UNCHANGED <<writers, status, result, answers>>
    BY <1>3 DEF Generate, InstallHandler, RedirectOut, TestSig, WritePair, Exit, Goto,
                ends, history
  <2>2. PICK pair \in Pairs : pipe' = Append(pipe, pair) /\ sent' = Append(sent, pair)
    BY <1>3 DEF Generate, InstallHandler, RedirectOut, TestSig, WritePair, Exit, history
  <2>3. InOrder' /\ pipe' \in Seq(Pairs) /\ sent' \in Seq(Pairs)
    BY <1>1, <2>1, <2>2, WrittenInOrder
  <2>4. Types'
    BY <1>1, <2>1, <2>3 DEF Types, Sites
  <2>5. EndIsOpen' /\ EndsAtEnd'
    BY <1>1, <2>1 DEF Types, EndIsOpen, EndsAtEnd
  <2>6. QED
    BY <2>3, <2>4, <2>5 DEF Inv
<1>4. QED
  BY <1>2, <1>3

LEMMA RespondInv ==
    ASSUME Inv, Respond
    PROVE  Inv'
<1> USE Names
<1>1. Types /\ InOrder /\ EndIsOpen /\ EndsAtEnd
  BY DEF Inv
<1>2. CASE RedirectIn \/ Exec \/ EndOfPipe
  <2>1. InOrder'
    BY <1>1, <1>2 DEF RedirectIn, Exec, EndOfPipe, Exit, history, InOrder
  <2>2. Types'
    BY <1>1, <1>2 DEF RedirectIn, Exec, EndOfPipe, Exit, Goto, Types, Sites, history
  <2>3. EndIsOpen' /\ EndsAtEnd'
    BY <1>1, <1>2 DEF RedirectIn, Exec, EndOfPipe, Exit, Goto, Types, EndIsOpen, EndsAtEnd,
                      ends
  <2>4. QED
    BY <2>1, <2>2, <2>3 DEF Inv
<1>3. CASE AnswerPair
  <2>1. InOrder' /\ pipe' \in Seq(Pairs) /\ answers' \in Seq(Int)
    BY <1>1, <1>3, AnsweredInOrder
  <2>2. Types'
    BY <1>1, <1>3, <2>1 DEF AnswerPair, Types
  <2>3. EndIsOpen' /\ EndsAtEnd'
    BY <1>1, <1>3 DEF AnswerPair, EndIsOpen, EndsAtEnd, ends
  <2>4. QED
    BY <2>1, <2>2, <2>3 DEF Inv
<1>4. QED
  BY <1>2, <1>3 DEF Respond

\* The inductive invariant of the three processes.
THEOREM Invariant == Spec => []Inv
<1>1. Init => Inv
  BY InitInv
<1>2. Inv /\ [Next]_vars => Inv'
  <2> SUFFICES ASSUME Inv, [Next]_vars PROVE Inv'
    OBVIOUS
  <2>1. CASE UNCHANGED vars
    BY <2>1 DEF vars, ends, history, Inv, Types, InOrder, EndIsOpen, EndsAtEnd
  <2>2. QED
    BY <2>1, ParentInv, GenerateInv, RespondInv DEF Next
<1>3. QED
  BY <1>1, <1>2, PTL DEF Spec

\* The parent's OK means that NSD answered all GEN wrote: NSD can only end
\* with status 0 at the end of the pipe, which does not come while GEN runs or
\* the parent may still fork.
THEOREM OkIsTrue == Spec => []OkMeansAnswered
<1>1. Inv => OkMeansAnswered
  BY DEF Inv, Types, InOrder, EndsAtEnd, OkMeansAnswered
<1>2. QED
  BY <1>1, Invariant, PTL

\* The k-th answer NSD writes is the right one to the k-th pair GEN wrote, if
\* that has no 0 in it.
THEOREM AnswersStayRight == Spec => []AnswersRight
<1>1. Inv => AnswersRight
  <2> SUFFICES ASSUME Inv PROVE AnswersRight
    OBVIOUS
  <2>1. DOMAIN answers = 1 .. Len(answers)
    BY DEF Inv, Types
  <2>2. \A k \in 1 .. Len(answers) : IsRight(sent[k], answers[k])
    BY DEF Inv, InOrder
  <2>3. QED
    BY <2>1, <2>2 DEF AnswersRight, IsRight
<1>2. QED
  BY <1>1, Invariant, PTL
-----------------------------------------------------------------------------
(* Numbers and their digits *)

\* Induction over a set of numbers, and from all smaller ones.
LEMMA SetInduction ==
    ASSUME NEW T, \A n \in Nat : (\A m \in Nat : m < n => m \in T) => n \in T
    PROVE  \A n \in Nat : n \in T
<1> DEFINE Bad == {n \in Nat : n \notin T}
<1> SUFFICES ASSUME Bad # {} PROVE FALSE
  OBVIOUS
<1>1. PICK m \in Bad : \A n \in Bad : m <= n
  BY LeastExists
<1>2. QED
  BY <1>1

LEMMA StepInduction ==
    ASSUME NEW T, 0 \in T, \A n \in Nat : n \in T => n + 1 \in T
    PROVE  \A n \in Nat : n \in T
<1>1. ASSUME NEW n \in Nat, \A m \in Nat : m < n => m \in T
      PROVE  n \in T
  <2>1. CASE n = 0
    BY <2>1
  <2>2. CASE n # 0
    <3>1. n - 1 \in Nat /\ n - 1 < n /\ n - 1 + 1 = n
      BY <2>2
    <3>2. QED
      BY <1>1, <3>1
  <2>3. QED
    BY <2>1, <2>2
<1>2. QED
  BY <1>1, SetInduction

\* u adds up the first n digits of d.
Sums(u, d, base, n) ==
    /\ u \in [0 .. n -> Nat] /\ u[0] = 0
    /\ \A j \in 1 .. n : u[j] = u[j - 1] * base + d[j]

LEMMA SumsExist ==
    ASSUME NEW base \in Nat, NEW d \in Seq(Nat)
    PROVE  \E u : Sums(u, d, base, Len(d))
<1> DEFINE T == {n \in Nat : n <= Len(d) => \E u : Sums(u, d, base, n)}
<1>1. 0 \in T
  <2>1. Sums([j \in 0 .. 0 |-> 0], d, base, 0)
    BY DEF Sums
  <2>2. QED
    BY <2>1
<1>2. ASSUME NEW n \in Nat, n \in T, n + 1 <= Len(d)
      PROVE  \E u : Sums(u, d, base, n + 1)
  <2>1. PICK u : Sums(u, d, base, n)
    BY <1>2
  <2>2. PICK new \in Nat : new = u[n] * base + d[n + 1]
    <3>1. u[n] \in Nat /\ d[n + 1] \in Nat
      BY <1>2, <2>1 DEF Sums
    <3>2. u[n] * base \in Nat
      BY <3>1
    <3>3. QED
      BY <3>1, <3>2
  <2> DEFINE v == [j \in 0 .. n + 1 |-> IF j <= n THEN u[j] ELSE new]
  <2>3. v \in [0 .. n + 1 -> Nat] /\ v[0] = 0
    BY <2>1, <2>2 DEF Sums
  <2>4. ASSUME NEW j \in 1 .. n + 1
        PROVE  v[j] = v[j - 1] * base + d[j]
    <3>1. CASE j <= n
      <4>1. v[j] = u[j] /\ v[j - 1] = u[j - 1] /\ j \in 1 .. n
        BY <3>1
      <4>2. QED
        BY <2>1, <4>1 DEF Sums
    <3>2. CASE j = n + 1
      <4>1. v[j] = new /\ v[j - 1] = u[n]
        BY <3>2
      <4>2. QED
        BY <2>2, <3>2, <4>1
    <3>3. QED
      BY <3>1, <3>2
  <2> HIDE DEF v
  <2>5. Sums(v, d, base, n + 1)
    BY <2>3, <2>4 DEF Sums
  <2>6. QED
    BY <2>5
<1>3. \A n \in Nat : n \in T => n + 1 \in T
  BY <1>2
<1> HIDE DEF T
<1>4. \A n \in Nat : n \in T
  BY <1>1, <1>3, StepInduction
<1>5. QED
  BY <1>4 DEF T

\* Digital adds up its digits from the first to the last.
LEMMA DigitalIs ==
    ASSUME NEW base, NEW d, Len(d) \in Nat, NEW u, Sums(u, d, base, Len(d))
    PROVE  Digital(d, base) = u[Len(d)]
<1> DEFINE L == Len(d)
           Rec(f) == [n \in 0 .. L |-> IF n = 0 THEN 0 ELSE f[n - 1] * base + d[n]]
           f0 == CHOOSE f : f = Rec(f)
<1>1. u = Rec(u)
  <2>1. \A n \in 0 .. L : u[n] = IF n = 0 THEN 0 ELSE u[n - 1] * base + d[n]
    BY DEF Sums
  <2>2. u = [n \in 0 .. L |-> u[n]]
    BY DEF Sums
  <2> HIDE DEF L
  <2>3. QED
    BY <2>1, <2>2
<1>2. f0 = Rec(f0)
  BY <1>1
<1>3. Digital(d, base) = f0[L]
  BY DEF Digital, f0
<1> HIDE DEF f0
<1>4. \A n \in 0 .. L : f0[n] = IF n = 0 THEN 0 ELSE f0[n - 1] * base + d[n]
  BY <1>2
<1> DEFINE T == {n \in Nat : n <= L => f0[n] = u[n]}
<1>5. 0 \in T
  BY <1>4 DEF Sums
<1>6. ASSUME NEW n \in Nat, n \in T
      PROVE  n + 1 \in T
  <2> SUFFICES ASSUME n + 1 <= L PROVE f0[n + 1] = u[n + 1]
    OBVIOUS
  <2>1. n + 1 \in 0 .. L /\ n + 1 # 0 /\ n + 1 - 1 = n /\ n + 1 \in 1 .. Len(d)
    OBVIOUS
  <2>2. f0[n + 1] = f0[n] * base + d[n + 1]
    BY <1>4, <2>1
  <2>3. u[n + 1] = u[n] * base + d[n + 1]
    BY <2>1 DEF Sums
  <2>4. f0[n] = u[n]
    BY <1>6
  <2>5. QED
    BY <2>2, <2>3, <2>4
<1> HIDE DEF T
<1>7. \A n \in Nat : n \in T
  BY <1>5, <1>6, StepInduction
<1>8. QED
  BY <1>3, <1>7 DEF T

LEMMA DigitalAppend ==
    ASSUME NEW base \in Nat, NEW d \in Seq(Nat), NEW c \in Nat
    PROVE  /\ Digital(d, base) \in Nat
           /\ Digital(Append(d, c), base) = Digital(d, base) * base + c
<1> DEFINE e == Append(d, c)
<1>1. e \in Seq(Nat) /\ Len(e) = Len(d) + 1 /\ Len(d) \in Nat
  OBVIOUS
<1>2. e[Len(d) + 1] = c /\ \A j \in 1 .. Len(d) : e[j] = d[j]
  OBVIOUS
<1> HIDE DEF e
<1>3. PICK u : Sums(u, e, base, Len(e))
  BY <1>1, SumsExist
<1>4. u \in [0 .. Len(d) + 1 -> Nat] /\ u[0] = 0
      /\ \A j \in 1 .. Len(d) + 1 : u[j] = u[j - 1] * base + e[j]
  BY <1>1, <1>3 DEF Sums
<1> DEFINE v == [j \in 0 .. Len(d) |-> u[j]]
<1>5. Sums(v, d, base, Len(d))
  <2>1. \A j \in 1 .. Len(d) : v[j] = u[j] /\ v[j - 1] = u[j - 1] /\ u[j] = u[j - 1] * base + d[j]
    BY <1>1, <1>2, <1>4
  <2>2. v \in [0 .. Len(d) -> Nat] /\ v[0] = 0
    BY <1>1, <1>4
  <2> HIDE DEF v
  <2>3. QED
    BY <2>1, <2>2 DEF Sums
<1>6. Digital(d, base) = u[Len(d)] /\ Digital(e, base) = u[Len(d) + 1]
  <2>1. Digital(e, base) = u[Len(e)]
    BY <1>1, <1>3, DigitalIs
  <2>2. v[Len(d)] = u[Len(d)]
    BY <1>1
  <2> HIDE DEF v
  <2>3. Digital(d, base) = v[Len(d)]
    BY <1>1, <1>5, DigitalIs
  <2>4. QED
    BY <1>1, <2>1, <2>2, <2>3
<1>7. u[Len(d)] \in Nat /\ u[Len(d) + 1] = u[Len(d)] * base + c
  <2>1. Len(d) + 1 \in 1 .. Len(d) + 1 /\ Len(d) + 1 - 1 = Len(d)
    BY <1>1
  <2>2. PICK q \in Nat : q = Len(d) + 1
    BY <1>1
  <2>3. u[q] = u[q - 1] * base + e[q] /\ q - 1 = Len(d)
    BY <1>1, <1>4, <2>1, <2>2
  <2>4. u[Len(d)] \in Nat
    BY <1>1, <1>4
  <2>5. QED
    BY <1>2, <2>2, <2>3, <2>4
<1>8. QED
  BY <1>6, <1>7 DEF e

LEMMA DigitalEmpty ==
    ASSUME NEW base \in Nat PROVE Digital(<<>>, base) = 0
<1>1. Sums([j \in 0 .. 0 |-> 0], <<>>, base, Len(<<>>))
  BY DEF Sums
<1>2. QED
  BY <1>1, DigitalIs

\* Digits in base 16, and what is left of the number without the last one.
LEMMA HexQuotient ==
    ASSUME NEW n \in Nat
    PROVE  /\ n \div 16 \in Nat /\ n % 16 \in 0 .. 15
           /\ n = (n \div 16) * 16 + (n % 16)
           /\ n > 0 => n \div 16 < n
OBVIOUS

LowDigit(n, higher) == IF n = 0 THEN <<>> ELSE <<n % 16>> \o higher

LowDigitsUpTo(g, m) == g = [n \in 0 .. m |-> LowDigit(n, g[n \div 16])]

LEMMA LowDigitZero == \A x : LowDigit(0, x) = <<>>
BY DEF LowDigit

LEMMA LowDigitsUpToExist == \A m \in Nat : \E g : LowDigitsUpTo(g, m)
<1> DEFINE T == {m \in Nat : \E g : LowDigitsUpTo(g, m)}
<1>1. 0 \in T
  <2> DEFINE g == [n \in 0 .. 0 |-> <<>>]
  <2>1. \A n \in 0 .. 0 : g[n] = LowDigit(n, g[n \div 16])
    BY LowDigitZero
  <2>2. g = [n \in 0 .. 0 |-> LowDigit(n, g[n \div 16])]
    BY <2>1
  <2> HIDE DEF g
  <2>3. LowDigitsUpTo(g, 0)
    BY <2>2 DEF LowDigitsUpTo
  <2>4. QED
    BY <2>3
<1>2. ASSUME NEW m \in Nat, m \in T
      PROVE  m + 1 \in T
  <2>1. PICK g : LowDigitsUpTo(g, m)
    BY <1>2
  <2> DEFINE new == LowDigit(m + 1, g[(m + 1) \div 16])
             h == [n \in 0 .. m + 1 |-> IF n <= m THEN g[n] ELSE new]
  <2>2. \A n \in 0 .. m : g[n] = LowDigit(n, g[n \div 16])
    BY <2>1 DEF LowDigitsUpTo
  <2> HIDE DEF new
  <2>3. ASSUME NEW n \in 0 .. m + 1
        PROVE  h[n] = LowDigit(n, h[n \div 16])
    <3>1. CASE n = 0
      <4>1. h[0] = g[0] /\ g[0] = LowDigit(0, g[0 \div 16])
        BY <2>2
      <4>2. QED
        BY <3>1, <4>1, LowDigitZero
    <3>2. CASE n > 0
      <4>1. n \div 16 \in 0 .. m
        BY <3>2, HexQuotient
      <4>2. h[n \div 16] = g[n \div 16]
        BY <4>1
      <4>3. n <= m => h[n] = LowDigit(n, g[n \div 16])
        BY <2>2
      <4>4. n = m + 1 => h[n] = LowDigit(n, g[n \div 16])
        BY DEF new
      <4>5. QED
        BY <4>2, <4>3, <4>4
    <3>3. QED
      BY <3>1, <3>2
  <2>4. h = [n \in 0 .. m + 1 |-> LowDigit(n, h[n \div 16])]
    BY <2>3
  <2> HIDE DEF h
  <2>5. QED
    BY <2>4 DEF LowDigitsUpTo
<1> HIDE DEF T
<1>3. \A m \in Nat : m \in T
  BY <1>1, <1>2, StepInduction
<1>4. QED
  BY <1>3 DEF T

LEMMA LowDigitsUpToAgree ==
    ASSUME NEW m \in Nat, NEW q \in Nat, NEW g, NEW h,
           LowDigitsUpTo(g, m), LowDigitsUpTo(h, q)
    PROVE  \A n \in Nat : n <= m /\ n <= q => g[n] = h[n]
<1> DEFINE T == {n \in Nat : n <= m /\ n <= q => g[n] = h[n]}
<1>1. /\ \A n \in 0 .. m : g[n] = LowDigit(n, g[n \div 16])
      /\ \A n \in 0 .. q : h[n] = LowDigit(n, h[n \div 16])
  BY DEF LowDigitsUpTo
<1>2. ASSUME NEW n \in Nat, \A j \in Nat : j < n => j \in T
      PROVE  n \in T
  <2>1. CASE n = 0
    <3>1. LowDigit(n, g[n \div 16]) = LowDigit(n, h[n \div 16])
      BY <2>1, LowDigitZero
    <3>2. QED
      BY <1>1, <3>1
  <2>2. CASE n > 0
    <3>1. n \div 16 \in Nat /\ n \div 16 < n
      BY <2>2, HexQuotient
    <3>2. n \div 16 \in T
      BY <1>2, <3>1
    <3>3. QED
      BY <1>1, <3>1, <3>2
  <2>3. QED
    BY <2>1, <2>2
<1> HIDE DEF T
<1>3. \A n \in Nat : n \in T
  BY <1>2, SetInduction
<1>4. QED
  BY <1>3 DEF T

\* The recursion of LowDigits has a solution, so LowDigits is one.
LEMMA LowDigitsIs == \A n \in Nat : LowDigits[n] = LowDigit(n, LowDigits[n \div 16])
<1> DEFINE Rec(f) == [n \in Nat |-> LowDigit(n, f[n \div 16])]
           G(n) == CHOOSE g : LowDigitsUpTo(g, n)
           d == [n \in Nat |-> G(n)[n]]
           f0 == CHOOSE f : f = Rec(f)
<1>1. \A n \in Nat : LowDigitsUpTo(G(n), n)
  BY LowDigitsUpToExist
<1>2. ASSUME NEW n \in Nat
      PROVE  d[n] = LowDigit(n, d[n \div 16])
  <2>1. G(n)[n] = LowDigit(n, G(n)[n \div 16])
    <3>1. LowDigitsUpTo(G(n), n)
      BY <1>1
    <3> HIDE DEF G
    <3>2. \A j \in 0 .. n : G(n)[j] = LowDigit(j, G(n)[j \div 16])
      BY <3>1 DEF LowDigitsUpTo
    <3>3. QED
      BY <3>2
  <2>2. CASE n = 0
    <3> HIDE DEF G
    <3>1. QED
      BY <2>1, <2>2, LowDigitZero
  <2>3. CASE n > 0
    <3>1. n \div 16 \in Nat /\ n \div 16 <= n
      BY <2>3, HexQuotient
    <3>2. LowDigitsUpTo(G(n), n) /\ LowDigitsUpTo(G(n \div 16), n \div 16)
      BY <1>1, <3>1
    <3> HIDE DEF G
    <3>3. G(n)[n \div 16] = G(n \div 16)[n \div 16]
      BY <3>1, <3>2, LowDigitsUpToAgree
    <3>4. QED
      BY <2>1, <3>1, <3>3
  <2>4. QED
    BY <2>2, <2>3
<1> HIDE DEF d
<1>3. d = Rec(d)
  <2>1. d = [n \in Nat |-> d[n]]
    BY DEF d
  <2>2. QED
    BY <1>2, <2>1
<1>4. f0 = Rec(f0)
  BY <1>3
<1>5. \A n \in Nat : f0[n] = LowDigit(n, f0[n \div 16])
  <2> HIDE DEF f0
  <2>1. QED
    BY <1>4
<1>6. LowDigits = f0
  BY DEF LowDigits, LowDigit
<1> HIDE DEF f0
<1>7. QED
  BY <1>5, <1>6

LEMMA HexSequence == \A s \in Seq(0 .. 15) : s \in Seq(Nat)
<1>1. 0 .. 15 \subseteq Nat
  OBVIOUS
<1>2. QED
  BY <1>1, SeqMonotonic

LEMMA ReverseWith ==
    ASSUME NEW s \in Seq(Nat), NEW c \in Nat
    PROVE  Reverse(<<c>> \o s) = Append(Reverse(s), c)
<1> DEFINE t == <<c>> \o s
           r == Reverse(s)
<1>1. /\ t \in Seq(Nat) /\ Len(t) = Len(s) + 1 /\ Len(s) \in Nat
      /\ t[1] = c /\ \A j \in 1 .. Len(s) : t[j + 1] = s[j]
  OBVIOUS
<1>2. r \in Seq(Nat) /\ Len(r) = Len(s) /\ \A j \in 1 .. Len(s) : r[j] = s[Len(s) - j + 1]
  <2>1. \A j \in 1 .. Len(s) : s[Len(s) - j + 1] \in Nat
    BY <1>1
  <2>2. r = [j \in 1 .. Len(s) |-> s[(Len(s) - j) + 1]]
    BY DEF Reverse
  <2> HIDE DEF r
  <2>3. r \in [1 .. Len(s) -> Nat]
    BY <2>1, <2>2
  <2>4. QED
    BY <1>1, <2>2, <2>3
<1> HIDE DEF t, r
<1>3. \A j \in 1 .. Len(s) + 1 : t[Len(s) + 1 - j + 1] = IF j = Len(s) + 1 THEN c ELSE r[j]
  <2>1. ASSUME NEW j \in 1 .. Len(s) + 1, j # Len(s) + 1
        PROVE  t[Len(s) + 1 - j + 1] = r[j]
    <3>1. Len(s) - j + 1 \in 1 .. Len(s) /\ j \in 1 .. Len(s)
          /\ Len(s) - j + 1 + 1 = Len(s) + 1 - j + 1
      BY <1>1, <2>1
    <3>2. QED
      BY <1>1, <1>2, <3>1
  <2>2. QED
    BY <1>1, <2>1
<1>4. Reverse(t) = [j \in 1 .. Len(s) + 1 |-> t[Len(s) + 1 - j + 1]]
  BY <1>1 DEF Reverse
<1>5. Append(r, c) = [j \in 1 .. Len(s) + 1 |-> IF j = Len(s) + 1 THEN c ELSE r[j]]
  <2>0. r \in Seq(Nat)
    BY <1>2
  <2>1. PICK a \in Seq(Nat) : a = Append(r, c)
    BY <2>0, AppendProperties
  <2>2. Len(a) = Len(s) + 1
    BY <1>2, <2>0, <2>1
  <2>3. \A j \in 1 .. Len(s) + 1 : a[j] = IF j = Len(s) + 1 THEN c ELSE r[j]
    BY <1>1, <1>2, <2>0, <2>1
  <2>4. a = [j \in 1 .. Len(a) |-> a[j]]
    OBVIOUS
  <2>5. QED
    BY <2>1, <2>2, <2>3, <2>4
<1>6. QED
  BY <1>3, <1>4, <1>5 DEF t, r

\* What print puts between prefix and newline is the number in base 16.
LEMMA HexIsHex ==
    ASSUME NEW n \in Nat
    PROVE  IsHex(HexDigits(n), n)
<1> DEFINE Hex(m) == /\ LowDigits[m] \in Seq(0 .. 15)
                     /\ Reverse(LowDigits[m]) \in Seq(0 .. 15)
                     /\ Digital(Reverse(LowDigits[m]), 16) = m
                     /\ m = 0 => Reverse(LowDigits[m]) = <<>>
                     /\ m # 0 => Reverse(LowDigits[m]) # <<>> /\ Reverse(LowDigits[m])[1] # 0
           T == {m \in Nat : Hex(m)}
<1>1. ASSUME NEW m \in Nat, \A j \in Nat : j < m => j \in T
      PROVE  Hex(m)
  <2>1. CASE m = 0
    <3>1. LowDigits[m] = <<>>
      BY <2>1, LowDigitsIs, LowDigitZero
    <3>2. Reverse(<<>>) = <<>>
      BY DEF Reverse
    <3>3. <<>> \in Seq(0 .. 15) /\ Digital(<<>>, 16) = 0
      BY DigitalEmpty
    <3>4. QED
      BY <2>1, <3>1, <3>2, <3>3
  <2>2. CASE m # 0
    <3>1. PICK q \in Nat, r \in 0 .. 15 :
              q = m \div 16 /\ r = m % 16 /\ m = q * 16 + r /\ q < m
      BY <2>2, HexQuotient
    <3>2. Hex(q)
      BY <1>1, <3>1
    <3>3. PICK s \in Seq(0 .. 15) : s = LowDigits[q]
      BY <3>2
    <3>4. LowDigits[m] = <<r>> \o s
      BY <2>2, <3>1, <3>3, LowDigitsIs DEF LowDigit
    <3>5. PICK t \in Seq(0 .. 15) : t = Reverse(s)
      BY <3>2, <3>3
    <3>6. s \in Seq(Nat) /\ t \in Seq(Nat) /\ r \in Nat
      BY HexSequence
    <3>7. Reverse(LowDigits[m]) = Append(t, r)
      BY <3>4, <3>5, <3>6, ReverseWith
    <3>8. Digital(Append(t, r), 16) = Digital(t, 16) * 16 + r
      BY <3>6, DigitalAppend
    <3>9. Digital(t, 16) = q
      BY <3>2, <3>3, <3>5
    <3>10. <<r>> \o s \in Seq(0 .. 15) /\ Append(t, r) \in Seq(0 .. 15) /\ Append(t, r) # <<>>
      OBVIOUS
    <3>11. Append(t, r)[1] # 0
      <4>1. CASE q = 0
        <5>1. t = <<>>
          BY <3>2, <3>3, <3>5, <4>1
        <5>2. r # 0
          BY <2>2, <3>1, <4>1
        <5>3. QED
          BY <5>1, <5>2
      <4>2. CASE q # 0
        <5>1. t # <<>> /\ t[1] # 0
          BY <3>2, <3>3, <3>5, <4>2
        <5>2. Append(t, r)[1] = t[1]
          BY <5>1
        <5>3. QED
          BY <5>1, <5>2
      <4>3. QED
        BY <4>1, <4>2
    <3>12. QED
      BY <2>2, <3>1, <3>4, <3>7, <3>8, <3>9, <3>10, <3>11
  <2>3. QED
    BY <2>1, <2>2
<1>2. \A m \in Nat : (\A j \in Nat : j < m => j \in T) => m \in T
  BY <1>1
<1>3. \A m \in Nat : m \in T
  <2> HIDE DEF T
  <2>1. QED
    BY <1>2, SetInduction
<1>4. Hex(n)
  BY <1>3
<1> HIDE DEF T
<1>5. CASE n = 0
  <2>1. HexDigits(n) = Append(<<>>, 0)
    BY <1>5 DEF HexDigits
  <2>2. Digital(Append(<<>>, 0), 16) = Digital(<<>>, 16) * 16 + 0
    <3>1. <<>> \in Seq(Nat)
      OBVIOUS
    <3>2. QED
      BY <3>1, DigitalAppend
  <2>3. Digital(HexDigits(n), 16) = 0
    BY <2>1, <2>2, DigitalEmpty
  <2>4. Append(<<>>, 0) \in Seq(0 .. 15) /\ Append(<<>>, 0) # <<>> /\ Len(Append(<<>>, 0)) = 1
    OBVIOUS
  <2>5. QED
    BY <1>5, <2>1, <2>3, <2>4 DEF IsHex
<1>6. CASE n # 0
  BY <1>4, <1>6 DEF IsHex, HexDigits
<1>7. QED
  BY <1>5, <1>6

\* A number that wraps at every digit is the whole number, wrapped once.
LEMMA QuotientOf ==
    ASSUME NEW w \in Nat \ {0}, NEW z \in Nat
    PROVE  z \div w \in Nat /\ z % w \in 0 .. w - 1 /\ z = w * (z \div w) + (z % w)
OBVIOUS

LEMMA RemainderIs ==
    ASSUME NEW w \in Nat \ {0}, NEW z \in Nat, NEW q \in Nat, NEW r \in 0 .. w - 1,
           z = w * q + r
    PROVE  z % w = r
<1>1. PICK p \in Nat, t \in 0 .. w - 1 : p = z \div w /\ t = z % w /\ z = w * p + t
  BY QuotientOf
<1>2. CASE p > q
  <2>1. PICK x \in Nat : p = q + 1 + x
    BY <1>2
  <2>2. w * p = w * q + w + w * x /\ w * x \in Nat /\ w * q \in Nat
    BY <2>1
  <2>3. QED
    BY <1>1, <2>2
<1>3. CASE q > p
  <2>1. PICK x \in Nat : q = p + 1 + x
    BY <1>3
  <2>2. w * q = w * p + w + w * x /\ w * x \in Nat /\ w * p \in Nat
    BY <2>1
  <2>3. QED
    BY <1>1, <2>2
<1>4. CASE p = q
  <2>1. w * q \in Nat
    OBVIOUS
  <2>2. QED
    BY <1>1, <1>4, <2>1
<1>5. QED
  BY <1>2, <1>3, <1>4

LEMMA WrapsOnce ==
    ASSUME NEW w \in Nat \ {0}, NEW a \in Nat, NEW c \in Nat
    PROVE  ((a % w) * 10 + c) % w = (a * 10 + c) % w
<1>1. PICK q \in Nat, r \in 0 .. w - 1 : r = a % w /\ a = w * q + r
  BY QuotientOf
<1>2. PICK z \in Nat : z = r * 10 + c
  OBVIOUS
<1>3. PICK p \in Nat, t \in 0 .. w - 1 : t = z % w /\ z = w * p + t
  BY QuotientOf
<1>4. a * 10 + c = w * (q * 10 + p) + t
  <2>1. PICK x \in Nat, y \in Nat : x = w * q /\ y = w * p
    OBVIOUS
  <2>2. w * (q * 10 + p) = x * 10 + y
    BY <2>1
  <2>3. a * 10 + c = x * 10 + y + t
    <3>1. a = x + r
      BY <1>1, <2>1
    <3>2. r * 10 + c = y + t
      BY <1>2, <1>3, <2>1
    <3>3. QED
      BY <3>1, <3>2
  <2>4. QED
    BY <2>2, <2>3
<1>5. a * 10 + c \in Nat /\ q * 10 + p \in Nat
  OBVIOUS
<1>6. (a * 10 + c) % w = t
  BY <1>4, <1>5, RemainderIs
<1>7. QED
  BY <1>1, <1>2, <1>3, <1>6
-----------------------------------------------------------------------------
(* The number reader of hw7 *)

Characters == Digits \cup {Space, Other}

\* The characters of the input it has been through.
Behind == Len(input) - Len(unread) - Len(buf)

\* The number it is in begins behind this one.
Before == Behind - num_digits

\* What comes next does not belong to a number.
NoDigitNext == IF buf = <<>> THEN unread = <<>> ELSE ~ isnum(buf[1])

ReaderPlaces == {"top", "body", "start", "digits", "end", "exited"}

ReaderTypes ==
    /\ at \in ReaderPlaces /\ code \in {0, 1} /\ lost \in BOOLEAN
    /\ input \in Seq(Characters) /\ unread \in Seq(Characters) /\ buf \in Seq(Characters)
    /\ Behind \in Nat /\ num_digits \in Nat /\ Before \in Nat
    /\ num \in Nat /\ output \in Seq(Seq(Int))

\* What is read and not yet read is the rest of the input.
RestOfInput ==
    /\ \A n \in 1 .. Len(buf) : buf[n] = input[Behind + n]
    /\ \A n \in 1 .. Len(unread) : unread[n] = input[Behind + Len(buf) + n]

\* It has met no other character, and the digits before it, however they were
\* read, are a number from its first digit on.
InNumber ==
    /\ Behind < Cut(input)
    /\ \A n \in Before + 1 .. Behind : isnum(input[n])
    /\ num_digits > 0 /\ Before > 0 => ~ isnum(input[Before])
    /\ num = Digital(SubSeq(input, Before + 1, Behind), 10) % WordSize

\* When a number begins and ends, and when the program ends.
AtEnds ==
    /\ num_digits = 0 /\ Behind > 0 /\ isnum(input[Behind])
           => at \in {"body", "exited"} /\ NoDigitNext
    /\ at \in {"start", "digits", "end"} => num_digits > 0 /\ NoDigitNext
    /\ at = "body" /\ buf = <<>> => unread = <<>>
    /\ at # "exited" => code = 0
    /\ at = "exited" /\ code = 0 => num_digits = 0 /\ Cut(input) = Behind + 1

\* The numbers that are printed, and the writes of the one that is not.
Done == Cardinality(UpTo(input, Before))

WritesBegun ==
    IF at = "digits" THEN {1}
    ELSE IF at = "end" THEN {2}
    ELSE IF at = "exited" /\ code = 1 /\ num_digits > 0 THEN 0 .. 2
    ELSE {0}

\* What the n-th write should be.
Fits(n, bytes) ==
    /\ n % 3 = 1 => bytes = Prefix
    /\ n % 3 = 2 => IsHex(bytes, Numbers(input)[(n + 1) \div 3])
    /\ n % 3 = 0 => bytes = NewLine

OutputSoFar ==
    ~ lost =>
        /\ \E w \in WritesBegun : Len(output) = 3 * Done + w
        /\ \A n \in 1 .. Len(output) : Fits(n, output[n])

ReaderInv == ReaderTypes /\ RestOfInput /\ InNumber /\ AtEnds /\ OutputSoFar
-----------------------------------------------------------------------------
(* The numbers of an input *)

LEMMA LeastIs ==
    ASSUME NEW S \in SUBSET Nat, NEW x \in S, \A y \in S : x <= y
    PROVE  Min(S) = x
<1>1. Min(S) \in S /\ \A y \in S : Min(S) <= y
  BY DEF Min
<1>2. Min(S) \in Nat /\ x \in Nat /\ Min(S) <= x /\ x <= Min(S)
  BY <1>1
<1>3. QED
  BY <1>2

LEMMA CutIs ==
    ASSUME NEW s \in Seq(Characters)
    PROVE  /\ Cut(s) \in 1 .. Len(s) + 1
           /\ \A n \in 1 .. Cut(s) - 1 : s[n] # Other
           /\ Cut(s) <= Len(s) => s[Cut(s)] = Other
<1> DEFINE S == {n \in DOMAIN s : s[n] = Other} \cup {Len(s) + 1}
<1>1. S \in SUBSET Nat /\ S # {} /\ Len(s) \in Nat /\ DOMAIN s = 1 .. Len(s)
  OBVIOUS
<1>2. PICK x \in S : \A y \in S : x <= y
  BY <1>1, LeastExists
<1> HIDE DEF S
<1>3. Cut(s) = x
  <2>1. Min(S) = x
    BY <1>1, <1>2, LeastIs
  <2>2. QED
    BY <2>1 DEF Cut, S
<1>4. x \in 1 .. Len(s) + 1 /\ (x <= Len(s) => s[x] = Other)
  BY <1>1 DEF S
<1>5. ASSUME NEW n \in 1 .. x - 1 PROVE s[n] # Other
  <2>1. n \in 1 .. Len(s) /\ n < x
    BY <1>1, <1>4
  <2>2. n \notin S
    BY <1>1, <1>2, <1>4, <2>1
  <2>3. QED
    BY <1>1, <2>1, <2>2 DEF S
<1>6. QED
  BY <1>3, <1>4, <1>5

\* A run of digits ends where something else comes.
LEMMA EndsIs ==
    ASSUME NEW s \in Seq(Characters), NEW i \in Nat \ {0}, NEW e \in Nat, i <= e, e <= Cut(s),
           \A j \in i .. e - 1 : isnum(s[j]), e = Cut(s) \/ ~ isnum(s[e])
    PROVE  Ends(s, i) = e
<1> DEFINE S == {j \in i .. Cut(s) : j = Cut(s) \/ ~ isnum(s[j])}
<1>1. Cut(s) \in Nat
  BY CutIs
<1>2. S \in SUBSET Nat /\ e \in S
  BY <1>1
<1>3. ASSUME NEW y \in S PROVE e <= y
  <2> SUFFICES ASSUME y < e PROVE FALSE
    BY <1>1
  <2>1. y \in i .. e - 1 /\ y # Cut(s)
    BY <1>1
  <2>2. QED
    BY <2>1
<1> HIDE DEF S
<1>4. Min(S) = e
  BY <1>2, <1>3, LeastIs
<1>5. QED
  BY <1>4 DEF Ends, S

LEMMA StartsAreFinite ==
    ASSUME NEW s \in Seq(Characters)
    PROVE  /\ Starts(s) \in SUBSET (1 .. Len(s))
           /\ IsFiniteSet(Starts(s)) /\ Cardinality(Starts(s)) \in Nat
           /\ \A b : /\ IsFiniteSet(UpTo(s, b)) /\ Cardinality(UpTo(s, b)) \in Nat
                     /\ Cardinality(UpTo(s, b)) <= Cardinality(Starts(s))
<1>1. Starts(s) \in SUBSET (1 .. Len(s))
  BY CutIs DEF Starts
<1>2. IsFiniteSet(1 .. Len(s))
  BY FS_Interval
<1>3. IsFiniteSet(Starts(s))
  BY <1>1, <1>2, FS_Subset
<1>4. ASSUME NEW b
      PROVE  IsFiniteSet(UpTo(s, b)) /\ Cardinality(UpTo(s, b)) <= Cardinality(Starts(s))
  <2>1. UpTo(s, b) \in SUBSET Starts(s)
    BY DEF UpTo
  <2>2. QED
    BY <1>3, <2>1, FS_Subset
<1>5. QED
  BY <1>1, <1>3, <1>4, FS_CardinalityType

\* Earlier starts count for less.
LEMMA StartsInOrder ==
    ASSUME NEW s \in Seq(Characters), NEW i \in Starts(s), NEW j \in Starts(s), j < i
    PROVE  Cardinality(UpTo(s, j)) # Cardinality(UpTo(s, i))
<1>1. i \in Nat /\ j \in Nat /\ \A k \in Starts(s) : k \in Nat
  BY StartsAreFinite
<1>2. UpTo(s, j) \in SUBSET UpTo(s, i)
  <2>1. \A n \in Starts(s) : n <= j => n <= i
    BY <1>1
  <2>2. QED
    BY <2>1 DEF UpTo
<1>3. i \in UpTo(s, i) /\ i \notin UpTo(s, j)
  BY <1>1 DEF UpTo
<1>4. IsFiniteSet(UpTo(s, i))
  BY StartsAreFinite
<1>5. Cardinality(UpTo(s, j)) = Cardinality(UpTo(s, i)) => UpTo(s, j) = UpTo(s, i)
  BY <1>2, <1>4, FS_Subset
<1>6. QED
  BY <1>3, <1>5

\* The number that begins at i is one of the input's, with its place among them.
LEMMA NumberAt ==
    ASSUME NEW s \in Seq(Characters), NEW i \in Starts(s)
    PROVE  Numbers(s)[Cardinality(UpTo(s, i))] = Value(s, i) % WordSize
<1> DEFINE n == Cardinality(UpTo(s, i))
           Is(j) == Cardinality(UpTo(s, j)) = n
<1>1. n \in Nat /\ n <= Cardinality(Starts(s)) /\ Cardinality(Starts(s)) \in Nat
  BY StartsAreFinite
<1>2. n # 0
  <2>1. i \in UpTo(s, i)
    BY StartsAreFinite DEF UpTo
  <2>2. QED
    BY <2>1, StartsAreFinite, FS_EmptySet
<1>3. n \in 1 .. Cardinality(Starts(s))
  BY <1>1, <1>2
<1>4. ASSUME NEW j \in Starts(s), Is(j) PROVE j = i
  <2>1. i \in Nat /\ j \in Nat
    BY StartsAreFinite
  <2>2. ~ (j < i) /\ ~ (i < j)
    BY <1>4, StartsInOrder
  <2>3. QED
    BY <2>1, <2>2
<1>5. (CHOOSE j \in Starts(s) : Is(j)) = i
  <2>1. \E j \in Starts(s) : Is(j)
    OBVIOUS
  <2> HIDE DEF Is
  <2>2. QED
    BY <1>4, <2>1
<1>6. PICK m : m = n
  OBVIOUS
<1>7. Numbers(s)[m] = Value(s, CHOOSE j \in Starts(s) : Cardinality(UpTo(s, j)) = m) % WordSize
  <2> HIDE DEF n
  <2>1. QED
    BY <1>3, <1>6 DEF Numbers
<1>8. QED
  BY <1>5, <1>6, <1>7

\* Behind b a number may begin, and its other digits begin none.
LEMMA NextStart ==
    ASSUME NEW s \in Seq(Characters), NEW b \in Nat, NEW e \in Nat, b < e, e < Cut(s),
           \A j \in b + 1 .. e : isnum(s[j]), b > 0 => ~ isnum(s[b])
    PROVE  /\ b + 1 \in Starts(s)
           /\ UpTo(s, e) = UpTo(s, b + 1)
           /\ Cardinality(UpTo(s, b + 1)) = Cardinality(UpTo(s, b)) + 1
<1>1. Cut(s) \in Nat
  BY CutIs
<1>2. b + 1 \in Starts(s)
  <2>1. b + 1 \in 1 .. Cut(s) - 1 /\ b + 1 \in b + 1 .. e /\ b + 1 - 1 = b
    BY <1>1
  <2>2. isnum(s[b + 1]) /\ (b + 1 > 1 => ~ isnum(s[b + 1 - 1]))
    BY <2>1
  <2>3. QED
    BY <2>1, <2>2 DEF Starts
<1>3. \A j \in Starts(s) : j \in Nat
  BY StartsAreFinite
<1>4. ASSUME NEW j \in Starts(s), j <= e PROVE j <= b + 1
  <2> SUFFICES ASSUME j > b + 1 PROVE FALSE
    BY <1>3
  <2>1. j \in Nat /\ j - 1 \in b + 1 .. e /\ j > 1
    BY <1>3, <1>4
  <2>2. ~ isnum(s[j - 1])
    BY <2>1 DEF Starts
  <2>3. QED
    BY <2>1, <2>2
<1>5. UpTo(s, e) = UpTo(s, b + 1)
  BY <1>3, <1>4 DEF UpTo
<1>6. UpTo(s, b + 1) = UpTo(s, b) \cup {b + 1} /\ b + 1 \notin UpTo(s, b)
  BY <1>2, <1>3 DEF UpTo
<1>7. QED
  BY <1>2, <1>5, <1>6, StartsAreFinite, FS_AddElement

\* No number begins at a character that is no digit.
LEMMA NoStart ==
    ASSUME NEW s \in Seq(Characters), NEW b \in Nat, ~ isnum(s[b + 1])
    PROVE  UpTo(s, b + 1) = UpTo(s, b)
<1>1. \A j \in Starts(s) : j \in Nat
  BY StartsAreFinite
<1>2. b + 1 \notin Starts(s)
  BY DEF Starts
<1>3. QED
  BY <1>1, <1>2 DEF UpTo
-----------------------------------------------------------------------------
(* The invariant of the number reader *)

LEMMA ReaderConstants ==
    /\ \A c \in Digits : c \in Nat
    /\ Space \notin Digits /\ Other \notin Digits /\ Other # Space
    /\ WordSize \in Nat \ {0}
BY NumReaderAssumption

LEMMA NothingIsZero == 0 % WordSize = 0 /\ Digital(<<>>, 10) % WordSize = 0
<1>1. WordSize \in Nat \ {0}
  BY ReaderConstants
<1>2. 0 \in 0 .. WordSize - 1 /\ 0 = WordSize * 0 + 0
  BY <1>1
<1>3. 0 % WordSize = 0
  BY <1>1, <1>2, RemainderIs
<1>4. QED
  BY <1>3, DigitalEmpty

LEMMA InitReader == ReaderInit => ReaderInv
<1> SUFFICES ASSUME ReaderInit PROVE ReaderInv
  OBVIOUS
<1>1. /\ input \in Inputs /\ unread = input /\ at = "top" /\ buf = <<>> /\ num = 0
      /\ num_digits = 0 /\ code = 0 /\ output = <<>> /\ lost = FALSE
  BY DEF ReaderInit
<1>2. input \in Seq(Characters)
  BY <1>1, NumReaderAssumption, SeqDef DEF Inputs, SeqOf, Characters
<1>3. Behind = 0 /\ Before = 0
  <2>1. Len(input) \in Nat /\ Len(buf) = 0 /\ Len(unread) = Len(input)
    BY <1>1, <1>2
  <2>2. PICK n \in Nat : n = Len(input)
    BY <2>1
  <2>3. Behind = n - n - 0
    BY <2>1, <2>2 DEF Behind
  <2>4. Behind = 0
    BY <2>3
  <2>5. QED
    BY <1>1, <2>4 DEF Before
<1>4. ReaderTypes
  <2>1. unread \in Seq(Characters) /\ buf \in Seq(Characters) /\ output \in Seq(Seq(Int))
    BY <1>1, <1>2
  <2>2. at \in ReaderPlaces /\ code \in {0, 1} /\ lost \in BOOLEAN
    BY <1>1 DEF ReaderPlaces
  <2>3. QED
    BY <1>1, <1>2, <1>3, <2>1, <2>2 DEF ReaderTypes
<1>5. RestOfInput
  BY <1>1, <1>2, <1>3 DEF RestOfInput
<1>6. SubSeq(input, 1, 0) = <<>> /\ 0 + 1 = 1
  BY <1>2
<1>7. Digital(SubSeq(input, 0 + 1, 0), 10) % WordSize = 0
  <2>1. Digital(SubSeq(input, 0 + 1, 0), 10) = Digital(<<>>, 10)
    BY <1>6
  <2>2. QED
    BY <2>1, NothingIsZero
<1>8. InNumber
  BY <1>1, <1>2, <1>3, <1>7, CutIs DEF InNumber
<1>9. AtEnds
  BY <1>1, <1>3 DEF AtEnds
<1>10. UpTo(input, 0) = {}
  BY <1>2, StartsAreFinite DEF UpTo
<1>11. Done = 0
  BY <1>3, <1>10, FS_EmptySet DEF Done
<1>12. OutputSoFar
  BY <1>1, <1>11 DEF OutputSoFar, WritesBegun
<1>13. QED
  BY <1>4, <1>5, <1>8, <1>9, <1>12 DEF ReaderInv

LEMMA ReadInv == ASSUME ReaderInv, my_read PROVE ReaderInv'
<1>1. /\ at = "top" /\ buf = <<>> /\ at' = "body"
      /\ UNCHANGED <<num, num_digits, code, output, input, lost>>
  BY DEF my_read
<1>2. /\ ReaderTypes /\ RestOfInput /\ InNumber /\ AtEnds /\ OutputSoFar
  BY DEF ReaderInv
<1>3. unread \in Seq(Characters) /\ Len(unread) \in Nat /\ Len(buf) = 0
  BY <1>1, <1>2 DEF ReaderTypes
<1>4. PICK n \in 0 .. Len(unread) :
          /\ n = 0 => unread = <<>>
          /\ buf' = SubSeq(unread, 1, n) /\ unread' = SubSeq(unread, n + 1, Len(unread))
  <2>1. \A n \in 0 .. Min({BufSize, Len(unread)}) : n \in 0 .. Len(unread)
    <3>1. Min({BufSize, Len(unread)}) = IF BufSize <= Len(unread) THEN BufSize ELSE Len(unread)
      BY <1>3, MinOfTwo, NumReaderAssumption
    <3>2. QED
      BY <1>3, <3>1, NumReaderAssumption
  <2>2. QED
    BY <2>1 DEF my_read
<1>5. /\ buf' \in Seq(Characters) /\ unread' \in Seq(Characters)
      /\ Len(buf') = n /\ Len(unread') = Len(unread) - n
      /\ \A j \in 1 .. n : buf'[j] = unread[j]
      /\ \A j \in 1 .. Len(unread) - n : unread'[j] = unread[n + j]
  BY <1>3, <1>4
<1>6. Behind' = Behind /\ Before' = Before
  BY <1>1, <1>3, <1>5 DEF Behind, Before
<1>7. ReaderTypes'
  BY <1>1, <1>2, <1>5, <1>6 DEF ReaderTypes, ReaderPlaces
<1>8. RestOfInput'
  <2>1. \A j \in 1 .. Len(unread) : unread[j] = input[Behind + j]
    BY <1>2, <1>3 DEF RestOfInput, ReaderTypes
  <2>2. Behind \in Nat
    BY <1>2 DEF ReaderTypes
  <2>3. \A j \in 1 .. n : buf'[j] = input[Behind + j]
    BY <1>3, <1>5, <2>1
  <2>4. ASSUME NEW j \in 1 .. Len(unread) - n PROVE unread'[j] = input[Behind + n + j]
    <3>1. n + j \in 1 .. Len(unread) /\ Behind + n + j = Behind + (n + j)
      BY <1>3, <2>2
    <3>2. QED
      BY <1>5, <2>1, <3>1
  <2>5. QED
    BY <1>1, <1>5, <1>6, <2>3, <2>4 DEF RestOfInput
<1>9. InNumber'
  BY <1>1, <1>2, <1>6 DEF InNumber
<1>10. AtEnds'
  <2>1. buf' = <<>> => unread' = <<>>
    <3>1. buf' = <<>> => n = 0
      BY <1>5
    <3>2. n = 0 => Len(unread') = 0
      BY <1>4, <1>5
    <3>3. Len(unread') = 0 => unread' = <<>>
      BY <1>5, EmptySeq
    <3>4. QED
      BY <3>1, <3>2, <3>3
  <2>2. ~ (num_digits = 0 /\ Behind > 0 /\ isnum(input[Behind]))
    BY <1>1, <1>2 DEF AtEnds
  <2>3. isnum(input[Behind])' = isnum(input[Behind])
    BY <1>1, <1>6 DEF isnum
  <2>4. QED
    BY <1>1, <1>2, <1>6, <2>1, <2>2, <2>3 DEF AtEnds
<1>11. OutputSoFar'
  <2>1. Done' = Done /\ WritesBegun = {0} /\ WritesBegun' = {0}
    BY <1>1, <1>6 DEF Done, WritesBegun
  <2>2. \A j : Fits(j, output[j])' = Fits(j, output[j])
    BY <1>1 DEF Fits
  <2>3. QED
    BY <1>1, <1>2, <2>1, <2>2 DEF OutputSoFar
<1>12. QED
  BY <1>7, <1>8, <1>9, <1>10, <1>11 DEF ReaderInv

LEMMA NoReadInv == ASSUME ReaderInv, NoRead PROVE ReaderInv'
<1>1. /\ at = "top" /\ buf # <<>> /\ at' = "body"
      /\ UNCHANGED <<unread, buf, num, num_digits, code, output, input, lost>>
  BY DEF NoRead
<1>2. ReaderTypes /\ RestOfInput /\ InNumber /\ AtEnds /\ OutputSoFar
  BY DEF ReaderInv
<1>3. Behind' = Behind /\ Before' = Before
  BY <1>1 DEF Behind, Before
<1>4. ReaderTypes' /\ RestOfInput' /\ InNumber'
  BY <1>1, <1>2, <1>3 DEF ReaderTypes, ReaderPlaces, RestOfInput, InNumber
<1>5. AtEnds'
  <2>1. isnum(input[Behind])' = isnum(input[Behind])
    BY <1>1, <1>3 DEF isnum
  <2>2. QED
    BY <1>1, <1>2, <1>3, <2>1 DEF AtEnds
<1>6. OutputSoFar'
  <2>1. Done' = Done /\ WritesBegun = {0} /\ WritesBegun' = {0}
    BY <1>1, <1>3 DEF Done, WritesBegun
  <2>2. \A j : Fits(j, output[j])' = Fits(j, output[j])
    BY <1>1 DEF Fits
  <2>3. QED
    BY <1>1, <1>2, <2>1, <2>2 DEF OutputSoFar
<1>7. QED
  BY <1>4, <1>5, <1>6 DEF ReaderInv

LEMMA ReadFailsInv == ASSUME ReaderInv, ReadFails PROVE ReaderInv'
<1>1. /\ at = "top" /\ at' = "exited" /\ code' = 1
      /\ UNCHANGED <<unread, buf, num, num_digits, output, input, lost>>
  BY DEF ReadFails, my_exit
<1>2. ReaderTypes /\ RestOfInput /\ InNumber /\ AtEnds /\ OutputSoFar
  BY DEF ReaderInv
<1>3. Behind' = Behind /\ Before' = Before
  BY <1>1 DEF Behind, Before
<1>4. ReaderTypes' /\ RestOfInput' /\ InNumber'
  BY <1>1, <1>2, <1>3 DEF ReaderTypes, ReaderPlaces, RestOfInput, InNumber
<1>5. AtEnds'
  <2>1. isnum(input[Behind])' = isnum(input[Behind])
    BY <1>1, <1>3 DEF isnum
  <2>2. ~ (num_digits = 0 /\ Behind > 0 /\ isnum(input[Behind]))
    BY <1>1, <1>2 DEF AtEnds
  <2>3. QED
    BY <1>1, <1>3, <2>1, <2>2 DEF AtEnds
<1>6. OutputSoFar'
  <2>1. Done' = Done /\ WritesBegun = {0} /\ 0 \in WritesBegun'
    BY <1>1, <1>3 DEF Done, WritesBegun
  <2>2. \A j : Fits(j, output[j])' = Fits(j, output[j])
    BY <1>1 DEF Fits
  <2>3. QED
    BY <1>1, <1>2, <2>1, <2>2 DEF OutputSoFar
<1>7. QED
  BY <1>4, <1>5, <1>6 DEF ReaderInv

\* The character it looks at is the input's next one.
LEMMA NextCharacter ==
    ASSUME ReaderInv, buf # <<>>
    PROVE  /\ Behind + 1 \in 1 .. Len(input) /\ buf[1] = input[Behind + 1]
           /\ Tail(buf) \in Seq(Characters) /\ Len(Tail(buf)) = Len(buf) - 1 /\ Len(buf) \in Nat
           /\ \A n \in 1 .. Len(buf) - 1 : Tail(buf)[n] = buf[n + 1]
<1>1. /\ input \in Seq(Characters) /\ unread \in Seq(Characters) /\ buf \in Seq(Characters)
      /\ Behind \in Nat
  BY DEF ReaderInv, ReaderTypes
<1>2. PICK l \in Nat, u \in Nat, k \in Nat : l = Len(input) /\ u = Len(unread) /\ k = Len(buf)
  BY <1>1
<1>3. k > 0
  BY <1>1, <1>2, EmptySeq
<1>4. Behind = l - u - k
  BY <1>2 DEF Behind
<1>5. buf[1] = input[Behind + 1]
  BY <1>2, <1>3 DEF ReaderInv, RestOfInput
<1>6. Behind + 1 \in 1 .. Len(input)
  BY <1>1, <1>2, <1>3, <1>4
<1>7. QED
  BY <1>1, <1>2, <1>3, <1>5, <1>6

\* It has met the other character only where the input is cut.
LEMMA BeforeTheCut ==
    ASSUME ReaderInv, buf # <<>>
    PROVE  IF buf[1] = Other THEN Cut(input) = Behind + 1 ELSE Behind + 1 < Cut(input)
<1>1. input \in Seq(Characters) /\ Behind \in Nat /\ Behind < Cut(input) /\ Len(input) \in Nat
  BY DEF ReaderInv, ReaderTypes, InNumber
<1>2. PICK c \in 1 .. Len(input) + 1 :
          /\ c = Cut(input) /\ \A n \in 1 .. c - 1 : input[n] # Other
          /\ c <= Len(input) => input[c] = Other
  BY <1>1, CutIs
<1>3. Behind + 1 \in 1 .. Len(input) /\ buf[1] = input[Behind + 1]
  BY NextCharacter
<1>4. CASE buf[1] = Other
  <2>1. ASSUME Behind + 1 < c PROVE FALSE
    <3>1. Behind + 1 \in 1 .. c - 1
      BY <1>1, <2>1
    <3>2. input[Behind + 1] # Other
      BY <1>2, <3>1
    <3>3. QED
      BY <1>3, <1>4, <3>2
  <2>2. QED
    BY <1>1, <1>2, <1>4, <2>1
<1>5. CASE buf[1] # Other
  <2>1. c # Behind + 1
    BY <1>1, <1>2, <1>3, <1>5
  <2>2. QED
    BY <1>1, <1>2, <1>5, <2>1
<1>6. QED
  BY <1>4, <1>5

\* All is read when there is nothing left.
LEMMA NothingLeft ==
    ASSUME ReaderInv, buf = <<>>, unread = <<>>
    PROVE  Behind = Len(input) /\ Cut(input) = Behind + 1
<1>1. input \in Seq(Characters) /\ Behind < Cut(input)
  BY DEF ReaderInv, ReaderTypes, InNumber
<1>2. PICK l \in Nat : l = Len(input)
  BY <1>1
<1>3. Behind = l - 0 - 0
  BY <1>2 DEF Behind
<1>4. Behind = l
  BY <1>2, <1>3
<1>5. Cut(input) \in 1 .. l + 1
  BY <1>1, <1>2, CutIs
<1>6. QED
  BY <1>1, <1>2, <1>4, <1>5

\* What the program knows when it looks at a character.
LEMMA BodyKnows ==
    ASSUME ReaderInv, Body
    PROVE  /\ at = "body" /\ code = 0 /\ UNCHANGED <<unread, output, input, lost>>
           /\ ReaderTypes /\ RestOfInput /\ InNumber /\ AtEnds /\ OutputSoFar
           /\ WritesBegun = {0}
           /\ \A j : Fits(j, output[j])' = Fits(j, output[j])
<1>1. at = "body" /\ UNCHANGED <<unread, output, input, lost>>
  BY DEF Body
<1>2. ReaderTypes /\ RestOfInput /\ InNumber /\ AtEnds /\ OutputSoFar
  BY DEF ReaderInv
<1>3. code = 0
  BY <1>1, <1>2 DEF AtEnds
<1>4. WritesBegun = {0}
  BY <1>1 DEF WritesBegun
<1>5. \A j : Fits(j, output[j])' = Fits(j, output[j])
  BY <1>1 DEF Fits
<1>6. QED
  BY <1>1, <1>2, <1>3, <1>4, <1>5

LEMMA NumberEndsInv ==
    ASSUME ReaderInv, Body, NumberEnds
    PROVE  ReaderInv'
<1>1. /\ at = "body" /\ at' = "start"
      /\ UNCHANGED <<unread, buf, num, num_digits, code, output, input, lost>>
  BY DEF Body
<1>2. /\ ReaderTypes /\ RestOfInput /\ InNumber /\ AtEnds /\ OutputSoFar
      /\ WritesBegun = {0} /\ \A j : Fits(j, output[j])' = Fits(j, output[j])
  BY BodyKnows
<1>3. Behind' = Behind /\ Before' = Before
  BY <1>1 DEF Behind, Before
<1>4. ReaderTypes' /\ RestOfInput' /\ InNumber'
  BY <1>1, <1>2, <1>3 DEF ReaderTypes, ReaderPlaces, RestOfInput, InNumber
<1>5. AtEnds'
  <2>1. num_digits > 0 /\ num_digits \in Nat
    BY <1>2 DEF NumberEnds, ReaderTypes
  <2>2. NoDigitNext
    BY <1>1, <1>2 DEF NumberEnds, AtEnds, NoDigitNext
  <2>3. NoDigitNext' = NoDigitNext
    BY <1>1 DEF NoDigitNext, isnum
  <2>4. num_digits' > 0 /\ num_digits' # 0 /\ code' = 0 /\ NoDigitNext'
    BY <1>1, <1>2, <2>1, <2>2, <2>3 DEF AtEnds
  <2>5. QED
    BY <1>1, <2>4 DEF AtEnds
<1>6. OutputSoFar'
  <2>1. Done' = Done /\ WritesBegun' = {0}
    BY <1>1, <1>3 DEF Done, WritesBegun
  <2>2. QED
    BY <1>1, <1>2, <2>1 DEF OutputSoFar
<1>7. QED
  BY <1>4, <1>5, <1>6 DEF ReaderInv

LEMMA ExitInv ==
    ASSUME ReaderInv, Body, ~ NumberEnds, buf = <<>> \/ (~ isspc(buf[1]) /\ ~ isnum(buf[1]))
    PROVE  ReaderInv'
<1>1. /\ at = "body" /\ at' = "exited" /\ code' = 0
      /\ UNCHANGED <<unread, buf, num, num_digits, output, input, lost>>
  BY DEF Body, my_exit
<1>2. /\ ReaderTypes /\ RestOfInput /\ InNumber /\ AtEnds /\ OutputSoFar
      /\ WritesBegun = {0} /\ \A j : Fits(j, output[j])' = Fits(j, output[j])
  BY BodyKnows
<1>3. Behind' = Behind /\ Before' = Before
  BY <1>1 DEF Behind, Before
<1>4. ReaderTypes' /\ RestOfInput' /\ InNumber'
  BY <1>1, <1>2, <1>3 DEF ReaderTypes, ReaderPlaces, RestOfInput, InNumber
<1>5. num_digits = 0
  BY <1>2 DEF NumberEnds, ReaderTypes
<1>6. Cut(input) = Behind + 1
  <2>1. CASE buf = <<>>
    BY <1>1, <1>2, <2>1, NothingLeft DEF AtEnds
  <2>2. CASE buf # <<>>
    <3>1. buf[1] \in Characters
      BY <1>2, <2>2, EmptySeq DEF ReaderTypes
    <3>2. buf[1] = Other
      BY <2>2, <3>1 DEF Characters, isspc, isnum
    <3>3. QED
      BY <2>2, <3>2, BeforeTheCut
  <2>3. QED
    BY <2>1, <2>2
<1>7. AtEnds'
  <2>1. isnum(input[Behind])' = isnum(input[Behind]) /\ NoDigitNext' = NoDigitNext
    BY <1>1, <1>3 DEF isnum, NoDigitNext
  <2>2. Cut(input)' = Cut(input)
    BY <1>1
  <2>3. QED
    BY <1>1, <1>2, <1>3, <1>5, <1>6, <2>1, <2>2 DEF AtEnds
<1>8. OutputSoFar'
  <2>1. Done' = Done /\ WritesBegun' = {0}
    BY <1>1, <1>3 DEF Done, WritesBegun
  <2>2. QED
    BY <1>1, <1>2, <2>1 DEF OutputSoFar
<1>9. QED
  BY <1>4, <1>7, <1>8 DEF ReaderInv

\* Looking at a character leaves one less to come.
LEMMA TailInv ==
    ASSUME ReaderInv, Body, buf # <<>>, buf' = Tail(buf)
    PROVE  /\ Behind' = Behind + 1 /\ buf' \in Seq(Characters)
           /\ RestOfInput'
<1>1. UNCHANGED <<unread, input>> /\ RestOfInput
  BY BodyKnows
<1>2. /\ unread \in Seq(Characters) /\ input \in Seq(Characters) /\ buf \in Seq(Characters)
      /\ Behind \in Nat
  BY DEF ReaderInv, ReaderTypes
<1>3. /\ Tail(buf) \in Seq(Characters) /\ Len(Tail(buf)) = Len(buf) - 1 /\ Len(buf) \in Nat
      /\ \A n \in 1 .. Len(buf) - 1 : Tail(buf)[n] = buf[n + 1]
  BY NextCharacter
<1>4. PICK l \in Nat, u \in Nat, k \in Nat : l = Len(input) /\ u = Len(unread) /\ k = Len(buf)
  BY <1>2
<1>5. Behind = l - u - k /\ Behind' = l - u - (k - 1)
  BY <1>1, <1>3, <1>4 DEF Behind
<1>6. Behind' = Behind + 1
  BY <1>5
<1>7. ASSUME NEW n \in 1 .. k - 1 PROVE Tail(buf)[n] = input[Behind + 1 + n]
  <2>1. n + 1 \in 1 .. k /\ Behind + 1 + n = Behind + (n + 1)
    BY <1>2
  <2>2. buf[n + 1] = input[Behind + (n + 1)]
    BY <1>1, <1>4, <2>1 DEF RestOfInput
  <2>3. QED
    BY <1>3, <1>4, <2>1, <2>2
<1>8. ASSUME NEW n \in 1 .. u PROVE unread[n] = input[Behind + 1 + (k - 1) + n]
  <2>1. Behind + 1 + (k - 1) + n = Behind + k + n
    BY <1>2
  <2>2. QED
    BY <1>1, <1>4, <2>1 DEF RestOfInput
<1>9. RestOfInput'
  BY <1>1, <1>3, <1>4, <1>6, <1>7, <1>8 DEF RestOfInput
<1>10. QED
  BY <1>3, <1>6, <1>9

LEMMA AppendedNumber ==
    ASSUME NEW d \in Seq(Nat), NEW c \in Nat, NEW m \in Nat, m = Len(d)
    PROVE  /\ Len(Append(d, c)) = m + 1 /\ Append(d, c) \in Seq(Nat)
           /\ \A n \in 1 .. m : Append(d, c)[n] = d[n]
           /\ Append(d, c)[m + 1] = c
OBVIOUS

LEMMA DigitInv ==
    ASSUME ReaderInv, Body, ~ NumberEnds, buf # <<>>, isnum(buf[1])
    PROVE  ReaderInv'
<1>1. /\ at = "body" /\ at' = "top" /\ num' = (num * 10 + buf[1]) % WordSize
      /\ num_digits' = num_digits + 1 /\ buf' = Tail(buf)
      /\ UNCHANGED <<unread, code, output, input, lost>>
  BY DEF Body
<1>2. /\ ReaderTypes /\ RestOfInput /\ InNumber /\ AtEnds /\ OutputSoFar /\ code = 0
      /\ WritesBegun = {0} /\ \A j : Fits(j, output[j])' = Fits(j, output[j])
  BY BodyKnows
<1>3. Behind' = Behind + 1 /\ buf' \in Seq(Characters) /\ RestOfInput'
  BY <1>1, TailInv
<1>4. PICK b \in Nat, f \in Nat, k \in Nat : b = Behind /\ f = Before /\ k = num_digits
  BY <1>2 DEF ReaderTypes
<1>5. f = b - k /\ Before' = (b + 1) - (k + 1)
  BY <1>1, <1>3, <1>4 DEF Before
<1>6. Before' = f /\ f <= b
  BY <1>4, <1>5
<1>7. /\ input \in Seq(Characters) /\ b + 1 \in 1 .. Len(input) /\ buf[1] = input[b + 1]
      /\ Len(input) \in Nat
  BY <1>2, <1>4, NextCharacter DEF ReaderTypes
<1>8. b + 1 < Cut(input)
  <2>1. buf[1] # Other
    BY ReaderConstants DEF isnum
  <2>2. QED
    BY <1>4, <2>1, BeforeTheCut
<1>9. \A n \in f + 1 .. b + 1 : isnum(input[n])
  <2>1. \A n \in f + 1 .. b : isnum(input[n])
    BY <1>2, <1>4 DEF InNumber
  <2>2. \A n \in f + 1 .. b + 1 : n \in f + 1 .. b \/ n = b + 1
    OBVIOUS
  <2>3. QED
    BY <1>7, <2>1, <2>2
<1>10. f > 0 => ~ isnum(input[f])
  <2>1. CASE k > 0
    BY <1>2, <1>4, <2>1 DEF InNumber
  <2>2. CASE k = 0
    <3>1. f = b
      BY <1>5, <2>2
    <3>2. ~ NoDigitNext
      BY DEF NoDigitNext
    <3>3. ~ (b > 0 /\ isnum(input[b]))
      BY <1>2, <1>4, <2>2, <3>2 DEF AtEnds
    <3>4. QED
      BY <3>1, <3>3
  <2>3. QED
    BY <2>1, <2>2
<1>11. /\ num' \in Nat
       /\ num' = Digital(SubSeq(input, f + 1, b + 1), 10) % WordSize
  <2> DEFINE d == SubSeq(input, f + 1, b)
             e == SubSeq(input, f + 1, b + 1)
  <2>1. WordSize \in Nat \ {0} /\ \A c \in Digits : c \in Nat
    BY ReaderConstants
  <2>2. PICK c \in Nat : c = buf[1]
    BY <2>1 DEF isnum
  <2>3. \A n \in f + 1 .. b + 1 : input[n] \in Nat
    BY <1>9, <2>1 DEF isnum
  <2>4. Len(d) = b - f /\ \A n \in 1 .. b - f : d[n] = input[f + n]
    BY <1>6, <1>7
  <2>5. Len(e) = b - f + 1 /\ \A n \in 1 .. b - f + 1 : e[n] = input[f + n]
    BY <1>6, <1>7
  <2>6. d \in Seq(Characters) /\ e \in Seq(Characters)
    BY <1>6, <1>7
  <2> HIDE DEF d, e
  <2>7. d \in Seq(Nat)
    <3>1. \A n \in 1 .. b - f : f + n \in f + 1 .. b + 1
      OBVIOUS
    <3>2. \A n \in 1 .. Len(d) : d[n] \in Nat
      BY <2>3, <2>4, <3>1
    <3>3. QED
      BY <2>6, <3>2
  <2>8. e = Append(d, c)
    <3>1. /\ Len(Append(d, c)) = b - f + 1 /\ Append(d, c) \in Seq(Nat)
          /\ \A n \in 1 .. b - f : Append(d, c)[n] = d[n]
          /\ Append(d, c)[b - f + 1] = c
      <4>1. PICK m \in Nat : m = Len(d) /\ m = b - f
        BY <1>6, <2>4
      <4>2. /\ Len(Append(d, c)) = m + 1 /\ Append(d, c) \in Seq(Nat)
            /\ \A n \in 1 .. m : Append(d, c)[n] = d[n]
            /\ Append(d, c)[m + 1] = c
        BY <2>7, <4>1, AppendedNumber
      <4>3. QED
        BY <4>1, <4>2
    <3>2. ASSUME NEW n \in 1 .. b - f + 1 PROVE e[n] = Append(d, c)[n]
      <4>1. CASE n = b - f + 1
        <5>1. f + n = b + 1
          BY <4>1
        <5>2. QED
          BY <1>7, <2>2, <2>5, <3>1, <4>1, <5>1
      <4>2. CASE n \in 1 .. b - f
        BY <2>4, <2>5, <3>1, <4>2
      <4>3. n = b - f + 1 \/ n \in 1 .. b - f
        BY <1>6
      <4>4. QED
        BY <4>1, <4>2, <4>3
    <3>3. QED
      BY <2>5, <2>6, <3>1, <3>2, SeqEqual
  <2>9. Digital(d, 10) \in Nat /\ Digital(e, 10) = Digital(d, 10) * 10 + c
    BY <2>7, <2>8, DigitalAppend
  <2>10. num = Digital(d, 10) % WordSize
    BY <1>2, <1>4 DEF InNumber, d
  <2>11. num' = ((Digital(d, 10) % WordSize) * 10 + c) % WordSize
    BY <1>1, <2>2, <2>10
  <2>12. num' = (Digital(d, 10) * 10 + c) % WordSize
    BY <2>1, <2>9, <2>11, WrapsOnce
  <2>13. num' = Digital(e, 10) % WordSize
    BY <2>9, <2>12
  <2>14. num' \in Nat
    <3>1. PICK z \in Nat : z = Digital(d, 10) * 10 + c
      BY <2>9
    <3>2. z % WordSize \in 0 .. WordSize - 1
      BY <2>1, QuotientOf
    <3>3. QED
      BY <2>1, <2>12, <3>1, <3>2
  <2>15. QED
    BY <2>13, <2>14 DEF e
<1>12. ReaderTypes'
  <2>1. Behind' \in Nat /\ Before' \in Nat /\ num_digits' \in Nat
    BY <1>1, <1>3, <1>4, <1>6
  <2>2. QED
    BY <1>1, <1>2, <1>3, <1>11, <2>1 DEF ReaderTypes, ReaderPlaces
<1>13. InNumber'
  BY <1>1, <1>3, <1>4, <1>6, <1>8, <1>9, <1>10, <1>11 DEF InNumber, isnum
<1>14. AtEnds'
  <2>1. num_digits' > 0 /\ num_digits' # 0
    BY <1>1, <1>4
  <2>2. QED
    BY <1>1, <1>2, <2>1 DEF AtEnds
<1>15. OutputSoFar'
  <2>1. Done' = Done /\ WritesBegun' = {0}
    BY <1>1, <1>4, <1>6 DEF Done, WritesBegun
  <2>2. QED
    BY <1>1, <1>2, <2>1 DEF OutputSoFar
<1>16. QED
  BY <1>3, <1>12, <1>13, <1>14, <1>15 DEF ReaderInv

\* No number is begun.
LEMMA NoNumber ==
    ASSUME NEW s \in Seq(Characters), NEW b \in Nat
    PROVE  Digital(SubSeq(s, b + 1, b), 10) % WordSize = 0
<1>1. SubSeq(s, b + 1, b) = <<>>
  <2>1. SubSeq(s, b + 1, b) \in Seq(Characters) /\ Len(SubSeq(s, b + 1, b)) = 0
    BY SubSeqProperties
  <2>2. QED
    BY <2>1, EmptySeq
<1>2. QED
  BY <1>1, NothingIsZero

LEMMA SpaceInv ==
    ASSUME ReaderInv, Body, ~ NumberEnds, buf # <<>>, isspc(buf[1]), ~ isnum(buf[1])
    PROVE  ReaderInv'
<1>1. /\ at = "body" /\ at' = "top" /\ buf' = Tail(buf)
      /\ UNCHANGED <<unread, num, num_digits, code, output, input, lost>>
  BY DEF Body
<1>2. /\ ReaderTypes /\ RestOfInput /\ InNumber /\ AtEnds /\ OutputSoFar /\ code = 0
      /\ WritesBegun = {0} /\ \A j : Fits(j, output[j])' = Fits(j, output[j])
  BY BodyKnows
<1>3. Behind' = Behind + 1 /\ buf' \in Seq(Characters) /\ RestOfInput'
  BY <1>1, TailInv
<1>4. PICK b \in Nat : b = Behind
  BY <1>2 DEF ReaderTypes
<1>5. num_digits = 0 /\ num_digits' = 0
  BY <1>1, <1>2 DEF NumberEnds, ReaderTypes
<1>6. Before = b /\ Before' = b + 1
  BY <1>3, <1>4, <1>5 DEF Before
<1>7. /\ input \in Seq(Characters) /\ b + 1 \in 1 .. Len(input) /\ buf[1] = input[b + 1]
  BY <1>2, <1>4, NextCharacter DEF ReaderTypes
<1>8. b + 1 < Cut(input)
  <2>1. buf[1] # Other
    BY ReaderConstants DEF isspc
  <2>2. QED
    BY <1>4, <2>1, BeforeTheCut
<1>9. ~ isnum(input[b + 1])
  BY <1>7
<1>10. ReaderTypes'
  BY <1>1, <1>2, <1>3, <1>4, <1>6 DEF ReaderTypes, ReaderPlaces
<1>11. InNumber'
  <2>1. num' = Digital(SubSeq(input, (b + 1) + 1, b + 1), 10) % WordSize
    <3>1. num = Digital(SubSeq(input, b + 1, b), 10) % WordSize
      BY <1>2, <1>4, <1>6 DEF InNumber
    <3>2. b + 1 \in Nat
      OBVIOUS
    <3>3. QED
      BY <1>1, <1>7, <3>1, <3>2, NoNumber
  <2>2. Behind' = b + 1 /\ input' = input
    BY <1>1, <1>3, <1>4
  <2>3. \A n \in (b + 1) + 1 .. b + 1 : FALSE
    OBVIOUS
  <2>4. ~ (num_digits' > 0)
    BY <1>5
  <2>5. QED
    BY <1>6, <1>8, <2>1, <2>2, <2>3, <2>4 DEF InNumber
<1>12. AtEnds'
  <2>1. ~ isnum(input[Behind])'
    BY <1>1, <1>3, <1>4, <1>9 DEF isnum
  <2>2. QED
    BY <1>1, <1>2, <2>1 DEF AtEnds
<1>13. OutputSoFar'
  <2>1. Done' = Done
    BY <1>1, <1>6, <1>7, <1>9, NoStart DEF Done
  <2>2. WritesBegun' = {0}
    BY <1>1 DEF WritesBegun
  <2>3. QED
    BY <1>1, <1>2, <2>1, <2>2 DEF OutputSoFar
<1>14. QED
  BY <1>3, <1>10, <1>11, <1>12, <1>13 DEF ReaderInv

LEMMA BodyInv == ASSUME ReaderInv, Body PROVE ReaderInv'
<1>1. CASE NumberEnds
  BY <1>1, NumberEndsInv
<1>2. CASE ~ NumberEnds /\ (buf = <<>> \/ (~ isspc(buf[1]) /\ ~ isnum(buf[1])))
  BY <1>2, ExitInv
<1>3. CASE ~ NumberEnds /\ buf # <<>> /\ isnum(buf[1])
  BY <1>3, DigitInv
<1>4. CASE ~ NumberEnds /\ buf # <<>> /\ isspc(buf[1]) /\ ~ isnum(buf[1])
  BY <1>4, SpaceInv
<1>5. QED
  BY <1>1, <1>2, <1>3, <1>4

\* The number it prints is the input's next one.
LEMMA TheNumber ==
    ASSUME ReaderInv, num_digits > 0
    PROVE  /\ UpTo(input, Behind) = UpTo(input, Before + 1)
           /\ Cardinality(UpTo(input, Behind)) = Done + 1
           /\ Done \in Nat /\ Done + 1 <= Cardinality(Starts(input))
           /\ Before + 1 \in Starts(input)
<1>1. input \in Seq(Characters) /\ ReaderTypes /\ InNumber
  BY DEF ReaderInv, ReaderTypes
<1>2. PICK b \in Nat, f \in Nat, k \in Nat : b = Behind /\ f = Before /\ k = num_digits
  BY <1>1 DEF ReaderTypes
<1>3. f = b - k
  BY <1>2 DEF Before
<1>4. f < b
  BY <1>2, <1>3
<1>5. /\ b < Cut(input) /\ \A j \in f + 1 .. b : isnum(input[j])
      /\ f > 0 => ~ isnum(input[f])
  BY <1>1, <1>2 DEF InNumber
<1>6. /\ f + 1 \in Starts(input) /\ UpTo(input, b) = UpTo(input, f + 1)
      /\ Cardinality(UpTo(input, f + 1)) = Cardinality(UpTo(input, f)) + 1
  BY <1>1, <1>4, <1>5, NextStart
<1>7. /\ Cardinality(UpTo(input, f)) \in Nat
      /\ Cardinality(UpTo(input, f + 1)) <= Cardinality(Starts(input))
  BY <1>1, StartsAreFinite
<1>8. QED
  BY <1>2, <1>6, <1>7 DEF Done

LEMMA ItsValue ==
    ASSUME ReaderInv, num_digits > 0, NoDigitNext, at # "exited"
    PROVE  Numbers(input)[Done + 1] = num
<1>1. input \in Seq(Characters) /\ ReaderTypes /\ InNumber
  BY DEF ReaderInv, ReaderTypes
<1>2. PICK b \in Nat, f \in Nat, k \in Nat : b = Behind /\ f = Before /\ k = num_digits
  BY <1>1 DEF ReaderTypes
<1>3. f = b - k
  BY <1>2 DEF Before
<1>4. f < b
  BY <1>2, <1>3
<1>5. /\ b < Cut(input) /\ \A j \in f + 1 .. b : isnum(input[j])
      /\ num = Digital(SubSeq(input, f + 1, b), 10) % WordSize
  BY <1>1, <1>2 DEF InNumber
<1>6. b + 1 = Cut(input) \/ ~ isnum(input[b + 1])
  <2>1. CASE buf = <<>>
    BY <1>2, <2>1, NothingLeft DEF NoDigitNext
  <2>2. CASE buf # <<>>
    BY <1>2, <2>2, NextCharacter DEF NoDigitNext
  <2>3. QED
    BY <2>1, <2>2
<1>7. Ends(input, f + 1) = b + 1
  <2>1. f + 1 \in Nat \ {0} /\ b + 1 \in Nat /\ f + 1 <= b + 1 /\ (b + 1) - 1 = b
    BY <1>4
  <2>2. b + 1 <= Cut(input)
    BY <1>1, <1>5, CutIs
  <2>3. \A j \in f + 1 .. (b + 1) - 1 : isnum(input[j])
    BY <1>5, <2>1
  <2>4. QED
    BY <1>1, <1>6, <2>1, <2>2, <2>3, EndsIs
<1>8. Value(input, f + 1) % WordSize = num
  <2>1. (b + 1) - 1 = b
    OBVIOUS
  <2>2. QED
    BY <1>5, <1>7, <2>1 DEF Value
<1>9. f + 1 \in Starts(input) /\ Cardinality(UpTo(input, f + 1)) = Done + 1
  BY <1>2, TheNumber
<1>10. QED
  BY <1>1, <1>8, <1>9, NumberAt

\* One more write, and it is what it should be.
LEMMA OneMoreFits ==
    ASSUME NEW bytes \in Seq(Int), output \in Seq(Seq(Int)), output' = Append(output, bytes),
           input' = input, NEW k \in Nat, k = Len(output),
           \A n \in 1 .. Len(output) : Fits(n, output[n]), Fits(k + 1, bytes)
    PROVE  /\ output' \in Seq(Seq(Int)) /\ Len(output') = k + 1
           /\ \A n \in 1 .. k + 1 : Fits(n, output[n])'
<1>1. /\ output' \in Seq(Seq(Int)) /\ Len(output') = k + 1 /\ output'[k + 1] = bytes
      /\ \A n \in 1 .. k : output'[n] = output[n]
  OBVIOUS
<1>2. ASSUME NEW n \in 1 .. k + 1 PROVE Fits(n, output'[n])
  <2>1. n = k + 1 \/ n \in 1 .. k
    OBVIOUS
  <2>2. CASE n = k + 1
    BY <1>1, <2>2
  <2>3. CASE n \in 1 .. k
    BY <1>1, <2>3
  <2>4. QED
    BY <2>1, <2>2, <2>3
<1>3. ASSUME NEW n \in 1 .. k + 1 PROVE Fits(n, output[n])'
  BY <1>2 DEF Fits
<1>4. QED
  BY <1>1, <1>3

\* What the program knows when it prints.
LEMMA PrintKnows ==
    ASSUME ReaderInv, at \in {"start", "digits", "end"}
    PROVE  /\ ReaderTypes /\ RestOfInput /\ InNumber /\ AtEnds /\ OutputSoFar
           /\ num_digits > 0 /\ num_digits # 0 /\ NoDigitNext /\ code = 0
           /\ WritesBegun = {IF at = "start" THEN 0 ELSE IF at = "digits" THEN 1 ELSE 2}
<1>1. ReaderTypes /\ RestOfInput /\ InNumber /\ AtEnds /\ OutputSoFar
  BY DEF ReaderInv
<1>2. num_digits > 0 /\ NoDigitNext /\ code = 0 /\ num_digits \in Nat
  BY <1>1 DEF AtEnds, ReaderTypes
<1>3. QED
  BY <1>1, <1>2 DEF WritesBegun

\* A write that fails ends the program.
LEMMA WriteFailsInv ==
    ASSUME ReaderInv, at \in {"start", "digits", "end"}, my_exit(1),
           UNCHANGED <<unread, buf, num, num_digits, output, input, lost>>
    PROVE  ReaderInv'
<1>1. /\ ReaderTypes /\ RestOfInput /\ InNumber /\ AtEnds /\ OutputSoFar
      /\ num_digits > 0 /\ num_digits # 0
      /\ WritesBegun = {IF at = "start" THEN 0 ELSE IF at = "digits" THEN 1 ELSE 2}
  BY PrintKnows
<1>2. at' = "exited" /\ code' = 1
  BY DEF my_exit
<1>3. Behind' = Behind /\ Before' = Before
  BY DEF Behind, Before
<1>4. ReaderTypes' /\ RestOfInput' /\ InNumber'
  BY <1>1, <1>2, <1>3 DEF ReaderTypes, ReaderPlaces, RestOfInput, InNumber
<1>5. AtEnds'
  BY <1>1, <1>2 DEF AtEnds
<1>6. OutputSoFar'
  <2>1. Done' = Done
    BY <1>3 DEF Done
  <2>2. WritesBegun' = 0 .. 2
    BY <1>1, <1>2 DEF WritesBegun
  <2>3. \A w \in WritesBegun : w \in WritesBegun'
    BY <1>1, <2>2
  <2>4. \A j : Fits(j, output[j])' = Fits(j, output[j])
    BY DEF Fits
  <2>5. QED
    BY <1>1, <2>1, <2>3, <2>4 DEF OutputSoFar
<1>7. QED
  BY <1>4, <1>5, <1>6 DEF ReaderInv

\* The first two writes: what they write fits, if they write it.
LEMMA WriteOnInv ==
    ASSUME ReaderInv, NEW w \in {0, 1}, NEW bytes \in Seq(Int),
           at = IF w = 0 THEN "start" ELSE "digits",
           at' = IF w = 0 THEN "digits" ELSE "end",
           UNCHANGED <<unread, buf, num, num_digits, code, input>>,
           \/ output' = Append(output, bytes) /\ lost' = lost
           \/ lost' = TRUE /\ output' = output,
           Fits(3 * Done + w + 1, bytes)
    PROVE  ReaderInv'
<1>1. /\ ReaderTypes /\ RestOfInput /\ InNumber /\ AtEnds /\ OutputSoFar
      /\ num_digits > 0 /\ num_digits # 0 /\ NoDigitNext /\ code = 0
      /\ WritesBegun = {w}
  BY PrintKnows
<1>2. Behind' = Behind /\ Before' = Before /\ Done' = Done
  BY DEF Behind, Before, Done
<1>3. PICK d \in Nat : d = Done
  BY <1>1, TheNumber
<1>4. output' \in Seq(Seq(Int))
  <2>1. output \in Seq(Seq(Int))
    BY <1>1 DEF ReaderTypes
  <2>2. Append(output, bytes) \in Seq(Seq(Int))
    BY <2>1
  <2>3. QED
    BY <2>1, <2>2
<1>5. ReaderTypes' /\ RestOfInput' /\ InNumber'
  BY <1>1, <1>2, <1>4 DEF ReaderTypes, ReaderPlaces, RestOfInput, InNumber
<1>6. AtEnds'
  <2>1. NoDigitNext'
    BY <1>1 DEF NoDigitNext, isnum
  <2>2. QED
    BY <1>1, <2>1 DEF AtEnds
<1>7. OutputSoFar'
  <2> SUFFICES ASSUME ~ lost'
               PROVE  /\ \E v \in WritesBegun' : Len(output') = 3 * d + v
                      /\ \A n \in 1 .. Len(output') : Fits(n, output[n])'
    BY <1>2, <1>3 DEF OutputSoFar
  <2>1. output' = Append(output, bytes) /\ ~ lost
    BY <1>1 DEF ReaderTypes
  <2>2. /\ Len(output) = 3 * d + w
        /\ \A n \in 1 .. Len(output) : Fits(n, output[n])
    BY <1>1, <1>3, <2>1 DEF OutputSoFar
  <2>3. PICK k \in Nat : k = Len(output) /\ k = 3 * d + w
    BY <2>2
  <2>4. Fits(k + 1, bytes)
    BY <1>3, <2>3
  <2>5. Len(output') = k + 1 /\ \A n \in 1 .. k + 1 : Fits(n, output[n])'
    BY <1>1, <2>1, <2>2, <2>3, <2>4, OneMoreFits DEF ReaderTypes
  <2>6. w + 1 \in WritesBegun'
    BY DEF WritesBegun
  <2>7. k + 1 = 3 * d + (w + 1)
    BY <2>3
  <2>8. QED
    BY <2>5, <2>6, <2>7
<1>8. QED
  BY <1>5, <1>6, <1>7 DEF ReaderInv

\* The last one: the number is printed, and the next has no digit yet.
LEMMA WriteEndsInv ==
    ASSUME ReaderInv, at = "end", at' = "body", num' = 0, num_digits' = 0,
           UNCHANGED <<unread, buf, code, input>>,
           \/ output' = Append(output, NewLine) /\ lost' = lost
           \/ lost' = TRUE /\ output' = output
    PROVE  ReaderInv'
<1>1. /\ ReaderTypes /\ RestOfInput /\ InNumber /\ AtEnds /\ OutputSoFar
      /\ num_digits > 0 /\ NoDigitNext /\ code = 0 /\ WritesBegun = {2}
  BY PrintKnows
<1>2. input \in Seq(Characters) /\ Behind \in Nat
  BY <1>1 DEF ReaderTypes
<1>3. Behind' = Behind
  BY DEF Behind
<1>4. Before' = Behind
  BY <1>2, <1>3 DEF Before
<1>5. PICK d \in Nat : d = Done /\ Done' = d + 1
  BY <1>1, <1>4, TheNumber DEF Done
<1>6. NewLine \in Seq(Int)
  BY DEF NewLine
<1>7. output' \in Seq(Seq(Int))
  <2>1. output \in Seq(Seq(Int))
    BY <1>1 DEF ReaderTypes
  <2>2. Append(output, NewLine) \in Seq(Seq(Int))
    BY <1>6, <2>1
  <2>3. QED
    BY <2>1, <2>2
<1>8. ReaderTypes'
  BY <1>1, <1>2, <1>3, <1>4, <1>7 DEF ReaderTypes, ReaderPlaces
<1>9. RestOfInput'
  BY <1>1, <1>3 DEF RestOfInput
<1>10. InNumber'
  <2>1. num' = Digital(SubSeq(input, Behind + 1, Behind), 10) % WordSize
    BY <1>2, NoNumber
  <2>2. \A n \in Behind + 1 .. Behind : FALSE
    BY <1>2
  <2>3. ~ (num_digits' > 0) /\ Behind < Cut(input)
    BY <1>1 DEF InNumber
  <2>4. QED
    BY <1>3, <1>4, <2>1, <2>2, <2>3 DEF InNumber
<1>11. AtEnds'
  <2>1. NoDigitNext'
    BY <1>1 DEF NoDigitNext, isnum
  <2>2. buf = <<>> => unread = <<>>
    BY <1>1 DEF NoDigitNext
  <2>3. QED
    BY <1>1, <2>1, <2>2 DEF AtEnds
<1>12. OutputSoFar'
  <2> SUFFICES ASSUME ~ lost'
               PROVE  /\ \E v \in WritesBegun' : Len(output') = 3 * (d + 1) + v
                      /\ \A n \in 1 .. Len(output') : Fits(n, output[n])'
    BY <1>5 DEF OutputSoFar
  <2>1. output' = Append(output, NewLine) /\ ~ lost
    BY <1>1 DEF ReaderTypes
  <2>2. /\ Len(output) = 3 * d + 2
        /\ \A n \in 1 .. Len(output) : Fits(n, output[n])
    BY <1>1, <1>5, <2>1 DEF OutputSoFar
  <2>3. PICK k \in Nat : k = Len(output) /\ k = 3 * d + 2
    BY <2>2
  <2>4. Fits(k + 1, NewLine)
    <3>1. (k + 1) % 3 = 0
      BY <2>3
    <3>2. QED
      BY <3>1 DEF Fits
  <2>5. Len(output') = k + 1 /\ \A n \in 1 .. k + 1 : Fits(n, output[n])'
    BY <1>1, <1>6, <2>1, <2>2, <2>3, <2>4, OneMoreFits DEF ReaderTypes
  <2>6. 0 \in WritesBegun'
    BY DEF WritesBegun
  <2>7. k + 1 = 3 * (d + 1) + 0
    BY <2>3
  <2>8. QED
    BY <2>5, <2>6, <2>7
<1>13. QED
  BY <1>8, <1>9, <1>10, <1>11, <1>12 DEF ReaderInv

LEMMA PrintInv == ASSUME ReaderInv, print PROVE ReaderInv'
<1>1. PICK d \in Nat : at \in {"start", "digits", "end"} => d = Done
  <2>1. at \in {"start", "digits", "end"} => Done \in Nat
    BY PrintKnows, TheNumber
  <2>2. QED
    BY <2>1
<1>2. CASE at = "start" /\ my_write(Prefix, "digits")
           /\ UNCHANGED <<unread, buf, num, num_digits, input>>
  <2>1. CASE my_exit(1) /\ UNCHANGED <<output, lost>>
    BY <1>2, <2>1, WriteFailsInv
  <2>2. CASE /\ at' = "digits" /\ UNCHANGED code
             /\ \/ output' = Append(output, Prefix) /\ lost' = lost
                \/ lost' = TRUE /\ output' = output
    <3>1. Fits(3 * Done + 0 + 1, Prefix)
      <4>1. (3 * d + 0 + 1) % 3 = 1
        OBVIOUS
      <4>2. QED
        BY <1>1, <1>2, <4>1 DEF Fits
    <3>2. Prefix \in Seq(Int)
      BY DEF Prefix
    <3>3. QED
      BY <1>2, <2>2, <3>1, <3>2, WriteOnInv
  <2>3. QED
    BY <1>2, <2>1, <2>2 DEF my_write
<1>3. CASE at = "digits" /\ my_write(HexDigits(num), "end")
           /\ UNCHANGED <<unread, buf, num, num_digits, input>>
  <2>1. CASE my_exit(1) /\ UNCHANGED <<output, lost>>
    BY <1>3, <2>1, WriteFailsInv
  <2>2. CASE /\ at' = "end" /\ UNCHANGED code
             /\ \/ output' = Append(output, HexDigits(num)) /\ lost' = lost
                \/ lost' = TRUE /\ output' = output
    <3>1. num \in Nat /\ num_digits > 0 /\ NoDigitNext
      BY <1>3, PrintKnows DEF ReaderTypes
    <3>2. IsHex(HexDigits(num), num)
      BY <3>1, HexIsHex
    <3>3. HexDigits(num) \in Seq(Int)
      <4>1. HexDigits(num) \in Seq(0 .. 15)
        BY <3>2 DEF IsHex
      <4>2. QED
        BY <4>1
    <3>4. Numbers(input)[d + 1] = num
      BY <1>1, <1>3, <3>1, ItsValue
    <3>5. Fits(3 * Done + 1 + 1, HexDigits(num))
      <4>1. (3 * d + 1 + 1) % 3 = 2 /\ (3 * d + 1 + 1 + 1) \div 3 = d + 1
        OBVIOUS
      <4>2. QED
        BY <1>1, <1>3, <3>2, <3>4, <4>1 DEF Fits
    <3>6. /\ 1 \in {0, 1} /\ at = IF 1 = 0 THEN "start" ELSE "digits"
          /\ at' = IF 1 = 0 THEN "digits" ELSE "end"
      BY <1>3, <2>2
    <3>7. /\ UNCHANGED <<unread, buf, num, num_digits, code, input>>
          /\ \/ output' = Append(output, HexDigits(num)) /\ lost' = lost
             \/ lost' = TRUE /\ output' = output
      BY <1>3, <2>2
    <3>8. QED
      BY <3>3, <3>5, <3>6, <3>7, WriteOnInv
  <2>3. QED
    BY <1>3, <2>1, <2>2 DEF my_write
<1>4. CASE /\ at = "end" /\ my_write(NewLine, "body")
           /\ IF at' = "body" THEN num' = 0 /\ num_digits' = 0
              ELSE UNCHANGED <<num, num_digits>>
           /\ UNCHANGED <<unread, buf, input>>
  <2>1. CASE my_exit(1) /\ UNCHANGED <<output, lost>>
    <3>1. UNCHANGED <<num, num_digits>>
      BY <1>4, <2>1 DEF my_exit
    <3>2. QED
      BY <1>4, <2>1, <3>1, WriteFailsInv
  <2>2. CASE /\ at' = "body" /\ UNCHANGED code
             /\ \/ output' = Append(output, NewLine) /\ lost' = lost
                \/ lost' = TRUE /\ output' = output
    BY <1>4, <2>2, WriteEndsInv
  <2>3. QED
    BY <1>4, <2>1, <2>2 DEF my_write
<1>5. QED
  BY <1>2, <1>3, <1>4 DEF print

LEMMA ReaderStepInv == ReaderInv /\ [ReaderNext]_ReaderVars => ReaderInv'
<1> SUFFICES ASSUME ReaderInv, [ReaderNext]_ReaderVars PROVE ReaderInv'
  OBVIOUS
<1>1. CASE my_read
  BY <1>1, ReadInv
<1>2. CASE NoRead
  BY <1>2, NoReadInv
<1>3. CASE Body
  BY <1>3, BodyInv
<1>4. CASE print
  BY <1>4, PrintInv
<1>5. CASE ReadFails
  BY <1>5, ReadFailsInv
<1>6. CASE UNCHANGED ReaderVars
  <2>1. UNCHANGED <<at, unread, buf, num, num_digits, code, output, input, lost>>
    BY <1>6 DEF ReaderVars
  <2>2. ReaderTypes /\ RestOfInput /\ InNumber /\ AtEnds /\ OutputSoFar
    BY DEF ReaderInv
  <2>3. Behind' = Behind /\ Before' = Before
    BY <2>1 DEF Behind, Before
  <2>4. ReaderTypes' /\ RestOfInput' /\ InNumber'
    BY <2>1, <2>2, <2>3 DEF ReaderTypes, RestOfInput, InNumber
  <2>5. AtEnds'
    BY <2>1, <2>2, <2>3 DEF AtEnds, NoDigitNext, isnum
  <2>6. OutputSoFar'
    BY <2>1, <2>2, <2>3 DEF OutputSoFar, Fits, Done, WritesBegun
  <2>7. QED
    BY <2>4, <2>5, <2>6 DEF ReaderInv
<1>7. QED
  BY <1>1, <1>2, <1>3, <1>4, <1>5, <1>6 DEF ReaderNext, Run

LEMMA ReaderInvPrints == ReaderInv => PrintsNumbers
<1> SUFFICES ASSUME ReaderInv, ~ lost PROVE PrintsNumbers
  BY DEF PrintsNumbers
<1>1. ReaderTypes /\ InNumber /\ AtEnds /\ OutputSoFar
  BY DEF ReaderInv
<1>2. /\ input \in Seq(Characters) /\ output \in Seq(Seq(Int)) /\ Behind \in Nat
      /\ Before \in Nat /\ num_digits \in Nat
  BY <1>1 DEF ReaderTypes
<1>3. PICK c \in Nat : /\ c = Cardinality(Starts(input))
                       /\ \A b : Cardinality(UpTo(input, b)) \in Nat
                                 /\ Cardinality(UpTo(input, b)) <= c
  BY <1>2, StartsAreFinite
<1>4. Len(Numbers(input)) = c
  BY <1>3 DEF Numbers
<1>5. PICK d \in Nat : d = Done /\ d <= c
  BY <1>3 DEF Done
<1>6. PICK w \in WritesBegun : Len(output) = 3 * d + w
  BY <1>1, <1>5 DEF OutputSoFar
<1>7. \A n \in 1 .. Len(output) : Fits(n, output[n])
  BY <1>1 DEF OutputSoFar
<1>8. w \in 0 .. 2
  BY DEF WritesBegun
<1>9. Len(output) <= 3 * c
  <2>1. CASE w = 0
    BY <1>5, <1>6, <2>1
  <2>2. CASE w # 0
    <3>1. num_digits > 0
      BY <1>1, <2>2 DEF WritesBegun, AtEnds
    <3>2. d + 1 <= c
      BY <1>3, <1>5, <3>1, TheNumber
    <3>3. QED
      BY <1>5, <1>6, <1>8, <3>2
  <2>3. QED
    BY <2>1, <2>2
<1>10. ASSUME NEW k \in DOMAIN output
       PROVE  CASE k % 3 = 1 -> output[k] = Prefix
                [] k % 3 = 2 -> IsHex(output[k], Numbers(input)[(k + 1) \div 3])
                [] k % 3 = 0 -> output[k] = NewLine
  <2>1. k \in Nat /\ Fits(k, output[k])
    <3>1. k \in 1 .. Len(output) /\ Len(output) \in Nat
      BY <1>2
    <3>2. QED
      BY <1>7, <3>1
  <2>2. k % 3 = 0 \/ k % 3 = 1 \/ k % 3 = 2
    BY <2>1
  <2>3. QED
    BY <2>1, <2>2 DEF Fits
<1>11. ASSUME at = "exited", code = 0 PROVE Len(output) = 3 * c
  <2>1. num_digits = 0 /\ Cut(input) = Behind + 1
    BY <1>1, <1>11 DEF AtEnds
  <2>2. Before = Behind
    BY <1>2, <2>1 DEF Before
  <2>3. UpTo(input, Behind) = Starts(input)
    <3>1. \A i \in Starts(input) : i <= Behind
      BY <1>2, <2>1 DEF Starts
    <3>2. QED
      BY <3>1 DEF UpTo
  <2>4. d = c
    BY <1>3, <1>5, <2>2, <2>3 DEF Done
  <2>5. w = 0
    BY <1>11, <2>1 DEF WritesBegun
  <2>6. QED
    BY <1>6, <2>4, <2>5
<1>12. QED
  BY <1>4, <1>9, <1>10, <1>11 DEF PrintsNumbers

\* However the kernel cuts the input into reads, the program prints its numbers
\* in their order, each in base 16 and modulo the word, and all of them if it
\* exits with 0: unless a failed write went unnoticed (_start, print).
THEOREM NumbersArePrinted == ReaderSpec => []PrintsNumbers
<1>1. ReaderInit => ReaderInv
  BY InitReader
<1>2. ReaderInv /\ [ReaderNext]_ReaderVars => ReaderInv'
  BY ReaderStepInv
<1>3. ReaderInv => PrintsNumbers
  BY ReaderInvPrints
<1>4. QED
  BY <1>1, <1>2, <1>3, PTL DEF ReaderSpec
=============================================================================
