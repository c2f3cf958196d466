---------------------------- MODULE MemAllocProofs -----------------------------
(***************************************************************************)
(* The user-space allocator of user/mem_alloc.c, for a heap of any size    *)
(* and any requests: blocks never overlap, the list leads upwards from     *)
(* each block to the next, and the only word of a payload my_malloc ever   *)
(* writes is where a tail that was gathered still has its `next'.          *)
(***************************************************************************)
EXTENDS MemAlloc, FiniteSetTheorems, TLAPS

Types ==
    /\ mem \in [Words -> Nat]
    /\ brk \in Base .. MaxBreak
    /\ head \in Nat /\ tail \in Nat
    /\ pc \in {"idle", "search", "astray"} /\ size \in Nat /\ my_size \in Nat
    /\ blocks \subseteq Nat /\ \A b \in blocks : Base <= b /\ b + HDR <= brk
    /\ \A p \in DOMAIN live : p \in Nat /\ live[p] \in Nat
    /\ freed \subseteq Nat

\* The three words at h belong to no block's header: h was a block that is
\* gathered now.
Apart(h) ==
    /\ h + HDR <= brk
    /\ \A b \in blocks : h + HDR <= b \/ b + HDR <= h

\* The list has a first block; the tail is above all blocks, or the last one, or
\* was gathered into it.
EndsOfList ==
    /\ head # NULL => head \in blocks
    /\ tail = NULL => blocks = {}
    /\ tail # NULL => /\ tail \in blocks \/ Apart(tail)
                      /\ \A b \in blocks : b <= tail

\* A search is at a block or the end of the list.  The blocks it is gathering
\* are free, and their payloads together fit below the next one.
SearchOK ==
    pc = "search" =>
        /\ curr = NULL \/ curr \in blocks
        /\ curr # NULL /\ new_block # NULL =>
              /\ new_block \in blocks /\ new_block < curr
              /\ new_block + HDR + my_size <= curr
              /\ \A b \in blocks : new_block <= b /\ b < curr => Free(b)

\* What the program has given back is still a block, or was gathered.
FreedOK ==
    \A a \in freed :
        /\ a \notin DOMAIN live /\ a >= Base + HDR
        /\ a - HDR \in blocks \/ Apart(a - HDR)

\* No block is empty: no request for nothing gets as far as the search.
Sized ==
    /\ \A b \in blocks : SizeOf(b) # 0
    /\ pc = "search" => size # 0

Inv ==
    /\ Types /\ BlocksDisjoint /\ ListOrdered /\ EndsOfList /\ SearchOK /\ FreedOK
    /\ Sized
-----------------------------------------------------------------------------
\* BlocksDisjoint in two: where the blocks are, and what they are marked.
Layout ==
    \A b \in blocks :
        /\ b + HDR + SizeOf(b) <= brk
        /\ \A c \in blocks : b < c => b + HDR + SizeOf(b) <= c

Marks ==
    /\ \A b \in blocks : ~Free(b) <=> b + HDR \in DOMAIN live
    /\ \A p \in DOMAIN live : p - HDR \in blocks /\ live[p] <= SizeOf(p - HDR)

LEMMA TwoParts == BlocksDisjoint <=> Layout /\ Marks
BY DEF BlocksDisjoint, Layout, Marks

\* ListOrdered for the time before an address is freed that was never handed out.
InOrder ==
    /\ head = NULL <=> blocks = {}
    /\ \A b \in blocks :
          /\ head <= b
          /\ NextOf(b) # NULL =>
                /\ NextOf(b) \in blocks /\ NextOf(b) > b
                /\ \A c \in blocks : c <= b \/ NextOf(b) <= c

LEMMA ListInOrder ==
    /\ ListOrdered /\ pc # "astray" => InOrder
    /\ InOrder => ListOrdered
BY DEF ListOrdered, InOrder

LEMMA Numbers ==
    /\ HDR = 3 /\ NULL = 0 /\ Base \in Nat \ {0} /\ MaxBreak \in Nat
    /\ Sizes \subseteq Nat /\ Cookies \subseteq Nat
BY MemAllocAssumption DEF HDR, NULL

\* The three words of a header are on the heap.
LEMMA Headers ==
    ASSUME Types, NEW b \in blocks
    PROVE  /\ b \in Nat \ {0} /\ b + HDR <= brk
           /\ b \in Words /\ b + 1 \in Words /\ b + 2 \in Words
           /\ SizeOf(b) \in Nat /\ NextOf(b) \in Nat /\ mem[b + 1] \in Nat
<1>1. b \in Nat \ {0} /\ b + 3 <= brk /\ brk \in Nat /\ brk <= MaxBreak
  BY Numbers DEF Types
<1>2. b \in Words /\ b + 1 \in Words /\ b + 2 \in Words
  BY <1>1, Numbers DEF Words
<1>3. QED
  BY <1>1, <1>2, Numbers DEF Types, SizeOf, NextOf

\* No two headers share a word.
LEMMA HeadersApart ==
    ASSUME Types, Layout, NEW b \in blocks, NEW c \in blocks, b # c
    PROVE  b + HDR <= c \/ c + HDR <= b
<1>1. b \in Nat /\ c \in Nat /\ SizeOf(b) \in Nat /\ SizeOf(c) \in Nat
  BY Headers
<1>2. /\ b < c => b + HDR + SizeOf(b) <= c
      /\ c < b => c + HDR + SizeOf(c) <= b
  BY DEF Layout
<1>3. QED
  BY <1>1, <1>2, Numbers

\* A payload the program holds lies on the heap, and in no header.
LEMMA Payloads ==
    ASSUME Types, Layout, Marks, NEW p \in DOMAIN live, NEW w \in Payload(p)
    PROVE  /\ w \in Words /\ w < brk
           /\ \A b \in blocks : w < b \/ b + HDR <= w
<1> DEFINE h == p - HDR
<1>1. h \in blocks /\ live[p] <= SizeOf(h) /\ live[p] \in Nat
  BY DEF Marks, Types
<1>2. h \in Nat /\ SizeOf(h) \in Nat /\ h + HDR + SizeOf(h) <= brk
  BY <1>1, Headers DEF Layout
<1>3. p \in Int /\ h = p - 3
  BY Numbers, <1>2 DEF Types
<1>4. w \in Int /\ h + 3 <= w /\ w < h + 3 + SizeOf(h)
  BY <1>1, <1>2, <1>3 DEF Payload
<1>5. w \in Words /\ w < brk
  BY <1>2, <1>4, Numbers DEF Words, Types
<1>6. ASSUME NEW b \in blocks
      PROVE  w < b \/ b + HDR <= w
  <2>1. b \in Nat /\ SizeOf(b) \in Nat
    BY Headers
  <2>2. /\ h < b => h + HDR + SizeOf(h) <= b
        /\ b < h => b + HDR + SizeOf(b) <= h
    BY <1>1 DEF Layout
  <2>3. QED
    BY <1>2, <1>4, <2>1, <2>2, Numbers
<1>7. QED
  BY <1>5, <1>6

\* A step that leaves the blocks, their sizes and their links alone, whatever
\* else it writes, keeps the layout and the list.
LEMMA KeepsList ==
    ASSUME Inv, pc # "astray", UNCHANGED <<brk, head, tail, blocks>>,
           \A b \in blocks : mem'[b] = mem[b] /\ mem'[b + 2] = mem[b + 2]
    PROVE  Layout' /\ InOrder' /\ EndsOfList' /\ \A b \in blocks' : SizeOf(b)' # 0
<1>1. Layout /\ InOrder /\ EndsOfList /\ \A b \in blocks : SizeOf(b) # 0
  BY TwoParts, ListInOrder DEF Inv, Sized
<1>2. \A b \in blocks' : b \in blocks /\ SizeOf(b)' = SizeOf(b) /\ NextOf(b)' = NextOf(b)
  BY DEF SizeOf, NextOf
<1>3. Layout'
  BY <1>1, <1>2 DEF Layout
<1>4. InOrder'
  BY <1>1, <1>2 DEF InOrder
<1>5. EndsOfList'
  BY <1>1 DEF EndsOfList, Apart
<1>6. \A b \in blocks' : SizeOf(b)' # 0
  BY <1>1, <1>2
<1>7. QED
  BY <1>3, <1>4, <1>5, <1>6

LEMMA InitInv == Init => Inv
<1> SUFFICES ASSUME Init PROVE Inv
  OBVIOUS
<1>1. Types
  BY Numbers, MemAllocAssumption DEF Init, Types, Words
<1>2. BlocksDisjoint /\ ListOrdered /\ EndsOfList
  BY DEF Init, BlocksDisjoint, ListOrdered, EndsOfList
<1>3. SearchOK /\ FreedOK /\ Sized
  BY DEF Init, SearchOK, FreedOK, Sized
<1>4. QED
  BY <1>1, <1>2, <1>3 DEF Inv

LEMMA MallocInv ==
    ASSUME Inv, NEW n \in Sizes, my_malloc(n)
    PROVE  Inv'
<1>1. /\ pc = "idle"
      /\ UNCHANGED <<mem, brk, head, tail, live, freed, blocks>>
      /\ \/ pc' = pc /\ UNCHANGED search
         \/ /\ pc' = "search" /\ size' = n /\ curr' = head /\ new_block' = NULL
            /\ my_size' = 0 /\ n # 0
  BY DEF my_malloc
<1>2. Types'
  BY <1>1, Numbers DEF Inv, Types, search
<1>3. BlocksDisjoint' /\ ListOrdered' /\ EndsOfList' /\ FreedOK'
  BY <1>1 DEF Inv, BlocksDisjoint, SizeOf, Free, NextOf, ListOrdered, EndsOfList, Apart,
              FreedOK
<1>4. SearchOK'
  BY <1>1 DEF Inv, SearchOK, search, EndsOfList, Free
<1>5. Sized'
  BY <1>1 DEF Inv, Sized, SizeOf
<1>6. QED
  BY <1>2, <1>3, <1>4, <1>5 DEF Inv

\* The payload of a block that is handed out: the part of HandOut(b) that the
\* blocks' marks and the addresses given back depend on.
LEMMA HandOutMarks ==
    ASSUME Inv, NEW b, HandOut(b)
    PROVE  /\ DOMAIN live' = DOMAIN live \cup {b + HDR}
           /\ live'[b + HDR] = size
           /\ \A q \in DOMAIN live \ {b + HDR} : live'[q] = live[q]
           /\ freed' = freed \ {b + HDR}
           /\ pc' = "idle" /\ size' = 0 /\ my_size' = 0
BY DEF HandOut, Return

LEMMA TakeInv ==
    ASSUME Inv, TakeBlock
    PROVE  Inv'
<1> USE Numbers
<1>1. /\ pc = "search" /\ curr # NULL /\ Free(curr) /\ SizeOf(curr) >= size
      /\ mem' = [mem EXCEPT ![curr + 1] = 0]
      /\ HandOut(curr)
      /\ UNCHANGED <<brk, head, tail, blocks>>
  BY DEF TakeBlock, InSearch
<1>2. curr \in blocks /\ Types /\ Layout /\ Marks
  BY <1>1, TwoParts DEF Inv, SearchOK
<1>3. /\ curr \in Nat /\ curr + 1 \in Words
      /\ \A b \in blocks : b \in Nat /\ b + 1 \in Words
  BY <1>2, Headers
<1>4. \A b \in blocks \ {curr} : b + 3 <= curr \/ curr + 3 <= b
  BY <1>2, HeadersApart
<1>5. mem' \in [Words -> Nat] /\ mem'[curr + 1] = 0 /\ \A w \in Words \ {curr + 1} : mem'[w] = mem[w]
  BY <1>1, <1>2, <1>3 DEF Types
<1>6. /\ \A b \in blocks : mem'[b] = mem[b] /\ mem'[b + 2] = mem[b + 2]
      /\ \A b \in blocks \ {curr} : mem'[b + 1] = mem[b + 1]
  <2>1. ASSUME NEW b \in blocks
        PROVE  mem'[b] = mem[b] /\ mem'[b + 2] = mem[b + 2]
    <3>1. b \in Words /\ b + 2 \in Words /\ b # curr + 1 /\ b + 2 # curr + 1
      BY <1>2, <1>3, <1>4, Headers
    <3>2. QED
      BY <1>5, <3>1
  <2>2. ASSUME NEW b \in blocks \ {curr}
        PROVE  mem'[b + 1] = mem[b + 1]
    <3>1. b + 1 \in Words /\ b + 1 # curr + 1
      BY <1>3
    <3>2. QED
      BY <1>5, <3>1
  <2>3. QED
    BY <2>1, <2>2
<1>7. Layout' /\ InOrder' /\ EndsOfList' /\ \A b \in blocks' : SizeOf(b)' # 0
  BY <1>1, <1>6, KeepsList
<1>8. /\ DOMAIN live' = DOMAIN live \cup {curr + HDR}
      /\ live'[curr + HDR] = size
      /\ \A q \in DOMAIN live \ {curr + HDR} : live'[q] = live[q]
      /\ freed' = freed \ {curr + HDR}
      /\ pc' = "idle" /\ size' = 0 /\ my_size' = 0
  BY <1>1, HandOutMarks
<1>9. Types'
  <2>1. \A p \in DOMAIN live' : p \in Nat /\ live'[p] \in Nat
    BY <1>2, <1>3, <1>8 DEF Types
  <2>2. freed' \subseteq Nat
    BY <1>2, <1>8 DEF Types
  <2>3. QED
    BY <1>1, <1>2, <1>5, <1>8, <2>1, <2>2 DEF Types
<1>10. Marks'
  <2>1. ASSUME NEW b \in blocks'
        PROVE  ~Free(b)' <=> b + HDR \in DOMAIN live'
    <3>1. CASE b = curr
      BY <1>5, <1>8, <3>1 DEF Free
    <3>2. CASE b # curr
      <4>1. b \in blocks \ {curr} /\ b + 3 # curr + 3
        BY <1>1, <1>3, <3>2
      <4>2. Free(b)' <=> Free(b)
        BY <1>6, <4>1 DEF Free
      <4>3. QED
        BY <1>2, <1>8, <4>1, <4>2 DEF Marks
    <3>3. QED
      BY <3>1, <3>2
  <2>2. ASSUME NEW p \in DOMAIN live'
        PROVE  p - HDR \in blocks' /\ live'[p] <= SizeOf(p - HDR)'
    <3>1. CASE p = curr + HDR
      <4>1. p - HDR = curr
        BY <1>3, <3>1
      <4>2. SizeOf(p - HDR)' = SizeOf(p - HDR)
        BY <1>2, <1>6, <4>1 DEF SizeOf
      <4>3. QED
        BY <1>1, <1>2, <1>8, <3>1, <4>1, <4>2
    <3>2. CASE p # curr + HDR
      <4>1. p - HDR \in blocks /\ live'[p] = live[p] /\ live[p] <= SizeOf(p - HDR)
        BY <1>2, <1>8, <3>2 DEF Marks
      <4>2. SizeOf(p - HDR)' = SizeOf(p - HDR)
        BY <1>6, <4>1 DEF SizeOf
      <4>3. QED
        BY <1>1, <4>1, <4>2
    <3>3. QED
      BY <3>1, <3>2
  <2>3. QED
    BY <2>1, <2>2 DEF Marks
<1>11. SearchOK'
  BY <1>8 DEF SearchOK
<1>12. FreedOK'
  BY <1>1, <1>8 DEF Inv, FreedOK, Apart
<1>13. BlocksDisjoint' /\ ListOrdered' /\ Sized'
  BY <1>7, <1>8, <1>10
     DEF BlocksDisjoint, Layout, Marks, InOrder, ListOrdered, Sized
<1>14. QED
  BY <1>7, <1>9, <1>11, <1>12, <1>13 DEF Inv

\* The first of the blocks a search is gathering, and the sum of their sizes.
First == IF new_block = NULL THEN curr ELSE new_block
Total == IF new_block = NULL THEN SizeOf(curr) ELSE my_size + SizeOf(curr)

\* The sum leaves the headers out: it ends before the last of them does.
LEMMA GatheredRun ==
    ASSUME Inv, InSearch, Free(curr)
    PROVE  /\ curr \in blocks /\ First \in blocks /\ First <= curr /\ Total \in Nat
           /\ First + HDR + Total <= curr + HDR + SizeOf(curr)
           /\ \A b \in blocks : First <= b /\ b <= curr => Free(b)
<1> USE Numbers
<1>1. curr \in blocks /\ curr \in Nat /\ SizeOf(curr) \in Nat
  BY Headers DEF Inv, SearchOK, InSearch
<1>2. \A b \in blocks : b \in Nat
  BY Headers DEF Inv
<1>3. CASE new_block = NULL
  BY <1>1, <1>2, <1>3 DEF First, Total
<1>4. CASE new_block # NULL
  <2>1. /\ new_block \in blocks /\ new_block < curr
        /\ new_block + HDR + my_size <= curr
        /\ \A b \in blocks : new_block <= b /\ b < curr => Free(b)
        /\ my_size \in Nat
    BY <1>4 DEF Inv, SearchOK, InSearch, Types
  <2>2. First = new_block /\ Total = my_size + SizeOf(curr)
    BY <1>4 DEF First, Total
  <2>3. \A b \in blocks : new_block <= b /\ b <= curr => Free(b)
    <3>1. \A b \in blocks : b <= curr => b < curr \/ b = curr
      BY <1>1, <1>2
    <3>2. QED
      BY <2>1, <3>1
  <2>4. QED
    BY <1>1, <1>2, <2>1, <2>2, <2>3
<1>5. QED
  BY <1>3, <1>4

\* What was a header stays one, or lies between those that are left.
LEMMA StaysHeaderOrApart ==
    ASSUME Types, Layout, blocks' \subseteq blocks, brk' = brk,
           NEW h, h \in blocks \/ Apart(h)
    PROVE  h \in blocks' \/ Apart(h)'
<1>1. CASE Apart(h)
  BY <1>1 DEF Apart
<1>2. CASE h \in blocks /\ h \notin blocks'
  <2>1. h + HDR <= brk
    BY <1>2, Headers
  <2>2. \A b \in blocks' : h + HDR <= b \/ b + HDR <= h
    BY <1>2, HeadersApart
  <2>3. QED
    BY <2>1, <2>2 DEF Apart
<1>3. QED
  BY <1>1, <1>2

\* The blocks from f to k become one, of size t.
LEMMA JoinInv ==
    ASSUME Inv,
           NEW f \in blocks, NEW k \in blocks, f <= k,
           NEW t \in Nat, f + HDR + t <= k + HDR + SizeOf(k), pc = "search", size <= t,
           \A b \in blocks : f <= b /\ b <= k => Free(b),
           mem' = [mem EXCEPT ![f] = t, ![f + 1] = 0, ![f + 2] = NextOf(k)],
           blocks' = {b \in blocks : b <= f \/ b > k},
           HandOut(f), UNCHANGED <<brk, head, tail>>
    PROVE  Inv'
<1> USE Numbers
<1>1. Types /\ Layout /\ Marks /\ InOrder /\ EndsOfList
  BY TwoParts, ListInOrder DEF Inv
<1>2. /\ \A b \in blocks : b \in Nat \ {0} /\ b + 3 <= brk /\ SizeOf(b) \in Nat
      /\ \A b \in blocks : b \in Words /\ b + 1 \in Words /\ b + 2 \in Words
      /\ NextOf(k) \in Nat
  BY <1>1, Headers
<1>3. \A b, c \in blocks : b # c => b + 3 <= c \/ c + 3 <= b
  BY <1>1, HeadersApart
<1>4. /\ mem' \in [Words -> Nat]
      /\ mem'[f] = t /\ mem'[f + 1] = 0 /\ mem'[f + 2] = NextOf(k)
      /\ \A w \in Words \ {f, f + 1, f + 2} : mem'[w] = mem[w]
  BY <1>1, <1>2 DEF Types
<1>5. ASSUME NEW b \in blocks \ {f}
      PROVE  mem'[b] = mem[b] /\ mem'[b + 1] = mem[b + 1] /\ mem'[b + 2] = mem[b + 2]
  <2>1. b \notin {f, f + 1, f + 2} /\ b + 1 \notin {f, f + 1, f + 2} /\ b + 2 \notin {f, f + 1, f + 2}
    BY <1>2, <1>3
  <2>2. b \in Words /\ b + 1 \in Words /\ b + 2 \in Words
    BY <1>2
  <2>3. QED
    BY <1>4, <2>1, <2>2
<1>6. f \in blocks' /\ blocks' \subseteq blocks /\ \A b \in blocks' : b <= f \/ b > k
  BY <1>2
<1>7. /\ DOMAIN live' = DOMAIN live \cup {f + HDR}
      /\ live'[f + HDR] = size
      /\ \A q \in DOMAIN live \ {f + HDR} : live'[q] = live[q]
      /\ freed' = freed \ {f + HDR}
      /\ pc' = "idle" /\ size' = 0 /\ my_size' = 0
  BY HandOutMarks
<1>8. Types'
  <2>1. \A p \in DOMAIN live' : p \in Nat /\ live'[p] \in Nat
    BY <1>1, <1>2, <1>7 DEF Types
  <2>2. freed' \subseteq Nat
    BY <1>1, <1>7 DEF Types
  <2>3. QED
    BY <1>1, <1>4, <1>6, <1>7, <2>1, <2>2 DEF Types
<1>9. Layout'
  <2>1. f + HDR + t <= brk /\ \A c \in blocks' : f < c => f + HDR + t <= c
    <3>1. k + HDR + SizeOf(k) <= brk /\ \A c \in blocks : k < c => k + HDR + SizeOf(k) <= c
      BY <1>1 DEF Layout
    <3>2. brk \in Nat
      BY <1>1 DEF Types
    <3>3. ASSUME NEW c \in blocks', f < c
          PROVE  f + HDR + t <= c
      <4>1. c \in blocks /\ c > k /\ c \in Nat
        BY <1>2, <1>6, <3>3
      <4>2. k + HDR + SizeOf(k) <= c
        BY <3>1, <4>1
      <4>3. QED
        BY <1>2, <4>1, <4>2
    <3>4. QED
      BY <1>2, <3>1, <3>2, <3>3
  <2>2. ASSUME NEW b \in blocks', b # f
        PROVE  /\ b + HDR + SizeOf(b)' <= brk'
               /\ \A c \in blocks' : b < c => b + HDR + SizeOf(b)' <= c
    BY <1>1, <1>5, <1>6, <2>2 DEF Layout, SizeOf
  <2>3. SizeOf(f)' = t
    BY <1>4 DEF SizeOf
  <2>4. QED
    BY <2>1, <2>2, <2>3 DEF Layout
<1>10. InOrder'
  <2>1. head' # NULL /\ blocks' # {} /\ \A b \in blocks' : head' <= b
    BY <1>1, <1>6 DEF InOrder
  <2>2. ASSUME NEW b \in blocks', NextOf(b)' # NULL
        PROVE  /\ NextOf(b)' \in blocks' /\ NextOf(b)' > b
               /\ \A c \in blocks' : c <= b \/ NextOf(b)' <= c
    <3>1. CASE b = f
      <4>1. NextOf(b)' = NextOf(k)
        BY <1>4, <3>1 DEF NextOf
      <4>2. /\ NextOf(k) \in blocks /\ NextOf(k) > k
            /\ \A c \in blocks : c <= k \/ NextOf(k) <= c
        BY <1>1, <2>2, <4>1 DEF InOrder
      <4>3. NextOf(k) \in blocks' /\ NextOf(k) > f
        BY <1>2, <4>2
      <4>4. \A c \in blocks' : c <= f \/ NextOf(k) <= c
        BY <1>2, <1>6, <4>2
      <4>5. QED
        BY <3>1, <4>1, <4>3, <4>4
    <3>2. CASE b # f
      <4>1. b \in blocks \ {f} /\ NextOf(b)' = NextOf(b)
        BY <1>5, <1>6, <3>2 DEF NextOf
      <4>2. /\ NextOf(b) \in blocks /\ NextOf(b) > b
            /\ \A c \in blocks : c <= b \/ NextOf(b) <= c
        BY <1>1, <2>2, <4>1 DEF InOrder
      <4>3. NextOf(b) <= f \/ NextOf(b) > k
        <5>1. b < f \/ b > k
          BY <1>2, <1>6, <3>2, <4>1
        <5>2. b < f => NextOf(b) <= f
          BY <1>2, <4>1, <4>2
        <5>3. b > k => NextOf(b) > k
          BY <1>2, <4>1, <4>2
        <5>4. QED
          BY <5>1, <5>2, <5>3
      <4>4. QED
        BY <1>6, <4>1, <4>2, <4>3
    <3>3. QED
      BY <3>1, <3>2
  <2>3. QED
    BY <2>1, <2>2 DEF InOrder
<1>11. EndsOfList'
  <2>1. head \in blocks /\ head <= f
    BY <1>1 DEF InOrder, EndsOfList
  <2>2. tail # NULL => tail \in blocks' \/ Apart(tail)'
    <3> DEFINE h == tail
    <3>1. tail # NULL => h \in blocks \/ Apart(h)
      BY <1>1 DEF EndsOfList
    <3>2. PICK x : x = tail
      OBVIOUS
    <3>3. tail # NULL => x \in blocks' \/ Apart(x)'
      BY <1>1, <1>6, <3>1, <3>2, StaysHeaderOrApart
    <3>4. QED
      BY <3>2, <3>3 DEF Apart
  <2>3. QED
    BY <1>1, <1>2, <1>6, <2>1, <2>2 DEF EndsOfList, Apart
<1>12. Marks'
  <2>1. ASSUME NEW b \in blocks'
        PROVE  ~Free(b)' <=> b + HDR \in DOMAIN live'
    <3>1. CASE b = f
      BY <1>4, <1>7, <3>1 DEF Free
    <3>2. CASE b # f
      <4>1. b \in blocks \ {f} /\ b + 3 # f + 3
        BY <1>2, <1>6, <3>2
      <4>2. Free(b)' <=> Free(b)
        BY <1>5, <4>1 DEF Free
      <4>3. QED
        BY <1>1, <1>7, <4>1, <4>2 DEF Marks
    <3>3. QED
      BY <3>1, <3>2
  <2>2. ASSUME NEW p \in DOMAIN live'
        PROVE  p - HDR \in blocks' /\ live'[p] <= SizeOf(p - HDR)'
    <3>1. CASE p = f + HDR
      <4>1. p - HDR = f
        BY <1>2, <3>1
      <4>2. SizeOf(p - HDR)' = t
        BY <1>4, <4>1 DEF SizeOf
      <4>3. QED
        BY <1>6, <1>7, <3>1, <4>1, <4>2
    <3>2. CASE p # f + HDR
      <4> DEFINE h == p - HDR
      <4>1. h \in blocks /\ p \in DOMAIN live /\ live'[p] = live[p] /\ live[p] <= SizeOf(h)
        BY <1>1, <1>7, <3>2 DEF Marks
      <4>2. p \in Nat /\ h + HDR = p /\ h # f
        BY <1>1, <1>2, <3>2, <4>1 DEF Types
      <4>3. ~ Free(h)
        BY <1>1, <4>1, <4>2 DEF Marks
      <4>4. h \in blocks'
        BY <1>2, <4>1, <4>3
      <4>5. SizeOf(h)' = SizeOf(h)
        BY <1>5, <4>1, <4>2 DEF SizeOf
      <4>6. QED
        BY <4>1, <4>4, <4>5
    <3>3. QED
      BY <3>1, <3>2
  <2>3. QED
    BY <2>1, <2>2 DEF Marks
<1>13. SearchOK'
  BY <1>7 DEF SearchOK
<1>14. FreedOK'
  <2>1. ASSUME NEW a \in freed'
        PROVE  /\ a \notin DOMAIN live' /\ a >= Base + HDR
               /\ a - HDR \in blocks' \/ Apart(a - HDR)'
    <3>1. /\ a \in freed /\ a \notin DOMAIN live' /\ a >= Base + HDR
          /\ a - HDR \in blocks \/ Apart(a - HDR)
      BY <1>7 DEF Inv, FreedOK
    <3>2. QED
      BY <1>1, <1>6, <3>1, StaysHeaderOrApart
  <2>2. QED
    BY <2>1 DEF FreedOK
<1>15. Sized'
  <2>1. t # 0
    BY <1>1 DEF Inv, Sized, Types
  <2>2. ASSUME NEW b \in blocks' PROVE mem'[b] # 0
    BY <1>4, <1>5, <1>6, <2>1 DEF Inv, Sized, SizeOf
  <2>3. QED
    BY <1>7, <2>2 DEF Sized, SizeOf
<1>16. BlocksDisjoint' /\ ListOrdered'
  BY <1>9, <1>10, <1>12 DEF BlocksDisjoint, Layout, Marks, InOrder, ListOrdered
<1>17. QED
  BY <1>8, <1>11, <1>13, <1>14, <1>15, <1>16 DEF Inv

\* The search goes on, past a used block or with one more block gathered.
LEMMA GoesOnInv ==
    ASSUME Inv, InSearch, curr \in blocks, curr' = NextOf(curr),
           UNCHANGED <<mem, brk, head, tail, pc, size, live, freed, blocks>>,
           my_size' \in Nat,
           curr' # NULL /\ new_block' # NULL =>
              /\ new_block' \in blocks /\ new_block' < curr'
              /\ new_block' + HDR + my_size' <= curr'
              /\ \A b \in blocks : new_block' <= b /\ b < curr' => Free(b)
    PROVE  Inv'
<1>1. Types'
  BY DEF Inv, Types
<1>2. BlocksDisjoint' /\ ListOrdered' /\ EndsOfList' /\ FreedOK'
  BY DEF Inv, BlocksDisjoint, SizeOf, Free, NextOf, ListOrdered, EndsOfList, Apart, FreedOK
<1>3. curr' = NULL \/ curr' \in blocks
  BY DEF Inv, ListOrdered, InSearch
<1>4. SearchOK'
  BY <1>3 DEF SearchOK, Free
<1>5. Sized'
  BY DEF Inv, Sized, SizeOf
<1>6. QED
  BY <1>1, <1>2, <1>4, <1>5 DEF Inv

LEMMA SkipInv ==
    ASSUME Inv, SkipBlock
    PROVE  Inv'
<1>1. InSearch /\ curr \in blocks
  BY DEF SkipBlock, InSearch, Inv, SearchOK
<1>2. /\ curr' = NextOf(curr) /\ new_block' = NULL /\ my_size' \in Nat
      /\ UNCHANGED <<mem, brk, head, tail, pc, size, live, freed, blocks>>
  BY DEF SkipBlock, Inv, Types
<1>3. QED
  BY <1>1, <1>2, GoesOnInv

LEMMA GatherInv ==
    ASSUME Inv, GatherBlock
    PROVE  Inv'
<1> USE Numbers
<1>1. /\ InSearch /\ Free(curr) /\ SizeOf(curr) < size
      /\ UNCHANGED <<brk, head, tail>>
  BY DEF GatherBlock
<1>2. /\ curr \in blocks /\ First \in blocks /\ First <= curr /\ Total \in Nat
      /\ First + HDR + Total <= curr + HDR + SizeOf(curr)
      /\ \A b \in blocks : First <= b /\ b <= curr => Free(b)
  BY <1>1, GatheredRun
<1>3. size \in Nat
  BY DEF Inv, Types
<1>4. CASE Suffices(Total)
  <2>1. /\ mem' = Join(First, Total)
        /\ blocks' = {b \in blocks : b <= First \/ b > curr}
        /\ HandOut(First)
    BY <1>4 DEF GatherBlock, First, Total
  <2>2. PICK f \in blocks, k \in blocks, t \in Nat : f = First /\ k = curr /\ t = Total
    BY <1>2
  <2>3. /\ f <= k /\ f + HDR + t <= k + HDR + SizeOf(k) /\ size <= t
        /\ \A b \in blocks : f <= b /\ b <= k => Free(b)
    BY <1>2, <1>3, <1>4, <2>2 DEF Suffices
  <2>4. /\ mem' = [mem EXCEPT ![f] = t, ![f + 1] = 0, ![f + 2] = NextOf(k)]
        /\ blocks' = {b \in blocks : b <= f \/ b > k}
        /\ HandOut(f)
    BY <2>1, <2>2 DEF Join
  <2>5. QED
    BY <1>1, <2>3, <2>4, JoinInv DEF InSearch
<1>5. CASE ~ Suffices(Total)
  <2>1. /\ new_block' = First /\ my_size' = Total /\ curr' = NextOf(curr)
        /\ UNCHANGED <<mem, pc, size, live, freed, blocks>>
    BY <1>5 DEF GatherBlock, First, Total
  <2>2. CASE curr' # NULL
    <3>1. /\ NextOf(curr) \in blocks /\ NextOf(curr) > curr
          /\ \A c \in blocks : c <= curr \/ NextOf(curr) <= c
      BY <1>1, <1>2, <2>1, <2>2 DEF Inv, ListOrdered, InSearch
    <3>2. curr + HDR + SizeOf(curr) <= NextOf(curr)
      BY <1>2, <3>1, TwoParts DEF Inv, Layout
    <3>3. \A b \in blocks : b \in Nat /\ SizeOf(b) \in Nat
      BY Headers DEF Inv
    <3>4. First < NextOf(curr) /\ First + HDR + Total <= NextOf(curr)
      BY <1>2, <3>1, <3>2, <3>3
    <3>5. \A b \in blocks : First <= b /\ b < NextOf(curr) => Free(b)
      <4>1. \A b \in blocks : b < NextOf(curr) => b <= curr
        BY <3>1, <3>3
      <4>2. QED
        BY <1>2, <4>1
    <3>6. QED
      BY <1>1, <1>2, <2>1, <3>4, <3>5, GoesOnInv
  <2>3. CASE curr' = NULL
    BY <1>1, <1>2, <2>1, <2>3, GoesOnInv
  <2>4. QED
    BY <2>2, <2>3
<1>6. QED
  BY <1>4, <1>5

\* The heap grows by a block at the old break, and the tail is linked to it,
\* wherever the tail is.
LEMMA GrowInv ==
    ASSUME Inv, Grow
    PROVE  Inv'
<1> USE Numbers
<1>1. Types /\ Layout /\ Marks /\ InOrder /\ EndsOfList
  BY TwoParts, ListInOrder DEF Inv, Grow
<1>2. PICK k \in Nat \ {0}, t \in Nat : k = brk /\ t = tail
  BY <1>1 DEF Types
<1> DEFINE linked == IF t = NULL THEN mem ELSE [mem EXCEPT ![t + 2] = k]
<1>3. /\ k + size + 3 <= MaxBreak /\ brk' = k + size + 3
      /\ mem' = [linked EXCEPT ![k] = size, ![k + 1] = 0, ![k + 2] = 0]
      /\ head' = (IF head = NULL THEN k ELSE head)
      /\ tail' = k /\ blocks' = blocks \cup {k} /\ HandOut(k)
  BY <1>2 DEF Grow, NewBreak, NewTail
<1>4. /\ size \in Nat
      /\ \A b \in blocks : /\ b \in Nat \ {0} /\ b + 3 <= k /\ SizeOf(b) \in Nat
                            /\ b \in Words /\ b + 1 \in Words /\ b + 2 \in Words
                            /\ NextOf(b) \in Nat
  BY <1>1, <1>2, Headers DEF Types
<1>5. \A b, c \in blocks : b # c => b + 3 <= c \/ c + 3 <= b
  BY <1>1, HeadersApart
<1>6. t # 0 => /\ t + 3 <= k
               /\ \A b \in blocks : b = t \/ t + 3 <= b \/ b + 3 <= t
  <2>1. CASE t \in blocks
    BY <1>4, <1>5, <2>1
  <2>2. CASE Apart(t)
    BY <1>2, <2>2 DEF Apart
  <2>3. QED
    BY <1>1, <1>2, <2>1, <2>2 DEF EndsOfList
<1>7. k \in Words /\ k + 1 \in Words /\ k + 2 \in Words
  BY <1>3, <1>4 DEF Words
<1>8. linked \in [Words -> Nat]
  BY <1>1 DEF Types
<1>9. /\ mem' \in [Words -> Nat]
      /\ mem'[k] = size /\ mem'[k + 1] = 0 /\ mem'[k + 2] = 0
      /\ \A w \in Words \ {k, k + 1, k + 2} : mem'[w] = linked[w]
  <2> HIDE DEF linked
  <2>1. QED
    BY <1>3, <1>4, <1>7, <1>8
<1>10. ASSUME NEW b \in blocks
       PROVE  /\ mem'[b] = mem[b] /\ mem'[b + 1] = mem[b + 1]
              /\ b # t => mem'[b + 2] = mem[b + 2]
              /\ b = t => mem'[b + 2] = k
  <2>1. /\ b \notin {k, k + 1, k + 2} /\ b + 1 \notin {k, k + 1, k + 2}
        /\ b + 2 \notin {k, k + 1, k + 2}
    BY <1>4
  <2>2. mem'[b] = linked[b] /\ mem'[b + 1] = linked[b + 1] /\ mem'[b + 2] = linked[b + 2]
    BY <1>4, <1>9, <2>1
  <2>3. t # 0 => b # t + 2 /\ b + 1 # t + 2
    BY <1>4, <1>6
  <2>4. b # t /\ t # 0 => b + 2 # t + 2
    BY <1>4
  <2>5. /\ linked[b] = mem[b] /\ linked[b + 1] = mem[b + 1]
        /\ b # t => linked[b + 2] = mem[b + 2]
    BY <1>1, <1>4, <2>3, <2>4 DEF Types
  <2>6. b = t => linked[b + 2] = k
    BY <1>1, <1>4 DEF Types
  <2>7. QED
    BY <2>2, <2>5, <2>6
<1> HIDE DEF linked
<1>11. /\ DOMAIN live' = DOMAIN live \cup {k + HDR}
       /\ live'[k + HDR] = size
       /\ \A q \in DOMAIN live \ {k + HDR} : live'[q] = live[q]
       /\ freed' = freed \ {k + HDR}
       /\ pc' = "idle" /\ size' = 0 /\ my_size' = 0
  BY <1>3, HandOutMarks
<1>12. Types'
  <2>1. \A p \in DOMAIN live' : p \in Nat /\ live'[p] \in Nat
    BY <1>1, <1>4, <1>11 DEF Types
  <2>2. brk' \in Base .. MaxBreak /\ head' \in Nat /\ tail' \in Nat
    BY <1>1, <1>2, <1>3, <1>4 DEF Types
  <2>3. blocks' \subseteq Nat /\ \A b \in blocks' : Base <= b /\ b + HDR <= brk'
    BY <1>1, <1>2, <1>3, <1>4 DEF Types
  <2>4. freed' \subseteq Nat
    BY <1>1, <1>11 DEF Types
  <2>5. QED
    BY <1>9, <1>11, <2>1, <2>2, <2>3, <2>4 DEF Types
<1>13. Layout'
  <2>1. ASSUME NEW b \in blocks
        PROVE  /\ b + HDR + SizeOf(b)' <= k
               /\ \A c \in blocks : b < c => b + HDR + SizeOf(b)' <= c
    BY <1>1, <1>2, <1>10 DEF Layout, SizeOf
  <2>2. SizeOf(k)' = size
    BY <1>9 DEF SizeOf
  <2>3. ASSUME NEW b \in blocks
        PROVE  b + HDR + SizeOf(b)' <= brk'
    <3>1. SizeOf(b)' \in Nat
      BY <1>4, <1>10 DEF SizeOf
    <3>2. b \in Nat /\ b + 3 + SizeOf(b)' <= k
      BY <1>4, <2>1
    <3>3. b + 3 + SizeOf(b)' <= k + size + 3
      BY <1>2, <1>4, <3>1, <3>2
    <3>4. QED
      BY <1>3, <3>3
  <2>4. \A c \in blocks : ~ (k < c)
    BY <1>4
  <2>5. QED
    BY <1>3, <1>4, <2>1, <2>2, <2>3, <2>4 DEF Layout
<1>14. InOrder'
  <2>1. head' # NULL /\ blocks' # {} /\ \A b \in blocks' : head' <= b
    BY <1>1, <1>3, <1>4 DEF InOrder
  <2>2. ASSUME NEW b \in blocks', NextOf(b)' # NULL
        PROVE  /\ NextOf(b)' \in blocks' /\ NextOf(b)' > b
               /\ \A c \in blocks' : c <= b \/ NextOf(b)' <= c
    <3>1. b # k
      BY <1>9, <2>2 DEF NextOf
    <3>2. b \in blocks
      BY <1>3, <3>1
    <3>3. CASE b = t
      <4>1. NextOf(b)' = k
        BY <1>10, <3>2, <3>3 DEF NextOf
      <4>2. \A c \in blocks : c <= b
        BY <1>1, <1>2, <1>4, <3>2, <3>3 DEF EndsOfList
      <4>3. QED
        BY <1>3, <1>4, <3>2, <4>1, <4>2
    <3>4. CASE b # t
      <4>1. NextOf(b)' = NextOf(b)
        BY <1>10, <3>2, <3>4 DEF NextOf
      <4>2. /\ NextOf(b) \in blocks /\ NextOf(b) > b
            /\ \A c \in blocks : c <= b \/ NextOf(b) <= c
        BY <1>1, <2>2, <3>2, <4>1 DEF InOrder
      <4>3. NextOf(b) <= k
        BY <1>4, <4>2
      <4>4. QED
        BY <1>3, <4>1, <4>2, <4>3
    <3>5. QED
      BY <3>3, <3>4
  <2>3. QED
    BY <2>1, <2>2 DEF InOrder
<1>15. EndsOfList'
  BY <1>1, <1>3, <1>4 DEF EndsOfList
<1>16. Marks'
  <2>1. ASSUME NEW b \in blocks'
        PROVE  ~Free(b)' <=> b + HDR \in DOMAIN live'
    <3>1. CASE b = k
      BY <1>9, <1>11, <3>1 DEF Free
    <3>2. CASE b # k
      <4>1. b \in blocks /\ b + 3 # k + 3
        BY <1>3, <1>4, <3>2
      <4>2. Free(b)' <=> Free(b)
        BY <1>10, <4>1 DEF Free
      <4>3. QED
        BY <1>1, <1>11, <4>1, <4>2 DEF Marks
    <3>3. QED
      BY <3>1, <3>2
  <2>2. ASSUME NEW p \in DOMAIN live'
        PROVE  p - HDR \in blocks' /\ live'[p] <= SizeOf(p - HDR)'
    <3>1. CASE p = k + HDR
      <4>1. p - HDR = k
        BY <3>1
      <4>2. SizeOf(p - HDR)' = size
        BY <1>9, <4>1 DEF SizeOf
      <4>3. QED
        BY <1>3, <1>4, <1>11, <3>1, <4>1, <4>2
    <3>2. CASE p # k + HDR
      <4>1. p - HDR \in blocks /\ live'[p] = live[p] /\ live[p] <= SizeOf(p - HDR)
        BY <1>1, <1>11, <3>2 DEF Marks
      <4>2. SizeOf(p - HDR)' = SizeOf(p - HDR)
        BY <1>10, <4>1 DEF SizeOf
      <4>3. QED
        BY <1>3, <4>1, <4>2
    <3>3. QED
      BY <3>1, <3>2
  <2>3. QED
    BY <2>1, <2>2 DEF Marks
<1>17. SearchOK'
  BY <1>11 DEF SearchOK
<1>18. FreedOK'
  <2>1. ASSUME NEW a \in freed'
        PROVE  /\ a \notin DOMAIN live' /\ a >= Base + HDR
               /\ a - HDR \in blocks' \/ Apart(a - HDR)'
    <3>1. /\ a \in freed /\ a \notin DOMAIN live' /\ a >= Base + HDR
          /\ a - HDR \in blocks \/ Apart(a - HDR)
      BY <1>11 DEF Inv, FreedOK
    <3>2. a \in Nat
      BY <1>1, <3>1 DEF Types
    <3>3. Apart(a - HDR) => Apart(a - HDR)'
      BY <1>2, <1>3, <1>4, <3>2 DEF Apart
    <3>4. QED
      BY <1>3, <3>1, <3>3
  <2>2. QED
    BY <2>1 DEF FreedOK
<1>19. Sized'
  <2>1. size # 0
    BY DEF Inv, Sized, Grow
  <2>2. ASSUME NEW b \in blocks' PROVE mem'[b] # 0
    BY <1>3, <1>9, <1>10, <2>1 DEF Inv, Sized, SizeOf
  <2>3. QED
    BY <1>11, <2>2 DEF Sized, SizeOf
<1>20. BlocksDisjoint' /\ ListOrdered'
  BY <1>13, <1>14, <1>16 DEF BlocksDisjoint, Layout, Marks, InOrder, ListOrdered
<1>21. QED
  BY <1>12, <1>15, <1>17, <1>18, <1>19, <1>20 DEF Inv

\* nbrk refuses: my_malloc returns and nothing else changes.
LEMMA GrowFailsInv ==
    ASSUME Inv, GrowFails
    PROVE  Inv'
<1>1. /\ UNCHANGED <<mem, brk, head, tail, live, freed, blocks>>
      /\ pc = "search" /\ pc' = "idle" /\ size' = 0 /\ my_size' = 0
  BY DEF GrowFails, Return
<1>2. Types'
  BY <1>1 DEF Inv, Types
<1>3. BlocksDisjoint' /\ ListOrdered' /\ EndsOfList' /\ FreedOK'
  BY <1>1 DEF Inv, BlocksDisjoint, SizeOf, Free, NextOf, ListOrdered, EndsOfList, Apart,
              FreedOK
<1>4. SearchOK' /\ Sized'
  BY <1>1 DEF Inv, SearchOK, Sized, SizeOf
<1>5. QED
  BY <1>2, <1>3, <1>4 DEF Inv

\* my_free takes every payload the program holds.
LEMMA LiveIsOwned ==
    ASSUME Inv, NEW p \in DOMAIN live
    PROVE  /\ Owned(p)
           /\ p - HDR \in blocks /\ p - HDR + 1 \in Words /\ p \in Nat
<1> USE Numbers
<1>1. Types /\ Layout /\ Marks
  BY TwoParts DEF Inv
<1>2. PICK h \in blocks : h = p - HDR
  BY <1>1 DEF Marks
<1>3. p \in Nat /\ h \in Nat /\ h + 1 \in Words /\ h + 3 <= brk
  BY <1>1, Headers DEF Types
<1>4. p = h + HDR
  BY <1>2, <1>3
<1>5. mem[h + 1] = 0
  BY <1>1, <1>4 DEF Marks, Free
<1>6. QED
  BY <1>1, <1>2, <1>3, <1>4, <1>5 DEF Owned, Types

LEMMA FreeLiveInv ==
    ASSUME Inv, NEW p \in DOMAIN live, FreeLive(p)
    PROVE  Inv'
<1> USE Numbers
<1>1. Types /\ Layout /\ Marks
  BY TwoParts DEF Inv
<1>2. PICK h \in blocks : h = p - HDR
  BY LiveIsOwned
<1>3. /\ mem' = [mem EXCEPT ![h + 1] = 1]
      /\ UNCHANGED <<brk, head, tail, pc, search, blocks>>
      /\ live' = [q \in DOMAIN live \ {p} |-> live[q]]
      /\ freed' = freed \cup {p}
      /\ pc = "idle"
  BY <1>2, LiveIsOwned DEF FreeLive, my_free
<1>4. p \in Nat /\ h \in Nat /\ h + 1 \in Words /\ p = h + 3
  BY <1>1, <1>2, Headers, LiveIsOwned
<1>5. /\ mem' \in [Words -> Nat] /\ mem'[h + 1] = 1
      /\ \A w \in Words \ {h + 1} : mem'[w] = mem[w]
  BY <1>1, <1>3, <1>4 DEF Types
<1>6. ASSUME NEW b \in blocks
      PROVE  /\ mem'[b] = mem[b] /\ mem'[b + 2] = mem[b + 2]
             /\ b # h => mem'[b + 1] = mem[b + 1]
  <2>1. b \in Nat /\ b \in Words /\ b + 1 \in Words /\ b + 2 \in Words
    BY <1>1, Headers
  <2>2. b # h => b + 3 <= h \/ h + 3 <= b
    BY <1>1, HeadersApart
  <2>3. b # h + 1 /\ b + 2 # h + 1 /\ (b # h => b + 1 # h + 1)
    BY <1>4, <2>1, <2>2
  <2>4. QED
    BY <1>5, <2>1, <2>3
<1>7. Layout' /\ InOrder' /\ EndsOfList' /\ \A b \in blocks' : SizeOf(b)' # 0
  BY <1>3, <1>6, KeepsList
<1>8. Types'
  <2>1. \A q \in DOMAIN live' : q \in Nat /\ live'[q] \in Nat
    BY <1>1, <1>3 DEF Types
  <2>2. freed' \subseteq Nat
    BY <1>1, <1>3, <1>4 DEF Types
  <2>3. QED
    BY <1>1, <1>3, <1>5, <2>1, <2>2 DEF Types, search
<1>9. Marks'
  <2>1. ASSUME NEW b \in blocks'
        PROVE  ~Free(b)' <=> b + HDR \in DOMAIN live'
    <3>1. CASE b = h
      BY <1>3, <1>4, <1>5, <3>1 DEF Free
    <3>2. CASE b # h
      <4>1. b \in blocks /\ b + 3 # p
        BY <1>1, <1>3, <1>4, <3>2, Headers
      <4>2. Free(b)' <=> Free(b)
        BY <1>6, <3>2, <4>1 DEF Free
      <4>3. QED
        BY <1>1, <1>3, <4>1, <4>2 DEF Marks
    <3>3. QED
      BY <3>1, <3>2
  <2>2. ASSUME NEW q \in DOMAIN live'
        PROVE  q - HDR \in blocks' /\ live'[q] <= SizeOf(q - HDR)'
    <3>1. q - HDR \in blocks /\ live'[q] = live[q] /\ live[q] <= SizeOf(q - HDR)
      BY <1>1, <1>3 DEF Marks
    <3>2. SizeOf(q - HDR)' = SizeOf(q - HDR)
      BY <1>6, <3>1 DEF SizeOf
    <3>3. QED
      BY <1>3, <3>1, <3>2
  <2>3. QED
    BY <2>1, <2>2 DEF Marks
<1>10. SearchOK'
  BY <1>3 DEF SearchOK
<1>11. FreedOK'
  <2>1. p \notin DOMAIN live' /\ p >= Base + HDR /\ p - HDR \in blocks'
    BY <1>1, <1>2, <1>3, <1>4 DEF Types
  <2>2. \A a \in freed : /\ a \notin DOMAIN live' /\ a >= Base + HDR
                         /\ a - HDR \in blocks' \/ Apart(a - HDR)'
    BY <1>3 DEF Inv, FreedOK, Apart
  <2>3. QED
    BY <1>3, <2>1, <2>2 DEF FreedOK
<1>12. BlocksDisjoint' /\ ListOrdered' /\ Sized'
  BY <1>3, <1>7, <1>9 DEF BlocksDisjoint, Layout, Marks, InOrder, ListOrdered, Sized
<1>13. QED
  BY <1>7, <1>8, <1>10, <1>11, <1>12 DEF Inv

\* An address that the program does not hold and my_free takes all the same: the
\* mark it sets is no block's size and no block's mark, since a word of the heap
\* that is zero is neither the size of a block nor the mark of a free one.
LEMMA WrongMark ==
    ASSUME Inv, NEW a \in Addresses, a \notin DOMAIN live, Owned(a)
    PROVE  /\ a \in Nat /\ a - 2 \in Words /\ a - 2 = a - HDR + 1 /\ mem[a - 2] = 0
           /\ \A b \in blocks : a - 2 \notin {b, b + 1}
           /\ \A b \in blocks : a - 2 = b + 2 => NextOf(b) = NULL /\ a \notin freed
<1> USE Numbers
<1>1. Types /\ Layout /\ Marks
  BY TwoParts DEF Inv
<1>2. /\ a \in Nat /\ a - 2 \in Words /\ a - 2 = a - HDR + 1 /\ mem[a - 2] = 0
      /\ a <= brk
  <2>1. a \in Nat /\ a >= Base + 2 /\ brk \in Nat /\ a <= brk /\ brk <= MaxBreak
    BY <1>1 DEF Types, Addresses, Owned
  <2>2. a - 2 \in Words /\ a - 2 = a - HDR + 1
    BY <2>1 DEF Words
  <2>3. QED
    BY <2>1, <2>2 DEF Owned
<1>3. ASSUME NEW b \in blocks
      PROVE  a - 2 \notin {b, b + 1}
  <2>1. b \in Nat /\ mem[b] # 0
    BY <1>1, Headers DEF Inv, Sized, SizeOf
  <2>2. a - 2 # b
    BY <1>2, <2>1
  <2>3. ASSUME a - 2 = b + 1 PROVE FALSE
    <3>1. a = b + HDR
      BY <1>2, <2>1, <2>3
    <3>2. Free(b)
      BY <1>1, <3>1 DEF Marks
    <3>3. QED
      BY <1>2, <2>3, <3>2 DEF Free
  <2>4. QED
    BY <2>2, <2>3
<1>4. ASSUME NEW b \in blocks, a - 2 = b + 2
      PROVE  NextOf(b) = NULL /\ a \notin freed
  <2>1. NextOf(b) = NULL
    BY <1>2, <1>4 DEF NextOf
  <2>2. b \in Nat /\ SizeOf(b) \in Nat
    BY <1>1, Headers
  <2>3. ASSUME a \in freed PROVE FALSE
    <3>1. PICK h \in Int : h = a - HDR /\ h = b + 1
      BY <1>2, <1>4, <2>2
    <3>2. h \in blocks \/ Apart(h)
      BY <2>3, <3>1 DEF Inv, FreedOK
    <3>3. h \in blocks => h + HDR <= b \/ b + HDR <= h
      BY <1>1, <2>2, <3>1, HeadersApart
    <3>4. h + HDR <= b \/ b + HDR <= h
      BY <3>2, <3>3 DEF Apart
    <3>5. QED
      BY <2>2, <3>1, <3>4
  <2>4. QED
    BY <2>1, <2>3
<1>5. QED
  BY <1>2, <1>3, <1>4

\* So it leaves the sizes and the marks of all blocks alone, and also their
\* links if it is an address the program had once.
LEMMA WrongFree ==
    ASSUME Inv, NEW a \in Addresses, a \notin DOMAIN live, my_free(a)
    PROVE  /\ pc = "idle" /\ UNCHANGED <<brk, head, tail, search, blocks>>
           /\ mem' \in [Words -> Nat]
           /\ \A b \in blocks : mem'[b] = mem[b] /\ mem'[b + 1] = mem[b + 1]
           /\ a \in freed \/ ~ Owned(a) => \A b \in blocks : mem'[b + 2] = mem[b + 2]
<1> USE Numbers
<1>1. /\ pc = "idle" /\ UNCHANGED <<brk, head, tail, search, blocks>>
      /\ mem' = IF Owned(a) THEN [mem EXCEPT ![a - HDR + 1] = 1] ELSE mem
  BY DEF my_free
<1>2. Types /\ Layout
  BY TwoParts DEF Inv
<1>3. CASE ~ Owned(a)
  BY <1>1, <1>2, <1>3 DEF Types
<1>4. CASE Owned(a)
  <2>1. /\ a \in Nat /\ a - 2 \in Words /\ a - 2 = a - HDR + 1
        /\ \A b \in blocks : a - 2 \notin {b, b + 1}
        /\ \A b \in blocks : a - 2 = b + 2 => a \notin freed
    BY <1>4, WrongMark
  <2>2. PICK m \in Words : m = a - 2
    BY <2>1
  <2>3. mem' = [mem EXCEPT ![m] = 1]
    BY <1>1, <1>4, <2>1, <2>2
  <2>4. mem' \in [Words -> Nat] /\ \A w \in Words \ {m} : mem'[w] = mem[w]
    BY <1>2, <2>3 DEF Types
  <2>5. \A b \in blocks : b \in Words /\ b + 1 \in Words /\ b + 2 \in Words
    BY <1>2, Headers
  <2>6. \A b \in blocks : mem'[b] = mem[b] /\ mem'[b + 1] = mem[b + 1]
    BY <2>1, <2>2, <2>4, <2>5
  <2>7. a \in freed => \A b \in blocks : mem'[b + 2] = mem[b + 2]
    BY <2>1, <2>2, <2>4, <2>5
  <2>8. QED
    BY <1>1, <1>4, <2>4, <2>6, <2>7
<1>5. QED
  BY <1>3, <1>4

LEMMA WrongFreeInv ==
    ASSUME Inv, NEW a \in Addresses, a \notin DOMAIN live, my_free(a),
           UNCHANGED <<live, freed>>, pc' \in {"idle", "astray"},
           pc' = "astray" \/ a \in freed \/ ~ Owned(a)
    PROVE  Inv'
<1>1. Types /\ Layout /\ Marks
  BY TwoParts DEF Inv
<1>2. /\ pc = "idle" /\ UNCHANGED <<brk, head, tail, search, blocks>>
      /\ mem' \in [Words -> Nat]
      /\ \A b \in blocks : mem'[b] = mem[b] /\ mem'[b + 1] = mem[b + 1]
      /\ a \in freed \/ ~ Owned(a) => \A b \in blocks : mem'[b + 2] = mem[b + 2]
  BY WrongFree
<1>3. Layout' /\ Marks' /\ Sized'
  <2>1. Layout'
    BY <1>1, <1>2 DEF Layout, SizeOf
  <2>2. Marks'
    BY <1>1, <1>2 DEF Marks, Free, SizeOf
  <2>3. Sized'
    BY <1>2 DEF Inv, Sized, SizeOf
  <2>4. QED
    BY <2>1, <2>2, <2>3
<1>4. ListOrdered'
  <2>1. CASE pc' = "astray"
    BY <2>1 DEF ListOrdered
  <2>2. CASE a \in freed \/ ~ Owned(a)
    <3>1. InOrder'
      BY <1>2, <2>2, KeepsList
    <3>2. QED
      BY <3>1 DEF InOrder, ListOrdered
  <2>3. QED
    BY <2>1, <2>2
<1>5. Types'
  BY <1>1, <1>2 DEF Types, search
<1>6. SearchOK' /\ FreedOK' /\ EndsOfList'
  BY <1>2 DEF Inv, SearchOK, FreedOK, EndsOfList, Apart
<1>7. BlocksDisjoint'
  BY <1>3 DEF BlocksDisjoint, Layout, Marks
<1>8. QED
  BY <1>3, <1>4, <1>5, <1>6, <1>7 DEF Inv

LEMMA FreeAgainInv ==
    ASSUME Inv, NEW a \in freed, FreeAgain(a)
    PROVE  Inv'
<1> USE Numbers
<1>1. /\ my_free(a) /\ UNCHANGED <<pc, live, freed>> /\ pc = "idle"
  BY DEF FreeAgain, my_free
<1>2. a \notin DOMAIN live
  BY DEF Inv, FreedOK
<1>3. a \in Addresses
  <2>1. a \in Nat /\ a >= Base + HDR /\ (a - HDR \in blocks \/ Apart(a - HDR))
    BY DEF Inv, Types, FreedOK
  <2>2. Types /\ brk \in Nat
    BY DEF Inv, Types
  <2>3. PICK h \in Int : h = a - HDR
    BY <2>1
  <2>4. h + HDR <= brk
    BY <2>1, <2>2, <2>3, Headers DEF Apart
  <2>5. QED
    BY <2>1, <2>2, <2>3, <2>4 DEF Addresses
<1>4. QED
  BY <1>1, <1>2, <1>3, WrongFreeInv

LEMMA FreeStrayInv ==
    ASSUME Inv, NEW a \in Addresses, FreeStray(a)
    PROVE  Inv'
<1>1. /\ a \notin DOMAIN live /\ my_free(a) /\ UNCHANGED <<live, freed>>
      /\ pc = "idle" /\ pc' = IF Owned(a) THEN "astray" ELSE pc
  BY DEF FreeStray, my_free
<1>2. QED
  BY <1>1, WrongFreeInv

\* What the program writes to its payloads reaches no header.
LEMMA FillInv ==
    ASSUME Inv, NEW p \in DOMAIN live, NEW cookie \in Cookies, Fill(p, cookie)
    PROVE  Inv'
<1> USE Numbers
<1>1. Types /\ Layout /\ Marks
  BY TwoParts DEF Inv
<1>2. /\ UNCHANGED <<brk, head, tail, pc, search, live, freed, blocks>>
      /\ mem' = [w \in Words |-> IF w \in Payload(p) THEN cookie ELSE mem[w]]
      /\ pc = "idle"
  BY DEF Fill
<1>3. mem' \in [Words -> Nat]
  BY <1>1, <1>2 DEF Types
<1>4. ASSUME NEW b \in blocks
      PROVE  mem'[b] = mem[b] /\ mem'[b + 1] = mem[b + 1] /\ mem'[b + 2] = mem[b + 2]
  <2>1. b \in Nat /\ b \in Words /\ b + 1 \in Words /\ b + 2 \in Words
    BY <1>1, Headers
  <2>2. b \notin Payload(p) /\ b + 1 \notin Payload(p) /\ b + 2 \notin Payload(p)
    <3>1. \A w \in Payload(p) : w < b \/ b + 3 <= w
      BY <1>1, Payloads
    <3>2. QED
      BY <2>1, <3>1
  <2>3. QED
    BY <1>2, <2>1, <2>2
<1>5. Layout' /\ InOrder' /\ EndsOfList' /\ \A b \in blocks' : SizeOf(b)' # 0
  BY <1>2, <1>4, KeepsList
<1>6. Types'
  BY <1>1, <1>2, <1>3 DEF Types, search
<1>7. Marks'
  BY <1>1, <1>2, <1>4 DEF Marks, Free, SizeOf
<1>8. SearchOK' /\ FreedOK'
  BY <1>2 DEF Inv, SearchOK, FreedOK, Apart
<1>9. BlocksDisjoint' /\ ListOrdered' /\ Sized'
  BY <1>2, <1>5, <1>7
     DEF BlocksDisjoint, Layout, Marks, InOrder, ListOrdered, Sized, search
<1>10. QED
  BY <1>5, <1>6, <1>8, <1>9 DEF Inv

LEMMA StepInv == Inv /\ [Next]_vars => Inv'
<1> SUFFICES ASSUME Inv, [Next]_vars PROVE Inv'
  OBVIOUS
<1>1. CASE UNCHANGED vars
  BY <1>1 DEF vars, search, Inv, Types, BlocksDisjoint, ListOrdered, EndsOfList, SearchOK,
              FreedOK, Apart, SizeOf, Free, NextOf, Sized
<1>2. ASSUME NEW n \in Sizes, my_malloc(n) PROVE Inv'
  BY <1>2, MallocInv
<1>3. CASE TakeBlock
  BY <1>3, TakeInv
<1>4. CASE GatherBlock
  BY <1>4, GatherInv
<1>5. CASE SkipBlock
  BY <1>5, SkipInv
<1>6. CASE Grow
  BY <1>6, GrowInv
<1>7. CASE GrowFails
  BY <1>7, GrowFailsInv
<1>8. ASSUME NEW p \in DOMAIN live, FreeLive(p) PROVE Inv'
  BY <1>8, FreeLiveInv
<1>9. ASSUME NEW p \in DOMAIN live, NEW cookie \in Cookies, Fill(p, cookie) PROVE Inv'
  BY <1>9, FillInv
<1>10. ASSUME NEW a \in freed, FreeAgain(a) PROVE Inv'
  BY <1>10, FreeAgainInv
<1>11. ASSUME NEW a \in Addresses, FreeStray(a) PROVE Inv'
  BY <1>11, FreeStrayInv
<1>12. CASE Astray
  BY <1>1, <1>12 DEF Astray
<1>13. QED
  BY <1>1, <1>2, <1>3, <1>4, <1>5, <1>6, <1>7, <1>8, <1>9, <1>10, <1>11, <1>12 DEF Next

\* The inductive invariant of the allocator, which the properties below follow
\* from: every step of my_malloc, my_free and the program keeps it.
THEOREM Invariant == Spec => []Inv
<1>1. Init => Inv
  BY InitInv
<1>2. Inv /\ [Next]_vars => Inv'
  BY StepInv
<1>3. QED
  BY <1>1, <1>2, PTL DEF Spec

\* Blocks never overlap each other, the break or a payload the program holds,
\* and the program holds exactly the payloads of the blocks marked used: each
\* write of my_malloc and my_free keeps apart what it hands out.
THEOREM BlocksStayDisjoint == Spec => []BlocksDisjoint
<1>1. Inv => BlocksDisjoint
  BY DEF Inv
<1>2. QED
  BY <1>1, Invariant, PTL

\* The links my_malloc follows always lead upwards to the next block, also
\* after a block has been linked to a gathered tail and after a payload was freed
\* twice; until the program frees an address it never got.
THEOREM ListStaysOrdered == Spec => []ListOrdered
<1>1. Inv => ListOrdered
  BY DEF Inv
<1>2. QED
  BY <1>1, Invariant, PTL

\* Joining the gathered blocks and growing write no word outside a header, but
\* for the `next' of the tail.
LEMMA JoinWrites ==
    ASSUME Inv, GatherBlock, mem' # mem
    PROVE  /\ First \in blocks
           /\ \A w \in Words \ {First, First + 1, First + 2} : mem'[w] = mem[w]
           /\ live' = [q \in DOMAIN live \cup {First + HDR} |->
                          IF q = First + HDR THEN size ELSE live[q]]
           /\ freed' = freed \ {First + HDR}
<1>1. InSearch /\ Free(curr) /\ First \in blocks
  <2>1. InSearch /\ Free(curr)
    BY DEF GatherBlock
  <2>2. QED
    BY <2>1, GatheredRun
<1>2. mem' = Join(First, Total) /\ HandOut(First)
  BY DEF GatherBlock, First, Total
<1>3. PICK f, t, n : f \in blocks /\ f = First /\ t = Total /\ n = NextOf(curr)
  BY <1>1
<1>4. mem' = [mem EXCEPT ![f] = t, ![f + 1] = 0, ![f + 2] = n] /\ HandOut(f)
  BY <1>2, <1>3 DEF Join
<1>5. mem \in [Words -> Nat]
  BY DEF Inv, Types
<1>6. \A w \in Words \ {f, f + 1, f + 2} : mem'[w] = mem[w]
  BY <1>4, <1>5
<1>7. live' = [q \in DOMAIN live \cup {f + HDR} |-> IF q = f + HDR THEN size ELSE live[q]]
      /\ freed' = freed \ {f + HDR}
  BY <1>4 DEF HandOut
<1>8. QED
  BY <1>3, <1>6, <1>7

LEMMA GrowWrites ==
    ASSUME Inv, Grow, NEW w \in Words, w < brk, tail = NULL \/ w # tail + 2
    PROVE  mem'[w] = mem[w]
<1> USE Numbers
<1>1. Types
  BY DEF Inv
<1>2. PICK k \in Nat, t \in Nat : k = brk /\ t = tail
  BY <1>1 DEF Types
<1> DEFINE linked == IF t = NULL THEN mem ELSE [mem EXCEPT ![t + 2] = k]
<1>3. mem' = [linked EXCEPT ![k] = size, ![k + 1] = 0, ![k + 2] = 0]
  BY <1>2 DEF Grow
<1>4. linked \in [Words -> Nat] /\ linked[w] = mem[w]
  BY <1>1, <1>2 DEF Types
<1>5. w \notin {k, k + 1, k + 2}
  BY <1>2 DEF Words
<1> HIDE DEF linked
<1>6. QED
  BY <1>3, <1>4, <1>5

\* Of a payload the program holds, my_malloc changes no word but the one where
\* a gathered tail has its `next': the other writes go to headers, which no
\* payload reaches.
THEOREM OnlyTailNextIsLost == Spec => DamageIsTailNext
<1> DEFINE Harm ==
        Search =>
          \A p \in DOMAIN live : \A w \in Payload(p) :
             mem'[w] # mem[w] => /\ Grow
                                 /\ tail \notin blocks /\ w = tail + 2
<1>1. Inv /\ [Next]_vars => [Harm]_vars
  <2> SUFFICES ASSUME Inv, Search, NEW p \in DOMAIN live, NEW w \in Payload(p),
                      mem'[w] # mem[w]
               PROVE  Grow /\ tail \notin blocks /\ w = tail + 2
    OBVIOUS
  <2> USE Numbers
  <2>1. /\ Types /\ w \in Words /\ w < brk
        /\ \A b \in blocks : w < b \/ b + HDR <= w
    BY TwoParts, Payloads DEF Inv
  <2>2. \A b \in blocks : b \in Nat /\ w \notin {b, b + 1, b + 2}
    <3>1. w \in Int
      BY <2>1 DEF Words
    <3>2. \A b \in blocks : b \in Nat
      BY <2>1 DEF Types
    <3>3. QED
      BY <2>1, <3>1, <3>2
  <2>3. ~ TakeBlock
    <3> SUFFICES ASSUME TakeBlock PROVE FALSE
      OBVIOUS
    <3>1. PICK c \in blocks : mem' = [mem EXCEPT ![c + 1] = 0]
      BY DEF TakeBlock, InSearch, Inv, SearchOK
    <3>2. mem'[w] = mem[w]
      BY <2>1, <2>2, <3>1 DEF Types
    <3>3. QED
      BY <3>2
  <2>4. ~ GatherBlock
    <3> SUFFICES ASSUME GatherBlock PROVE FALSE
      OBVIOUS
    <3>1. First \in blocks /\ \A v \in Words \ {First, First + 1, First + 2} : mem'[v] = mem[v]
      BY JoinWrites
    <3>2. QED
      BY <2>1, <2>2, <3>1
  <2>5. ~ SkipBlock /\ ~ GrowFails
    BY DEF SkipBlock, GrowFails
  <2>6. Grow
    BY <2>3, <2>4, <2>5 DEF Search
  <2>7. tail # NULL /\ w = tail + 2
    BY <2>1, <2>6, GrowWrites
  <2>8. QED
    BY <2>2, <2>6, <2>7
<1>2. QED
  BY <1>1, Invariant, PTL DEF Spec, DamageIsTailNext

\* my_free takes back every payload the program holds, and given any other
\* address it either refuses it or sets a word that is no block's size and no
\* block's mark, whatever the program wrote to its payloads; for an address it
\* was given back before, that word is in no header at all.
THEOREM FreeMarksNothingElse == Spec => FreeMarksNoOther
<1> DEFINE Exact ==
        \A a \in Addresses : my_free(a) =>
          LET mark == a - HDR + 1
          IN  \/ a \in DOMAIN live /\ result' = 0
              \/ a \notin DOMAIN live /\ result' = Error /\ mem' = mem
              \/ /\ a \notin DOMAIN live /\ result' = 0
                 /\ \A b \in blocks :
                       /\ mark \notin {b, b + 1}
                       /\ mark = b + 2 => NextOf(b) = NULL /\ a \notin freed
<1>1. Inv /\ [Next]_vars => [Exact]_vars
  <2> SUFFICES ASSUME Inv, NEW a \in Addresses, my_free(a)
               PROVE  \/ a \in DOMAIN live /\ result' = 0
                      \/ a \notin DOMAIN live /\ result' = Error /\ mem' = mem
                      \/ /\ a \notin DOMAIN live /\ result' = 0
                         /\ \A b \in blocks :
                               /\ a - HDR + 1 \notin {b, b + 1}
                               /\ a - HDR + 1 = b + 2 => NextOf(b) = NULL /\ a \notin freed
    OBVIOUS
  <2>1. CASE a \in DOMAIN live
    BY <2>1, LiveIsOwned DEF my_free
  <2>2. CASE a \notin DOMAIN live /\ ~ Owned(a)
    BY <2>2 DEF my_free
  <2>3. CASE a \notin DOMAIN live /\ Owned(a)
    <3>1. result' = 0
      BY <2>3 DEF my_free
    <3>2. QED
      BY <2>3, <3>1, WrongMark
  <2>4. QED
    BY <2>1, <2>2, <2>3
<1>2. QED
  BY <1>1, Invariant, PTL DEF Spec, FreeMarksNoOther
-----------------------------------------------------------------------------
(* The search passes over no run that would do.                            *)

Run(first, last) == {b \in Reachable : first <= b /\ b <= last}

\* The blocks a search is gathering.
Gathering == {b \in blocks : new_block <= b /\ b < curr}

AllFree(run) == \A b \in run : Free(b)

\* A search has come to a block along the list; what it is gathering reaches as
\* far down as the free blocks before curr do, and has no more room than
\* my_size says; and no run of free blocks before curr has room for the request.
Passed ==
    pc = "search" =>
        /\ size > 0
        /\ curr # NULL =>
              /\ curr \in Reachable
              /\ new_block # NULL => Cardinality(Room(Gathering)) <= my_size /\ my_size < size
              /\ \A first \in Reachable :
                    first < curr /\ (\A b \in Reachable : first <= b /\ b < curr => Free(b))
                    => new_block # NULL /\ new_block <= first
        /\ \A first, last \in Reachable :
              (curr = NULL \/ last < curr) /\ AllFree(Run(first, last))
              => Cardinality(Room(Run(first, last))) < size

LEMMA RoomIsFinite ==
    ASSUME Types, Layout, NEW run \in SUBSET blocks
    PROVE  IsFiniteSet(Room(run)) /\ Cardinality(Room(run)) \in Nat
<1> USE Numbers
<1>1. brk \in Nat
  BY DEF Types
<1>2. ASSUME NEW b \in run PROVE b + HDR .. b + HDR + SizeOf(b) - 1 \subseteq 0 .. brk
  <2>1. b \in Nat /\ SizeOf(b) \in Nat /\ b + HDR + SizeOf(b) <= brk
    BY Headers DEF Layout
  <2>2. QED
    BY <1>1, <2>1
<1>3. Room(run) \in SUBSET (0 .. brk)
  BY <1>2 DEF Room
<1>4. IsFiniteSet(0 .. brk)
  BY <1>1, FS_Interval
<1>5. IsFiniteSet(Room(run))
  BY <1>3, <1>4, FS_Subset
<1>6. QED
  BY <1>5, FS_CardinalityType

LEMMA LessRoom ==
    ASSUME Types, Layout, NEW more \in SUBSET blocks, NEW run \in SUBSET more
    PROVE  Cardinality(Room(run)) <= Cardinality(Room(more))
<1>1. IsFiniteSet(Room(more))
  BY RoomIsFinite
<1>2. Room(run) \in SUBSET Room(more)
  BY DEF Room
<1>3. QED
  BY <1>1, <1>2, FS_Subset

\* A block adds its own words to the room of others.
LEMMA MoreRoom ==
    ASSUME Types, Layout, NEW run \in SUBSET blocks, NEW b \in blocks
    PROVE  Cardinality(Room(run \cup {b})) <= Cardinality(Room(run)) + SizeOf(b)
<1> USE Numbers
<1> DEFINE own == b + HDR .. b + HDR + SizeOf(b) - 1
<1>1. b \in Nat /\ SizeOf(b) \in Nat
  BY Headers
<1>2. b + HDR \in Int /\ b + HDR + SizeOf(b) - 1 \in Int
  BY <1>1
<1>3. IsFiniteSet(own)
  BY <1>2, FS_Interval
<1>4. Cardinality(own) = SizeOf(b)
  <2>1. PICK n \in Nat, a \in Int, z \in Int :
            n = SizeOf(b) /\ a = b + HDR /\ z = b + HDR + SizeOf(b) - 1
    BY <1>1, <1>2
  <2>2. z = a + n - 1
    BY <1>1, <2>1
  <2>3. Cardinality(a .. z) = IF a > z THEN 0 ELSE z - a + 1
    BY FS_Interval
  <2>4. QED
    BY <2>1, <2>2, <2>3
<1>5. IsFiniteSet(Room(run)) /\ Cardinality(Room(run)) \in Nat
  BY RoomIsFinite
<1>6. Room(run \cup {b}) = Room(run) \cup own
  BY DEF Room
<1> HIDE DEF own
<1>7. Cardinality(Room(run) \cup own)
      = Cardinality(Room(run)) + Cardinality(own) - Cardinality(Room(run) \cap own)
  BY <1>3, <1>5, FS_Union
<1>8. Cardinality(Room(run) \cap own) \in Nat
  BY <1>5, FS_Intersection, FS_CardinalityType
<1>9. PICK n \in Nat, both \in Nat, new \in Nat :
          /\ n = Cardinality(Room(run)) /\ both = Cardinality(Room(run) \cap own)
          /\ new = SizeOf(b)
  BY <1>1, <1>5, <1>8
<1>10. Cardinality(Room(run \cup {b})) = n + new - both
  BY <1>4, <1>6, <1>7, <1>9
<1>11. n + new - both <= n + new
  OBVIOUS
<1>12. QED
  BY <1>9, <1>10, <1>11

LEMMA NoRoom == Cardinality(Room({})) = 0
BY FS_EmptySet DEF Room

\* The search steps on: a run that ends at the block it leaves is one it has been
\* gathering.
LEMMA PassedGoesOn ==
    ASSUME Inv, Passed, InSearch, UNCHANGED <<mem, blocks, pc, size>>,
           curr' = NextOf(curr),
           curr' # NULL /\ new_block' # NULL =>
               Cardinality(Room(Gathering))' <= my_size' /\ my_size' < size,
           \A first \in Reachable :
               first <= curr /\ AllFree(Run(first, curr))
               => /\ new_block' # NULL /\ new_block' <= first
                  /\ Cardinality(Room(Run(first, curr))) < size
    PROVE  Passed'
<1> USE Numbers
<1>1. Types /\ Layout /\ InOrder /\ pc = "search" /\ curr # NULL
  BY TwoParts, ListInOrder DEF Inv, InSearch
<1>2. curr \in blocks /\ curr \in Reachable /\ size > 0 /\ size \in Nat
  BY <1>1 DEF Inv, SearchOK, Passed, Types
<1>3. \A b \in blocks : b \in Nat \ {0}
  BY <1>1, Headers
<1>4. /\ Reachable' = Reachable /\ Reachable \subseteq blocks
      /\ \A b \in blocks : Free(b)' = Free(b)
      /\ \A first, last : Run(first, last)' = Run(first, last)
      /\ \A run : Room(run)' = Room(run)
  BY DEF Reachable, NextOf, Free, Run, Room, SizeOf
<1>5. curr' # NULL => /\ curr' \in blocks /\ curr' > curr
                      /\ \A c \in blocks : c <= curr \/ curr' <= c
  BY <1>1, <1>2 DEF InOrder
<1>6. ASSUME NEW b \in Reachable, curr' = NULL \/ b < curr'
      PROVE  b <= curr
  <2>1. CASE curr' = NULL
    <3>1. curr < b => NextOf(curr) # NULL
      BY <1>2 DEF Reachable
    <3>2. b \in Nat /\ curr \in Nat
      BY <1>2, <1>3, <1>4
    <3>3. QED
      BY <2>1, <3>1, <3>2
  <2>2. CASE curr' # NULL
    BY <1>3, <1>4, <1>5, <1>6, <2>2
  <2>3. QED
    BY <2>1, <2>2
<1>7. curr' # NULL => curr' \in Reachable'
  <2> SUFFICES ASSUME curr' # NULL PROVE curr' \in Reachable
    BY <1>4
  <2>1. ASSUME NEW c \in blocks, c < curr' PROVE NextOf(c) # NULL
    <3>1. c <= curr
      BY <1>2, <1>3, <1>5, <2>1
    <3>2. CASE c = curr
      BY <3>2
    <3>3. CASE c < curr
      BY <1>2, <3>3 DEF Reachable
    <3>4. QED
      BY <1>2, <1>3, <3>1, <3>2, <3>3
  <2>2. QED
    BY <1>5, <2>1 DEF Reachable
<1>8. ASSUME curr' # NULL, NEW first \in Reachable, first < curr',
             \A b \in Reachable : first <= b /\ b < curr' => Free(b)
      PROVE  new_block' # NULL /\ new_block' <= first
  <2>1. first <= curr
    BY <1>6, <1>8
  <2>2. \A b \in Reachable : b <= curr => b < curr'
    BY <1>2, <1>3, <1>4, <1>5, <1>8
  <2>3. AllFree(Run(first, curr))
    BY <1>8, <2>2 DEF AllFree, Run
  <2>4. QED
    BY <2>1, <2>3
<1>9. ASSUME NEW first \in Reachable, NEW last \in Reachable,
             curr' = NULL \/ last < curr', AllFree(Run(first, last))
      PROVE  Cardinality(Room(Run(first, last))) < size
  <2>1. last <= curr
    BY <1>6, <1>9
  <2>2. CASE last < curr
    BY <1>1, <1>9, <2>2 DEF Passed
  <2>3. CASE last = curr /\ first <= curr
    BY <1>9, <2>3
  <2>4. CASE last = curr /\ ~ first <= curr
    <3>1. Run(first, last) = {}
      BY <1>2, <1>3, <1>4, <2>4 DEF Run
    <3>2. QED
      BY <1>2, <3>1, NoRoom
  <2>5. QED
    BY <1>2, <1>3, <1>4, <2>1, <2>2, <2>3, <2>4
<1>10. \A first, last : AllFree(Run(first, last))' = AllFree(Run(first, last))
  BY <1>4 DEF AllFree, Run
<1>11. \A first, last \in Reachable :
          (curr' = NULL \/ last < curr') /\ AllFree(Run(first, last))'
          => Cardinality(Room(Run(first, last)))' < size'
  BY <1>4, <1>9, <1>10
<1>12. curr' # NULL =>
         \A first \in Reachable' :
            first < curr' /\ (\A b \in Reachable' : first <= b /\ b < curr' => Free(b)')
            => new_block' # NULL /\ new_block' <= first
  BY <1>4, <1>8
<1>13. QED
  BY <1>2, <1>4, <1>7, <1>11, <1>12 DEF Passed

\* The step of a search that goes on; others end it or begin one.
LEMMA PassedStep == Inv /\ Passed /\ [Next]_vars => Passed'
<1> USE Numbers
<1> SUFFICES ASSUME Inv, Passed, [Next]_vars PROVE Passed'
  OBVIOUS
<1>0. Types /\ Layout /\ (pc # "astray" => InOrder)
  BY TwoParts, ListInOrder DEF Inv
<1>1. CASE UNCHANGED vars
  BY <1>1 DEF vars, search, Passed, Reachable, NextOf, Free, Run, Room, SizeOf, Gathering,
              AllFree
<1>2. ASSUME NEW n \in Sizes, my_malloc(n) PROVE Passed'
  <2>1. CASE n = 0
    BY <1>2, <2>1 DEF my_malloc, Passed
  <2>2. CASE n # 0
    <3>1. /\ UNCHANGED <<mem, head, blocks>> /\ size' = n /\ curr' = head
          /\ new_block' = NULL /\ n \in Nat
      BY <1>2, <2>2 DEF my_malloc
    <3>2. /\ head = NULL => blocks = {}
          /\ head # NULL => head \in blocks
          /\ \A b \in blocks : head <= b /\ b \in Nat
      BY <1>0, <1>2, Headers DEF InOrder, EndsOfList, Inv, my_malloc
    <3>3. Reachable' = Reachable /\ Reachable \subseteq blocks
      BY <3>1 DEF Reachable, NextOf
    <3>4. \A b \in blocks : ~ b < head
      BY <3>2, <1>0 DEF Types
    <3>5. head # NULL => head \in Reachable
      BY <3>2, <3>4 DEF Reachable
    <3>6. \A first \in Reachable : curr' # NULL => ~ first < curr'
      BY <3>1, <3>3, <3>4
    <3>7. \A last \in Reachable : ~ (curr' = NULL \/ last < curr')
      BY <3>1, <3>2, <3>3, <3>4
    <3>8. size' > 0
      BY <2>2, <3>1
    <3>9. QED
      BY <3>1, <3>3, <3>5, <3>6, <3>7, <3>8 DEF Passed
  <2>3. QED
    BY <2>1, <2>2
<1>3. CASE TakeBlock
  BY <1>3 DEF TakeBlock, HandOut, Return, Passed
<1>4. CASE GatherBlock
  <2>1. CASE Suffices(Total)
    BY <1>4, <2>1 DEF GatherBlock, Total, HandOut, Return, Passed
  <2>2. CASE ~ Suffices(Total)
    <3>1. /\ InSearch /\ Free(curr) /\ new_block' = First /\ my_size' = Total
          /\ curr' = NextOf(curr) /\ UNCHANGED <<mem, blocks, pc, size>>
      BY <1>4, <2>2 DEF GatherBlock, First, Total
    <3>2. /\ curr \in blocks /\ First \in blocks /\ First <= curr /\ Total \in Nat
          /\ size \in Nat /\ Total < size
      BY <1>0, <2>2, <3>1, GatheredRun DEF Types, Suffices
    <3>3. \A b \in blocks : b \in Nat \ {0} /\ SizeOf(b) \in Nat
      BY <1>0, Headers
    <3>4. PICK all \in SUBSET blocks : all = {b \in blocks : First <= b /\ b <= curr}
      OBVIOUS
    <3>5. Cardinality(Room(all)) <= Total
      <4>1. CASE new_block = NULL
        <5>1. First = curr /\ Total = SizeOf(curr)
          BY <4>1 DEF First, Total
        <5>2. all = {} \cup {curr}
          BY <3>2, <3>3, <3>4, <5>1
        <5>3. Cardinality(Room({} \cup {curr})) <= Cardinality(Room({})) + SizeOf(curr)
          BY <1>0, <3>2, MoreRoom
        <5>4. QED
          BY <3>2, <3>3, <5>1, <5>2, <5>3, NoRoom
      <4>2. CASE new_block # NULL
        <5>1. First = new_block /\ Total = my_size + SizeOf(curr)
          BY <4>2 DEF First, Total
        <5>2. all = Gathering \cup {curr} /\ Gathering \in SUBSET blocks
          BY <3>2, <3>3, <3>4, <5>1 DEF Gathering
        <5>3. Cardinality(Room(Gathering \cup {curr}))
              <= Cardinality(Room(Gathering)) + SizeOf(curr)
          BY <1>0, <3>2, <5>2, MoreRoom
        <5>4. Cardinality(Room(Gathering)) <= my_size
          BY <3>1, <4>2 DEF Passed, InSearch
        <5>5. PICK n \in Nat, m \in Nat :
                  n = Cardinality(Room(Gathering)) /\ m = Cardinality(Room(all))
          BY <1>0, <3>4, <5>2, RoomIsFinite
        <5>6. my_size \in Nat
          BY <1>0 DEF Types
        <5>7. m <= n + SizeOf(curr) /\ n <= my_size
          BY <5>2, <5>3, <5>4, <5>5
        <5>8. QED
          BY <3>2, <3>3, <5>1, <5>5, <5>6, <5>7
      <4>3. QED
        BY <4>1, <4>2
    <3>6. PICK m \in Nat : m = Cardinality(Room(all))
      BY <1>0, RoomIsFinite
    <3>7. curr' # NULL => Gathering' = all
      <4>1. curr' # NULL => curr' > curr /\ \A c \in blocks : c <= curr \/ curr' <= c
        BY <1>0, <3>1, <3>2 DEF InOrder, InSearch
      <4>2. curr' # NULL => curr' \in Nat
        BY <1>0, <3>1, <3>2, Headers
      <4>3. curr' # NULL => \A c \in blocks : c < curr' <=> c <= curr
        BY <3>2, <3>3, <4>1, <4>2
      <4>4. QED
        BY <3>1, <3>4, <4>3 DEF Gathering
    <3>8. \A run : Room(run)' = Room(run)
      BY <3>1 DEF Room, SizeOf
    <3>9. curr' # NULL => Cardinality(Room(Gathering))' <= my_size' /\ my_size' < size
      BY <3>1, <3>2, <3>5, <3>7, <3>8
    <3>10. ASSUME NEW first \in Reachable, first <= curr, AllFree(Run(first, curr))
           PROVE  /\ new_block' # NULL /\ new_block' <= first
                  /\ Cardinality(Room(Run(first, curr))) < size
      <4>1. first \in blocks
        BY DEF Reachable
      <4>2. First <= first
        <5>1. CASE first = curr
          BY <3>2, <5>1
        <5>2. CASE first < curr
          <6>1. \A b \in Reachable : first <= b /\ b < curr => Free(b)
            <7>1. \A b \in Reachable : b \in blocks
              BY DEF Reachable
            <7>2. QED
              BY <3>2, <3>3, <3>10, <7>1 DEF AllFree, Run
          <6>2. new_block # NULL /\ new_block <= first
            BY <3>1, <5>2, <6>1 DEF Passed, InSearch
          <6>3. QED
            BY <6>2 DEF First
        <5>3. QED
          BY <3>2, <3>3, <3>10, <4>1, <5>1, <5>2
      <4>3. Run(first, curr) \in SUBSET all
        BY <3>2, <3>3, <3>4, <4>1, <4>2 DEF Run, Reachable
      <4>4. PICK n \in Nat : n = Cardinality(Room(Run(first, curr)))
        BY <1>0, <4>3, RoomIsFinite
      <4>5. n <= m
        BY <1>0, <3>6, <4>3, <4>4, LessRoom
      <4>6. First # NULL
        BY <3>2, <3>3
      <4>7. QED
        BY <3>1, <3>2, <3>5, <3>6, <4>2, <4>4, <4>5, <4>6
    <3>11. QED
      BY <3>1, <3>9, <3>10, PassedGoesOn
  <2>3. QED
    BY <2>1, <2>2
<1>5. CASE SkipBlock
  <2>1. /\ InSearch /\ ~ Free(curr) /\ new_block' = NULL /\ curr' = NextOf(curr)
        /\ UNCHANGED <<mem, blocks, pc, size>>
    BY <1>5 DEF SkipBlock
  <2>2. curr \in Reachable
    BY <2>1 DEF Passed, InSearch
  <2>3. curr \in Nat
    BY <1>0, <2>2, Headers DEF Reachable
  <2>4. \A first \in Reachable : first <= curr => ~ AllFree(Run(first, curr))
    BY <2>1, <2>2, <2>3 DEF AllFree, Run
  <2>5. QED
    BY <2>1, <2>4, PassedGoesOn
<1>6. CASE Grow
  BY <1>6 DEF Grow, HandOut, Return, Passed
<1>7. CASE GrowFails
  BY <1>7 DEF GrowFails, Return, Passed
<1>8. ASSUME NEW p \in DOMAIN live, NEW cookie \in Cookies, Fill(p, cookie)
      PROVE  Passed'
  BY <1>8 DEF Fill, search, Passed
<1>9. ASSUME NEW p \in DOMAIN live, FreeLive(p) PROVE Passed'
  BY <1>9 DEF FreeLive, my_free, search, Passed
<1>10. ASSUME NEW a, FreeAgain(a) \/ FreeStray(a) PROVE Passed'
  BY <1>10 DEF FreeAgain, FreeStray, my_free, search, Passed
<1>11. CASE Astray
  BY <1>1, <1>11 DEF Astray
<1>12. QED
  BY <1>1, <1>2, <1>3, <1>4, <1>5, <1>6, <1>7, <1>8, <1>9, <1>10, <1>11 DEF Next

\* The heap grows, or my_malloc fails, only after a search of the whole list in
\* which no run of free neighbours had room for the request: blocks are gathered
\* as soon as they suffice, and a used one makes the search begin anew.
THEOREM FreeBlocksAreReused == Spec => ReusesFreeBlocks
<1> DEFINE Reuse ==
        Grow \/ GrowFails =>
          \A first, last \in Reachable :
             LET run == {b \in Reachable : first <= b /\ b <= last}
             IN  (\A b \in run : Free(b)) => Cardinality(Room(run)) < size
<1>1. Init => Passed
  BY DEF Init, Passed
<1>2. Inv /\ Passed => Reuse
  BY DEF Grow, GrowFails, Passed, Run, AllFree
<1>3. Inv /\ [Next]_vars => Inv'
  BY StepInv
<1>4. QED
  BY <1>1, <1>2, <1>3, InitInv, PassedStep, PTL DEF Spec, ReusesFreeBlocks
=============================================================================
