----------------------------- MODULE FifoProofs -----------------------------
(***************************************************************************)
(* The ring of Fifo is a sequence: what a push and a pop do to Contents,    *)
(* for every number of chairs, so that FifoQueue implements BoundedQueue.   *)
(* The proofs about both barbers rest on the lemmas.                        *)
(***************************************************************************)
EXTENDS FifoQueue, SequenceTheorems, TLAPS

LEMMA LengthType ==
    ASSUME NEW f \in FifoType
    PROVE  /\ Length(f) \in 0 .. Chairs
           /\ isEmptyFifo(f) <=> Length(f) = 0
           /\ isFullFifo(f) <=> Length(f) = Chairs
  BY FifoAssumption, SMT DEF FifoType, Slot, Length, isEmptyFifo, isFullFifo

LEMMA LenContents ==
    ASSUME NEW f \in FifoType
    PROVE  /\ Len(Contents(f)) = Length(f)
           /\ DOMAIN Contents(f) = 1 .. Length(f)
  BY LengthType, FifoAssumption, SMT DEF Contents

LEMMA SlotOfType ==
    ASSUME NEW f \in FifoType, ~isEmptyFifo(f), NEW k \in 0 .. Chairs - 1
    PROVE  SlotOf(f, k) \in Slot
  BY FifoAssumption, SMT DEF FifoType, Slot, SlotOf, isEmptyFifo

LEMMA PushType ==
    ASSUME NEW f \in FifoType, NEW x \in Client, ~isFullFifo(f)
    PROVE  /\ pushFifo(f, x) \in FifoType
           /\ ~isEmptyFifo(pushFifo(f, x))
           /\ Length(pushFifo(f, x)) = Length(f) + 1
<1>1. f.head \in Slot \cup {-1} /\ f.tail \in Slot /\ f.chair \in Client \cup {NoPid}
      /\ f.tab \in [Slot -> Client \cup {NoPid}]
  BY DEF FifoType
<1>2. Advance(f.tail) \in Slot
  BY <1>1, FifoAssumption, SMT DEF Slot, Advance
<1>3. [f.tab EXCEPT ![f.tail] = x] \in [Slot -> Client \cup {NoPid}]
  BY <1>1
<1>4. pushFifo(f, x) \in FifoType
  BY <1>1, <1>2, <1>3 DEF FifoType, pushFifo
<1>5. ~isEmptyFifo(pushFifo(f, x))
  BY <1>1, FifoAssumption, SMT DEF Slot, isEmptyFifo, pushFifo
<1>6. Length(pushFifo(f, x)) = Length(f) + 1
  <2> DEFINE g == pushFifo(f, x)
  <2>1. /\ g.head = IF f.head = -1 THEN f.tail ELSE f.head
        /\ g.tail = IF f.tail + 1 = Chairs THEN 0 ELSE f.tail + 1
    BY DEF pushFifo, Advance, isEmptyFifo
  <2>2. f.head # f.tail
    BY DEF isFullFifo
  <2>3. g.head # -1
    BY <1>5 DEF isEmptyFifo
  <2> HIDE DEF g
  <2>4. Length(g) = IF g.head < g.tail THEN g.tail - g.head
                    ELSE g.tail - g.head + Chairs
    BY <2>3 DEF Length, isEmptyFifo
  <2>5. CASE f.head = -1
    <3>1. Length(f) = 0
      BY <2>5 DEF Length, isEmptyFifo
    <3>2. g.head = f.tail
      BY <2>1, <2>5
    <3>3. Length(g) = Length(f) + 1
      BY <1>1, <2>1, <2>4, <3>1, <3>2, FifoAssumption, SMT DEF Slot
    <3> QED  BY <3>3 DEF g
  <2>6. CASE f.head # -1
    <3>1. Length(f) = IF f.head < f.tail THEN f.tail - f.head
                      ELSE f.tail - f.head + Chairs
      BY <2>6 DEF Length, isEmptyFifo
    <3>2. g.head = f.head
      BY <2>1, <2>6
    <3>3. f.head \in 0 .. Chairs - 1 /\ f.tail \in 0 .. Chairs - 1
      BY <1>1, <2>6 DEF Slot
    <3>4. CASE f.tail + 1 = Chairs
      <4>1. g.tail = 0
        BY <2>1, <3>4
      <4>2. Length(g) = Length(f) + 1
        BY <2>2, <2>4, <3>1, <3>2, <3>3, <3>4, <4>1, FifoAssumption, SMT
      <4> QED  BY <4>2 DEF g
    <3>5. CASE f.tail + 1 # Chairs
      <4>1. g.tail = f.tail + 1
        BY <2>1, <3>5
      <4>2. Length(g) = Length(f) + 1
        BY <2>2, <2>4, <3>1, <3>2, <3>3, <3>5, <4>1, FifoAssumption, SMT
      <4> QED  BY <4>2 DEF g
    <3> QED  BY <3>4, <3>5
  <2> QED  BY <2>5, <2>6
<1> QED  BY <1>4, <1>5, <1>6

LEMMA PopType ==
    ASSUME NEW f \in FifoType, ~isEmptyFifo(f)
    PROVE  /\ popFifo(f) \in FifoType
           /\ Length(popFifo(f)) = Length(f) - 1
           /\ popFifo(f).chair = f.tab[f.head]
<1>1. f.head \in Slot /\ f.tail \in Slot /\ f.chair \in Client \cup {NoPid}
      /\ f.tab \in [Slot -> Client \cup {NoPid}]
  BY DEF FifoType, isEmptyFifo
<1>2. Advance(f.head) \in Slot
  BY <1>1, FifoAssumption, SMT DEF Slot, Advance
<1>3. popFifo(f) \in FifoType
  BY <1>1, <1>2 DEF FifoType, popFifo
<1>4. Length(popFifo(f)) = Length(f) - 1
  <2> DEFINE g == popFifo(f)
  <2>1. /\ g.head = IF Advance(f.head) = f.tail THEN -1 ELSE Advance(f.head)
        /\ g.tail = f.tail
    BY DEF popFifo
  <2>2. Advance(f.head) = IF f.head + 1 = Chairs THEN 0 ELSE f.head + 1
    BY DEF Advance
  <2> HIDE DEF g
  <2>3. Length(f) = IF f.head < f.tail THEN f.tail - f.head
                    ELSE f.tail - f.head + Chairs
    BY DEF Length, isEmptyFifo
  <2>4. CASE Advance(f.head) = f.tail
    <3>1. Length(g) = 0
      BY <2>1, <2>4 DEF Length, isEmptyFifo
    <3> QED  BY <1>1, <2>2, <2>3, <2>4, <3>1, FifoAssumption, SMT DEF Slot, g
  <2>5. CASE Advance(f.head) # f.tail
    <3>1. g.head = Advance(f.head) /\ g.head # -1
      BY <1>2, <2>1, <2>5, FifoAssumption, SMT DEF Slot
    <3>2. Length(g) = IF g.head < g.tail THEN g.tail - g.head
                      ELSE g.tail - g.head + Chairs
      BY <3>1 DEF Length, isEmptyFifo
    <3>3. Length(g) = Length(f) - 1
      BY <1>1, <2>1, <2>2, <2>3, <2>5, <3>1, <3>2, FifoAssumption, SMT DEF Slot
    <3> QED  BY <3>3 DEF g
  <2> QED  BY <2>4, <2>5
<1> QED  BY <1>3, <1>4 DEF popFifo

-----------------------------------------------------------------------------
LEMMA ContentsPush ==
    ASSUME NEW f \in FifoType, NEW x \in Client, ~isFullFifo(f)
    PROVE  /\ \A i \in 1 .. Length(f) :
                  Contents(pushFifo(f, x))[i] = Contents(f)[i]
           /\ Contents(pushFifo(f, x))[Length(f) + 1] = x
<1> DEFINE g == pushFifo(f, x)
           n == Length(f)
<1>1. /\ f.head \in Slot \cup {-1} /\ f.tail \in Slot
      /\ f.tab \in [Slot -> Client \cup {NoPid}]
  BY DEF FifoType
<1>2. /\ g \in FifoType
      /\ g.head = IF f.head = -1 THEN f.tail ELSE f.head
      /\ g.tab = [f.tab EXCEPT ![f.tail] = x]
      /\ Length(g) = n + 1
      /\ n \in 0 .. Chairs - 1
      /\ f.head # f.tail
  <2>1. n \in 0 .. Chairs /\ n # Chairs
    BY LengthType
  <2> QED  BY <2>1, PushType, FifoAssumption, SMT DEF pushFifo, isEmptyFifo, isFullFifo
<1>3. Contents(g) = [i \in 1 .. n + 1 |-> g.tab[SlotOf(g, i - 1)]]
  BY <1>2 DEF Contents
<1>4. Contents(f) = [i \in 1 .. n |-> f.tab[SlotOf(f, i - 1)]]
  BY DEF Contents
<1>5. n = IF f.head = -1 THEN 0
          ELSE IF f.head < f.tail THEN f.tail - f.head ELSE f.tail - f.head + Chairs
  BY DEF Length, isEmptyFifo
<1>6. \A k \in 0 .. Chairs - 1 :
         SlotOf(g, k) = IF g.head + k < Chairs THEN g.head + k ELSE g.head + k - Chairs
  BY DEF SlotOf
<1>7. \A k \in 0 .. Chairs - 1 :
         SlotOf(f, k) = IF f.head + k < Chairs THEN f.head + k ELSE f.head + k - Chairs
  BY DEF SlotOf
<1> HIDE DEF g, n
<1>8. ASSUME NEW i \in 1 .. n
      PROVE  Contents(g)[i] = Contents(f)[i]
  <2>1. f.head # -1
    BY <1>5, SMT
  <2>2. i - 1 \in 0 .. Chairs - 1 /\ i \in 1 .. n + 1
    BY <1>2, FifoAssumption, SMT
  <2>3. SlotOf(g, i - 1) = SlotOf(f, i - 1)
    BY <1>2, <1>6, <1>7, <2>1, <2>2
  <2>4. SlotOf(f, i - 1) \in Slot /\ SlotOf(f, i - 1) # f.tail
    <3>1. SlotOf(f, i - 1) = IF f.head + (i - 1) < Chairs THEN f.head + (i - 1)
                             ELSE f.head + (i - 1) - Chairs
      BY <1>7, <2>2
    <3>2. f.head \in 0 .. Chairs - 1 /\ f.tail \in 0 .. Chairs - 1
      BY <1>1, <2>1 DEF Slot
    <3>3. n = IF f.head < f.tail THEN f.tail - f.head ELSE f.tail - f.head + Chairs
      BY <1>5, <2>1
    <3>4. i - 1 \in 0 .. n - 1
      BY <1>2, FifoAssumption, SMT
    <3> QED  BY <3>1, <3>2, <3>3, <3>4, <1>2, FifoAssumption, SMT DEF Slot
  <2>5. g.tab[SlotOf(f, i - 1)] = f.tab[SlotOf(f, i - 1)]
    BY <1>1, <1>2, <2>4
  <2> QED  BY <1>3, <1>4, <2>2, <2>3, <2>5
<1>9. Contents(g)[n + 1] = x
  <2>1. SlotOf(g, n) = f.tail
    <3>1. SlotOf(g, n) = IF g.head + n < Chairs THEN g.head + n
                         ELSE g.head + n - Chairs
      BY <1>2, <1>6
    <3>2. CASE f.head = -1
      BY <1>1, <1>2, <1>5, <3>1, <3>2, FifoAssumption, SMT DEF Slot
    <3>3. CASE f.head # -1
      <4>1. g.head = f.head /\ f.head \in 0 .. Chairs - 1 /\ f.tail \in 0 .. Chairs - 1
        BY <1>1, <1>2, <3>3 DEF Slot
      <4>2. n = IF f.head < f.tail THEN f.tail - f.head ELSE f.tail - f.head + Chairs
        BY <1>5, <3>3
      <4> QED  BY <1>2, <3>1, <4>1, <4>2, FifoAssumption, SMT
    <3> QED  BY <3>2, <3>3
  <2>2. g.tab[f.tail] = x
    BY <1>1, <1>2
  <2>3. n + 1 \in 1 .. n + 1 /\ (n + 1) - 1 = n
    BY <1>2, FifoAssumption, SMT
  <2> QED  BY <1>3, <2>1, <2>2, <2>3
<1> QED  BY <1>8, <1>9 DEF g, n

LEMMA ContentsPop ==
    ASSUME NEW f \in FifoType, ~isEmptyFifo(f)
    PROVE  /\ Contents(f)[1] = popFifo(f).chair
           /\ \A i \in 1 .. Length(f) - 1 :
                  Contents(popFifo(f))[i] = Contents(f)[i + 1]
<1> DEFINE g == popFifo(f)
           n == Length(f)
<1>1. /\ f.head \in Slot /\ f.tail \in Slot
      /\ f.tab \in [Slot -> Client \cup {NoPid}]
  BY DEF FifoType, isEmptyFifo
<1>2. n \in 1 .. Chairs
  <2>1. n \in 0 .. Chairs /\ n # 0
    BY LengthType
  <2> QED  BY <2>1, FifoAssumption, SMT
<1>3. /\ g.head = IF Advance(f.head) = f.tail THEN -1 ELSE Advance(f.head)
      /\ g.tab = f.tab
      /\ g.chair = f.tab[f.head]
      /\ Length(g) = n - 1
  BY PopType DEF popFifo
<1>4. Contents(g) = [i \in 1 .. n - 1 |-> g.tab[SlotOf(g, i - 1)]]
  BY <1>3 DEF Contents
<1>5. Contents(f) = [i \in 1 .. n |-> f.tab[SlotOf(f, i - 1)]]
  BY DEF Contents
<1>6. /\ n = IF f.head < f.tail THEN f.tail - f.head ELSE f.tail - f.head + Chairs
      /\ Advance(f.head) = IF f.head + 1 = Chairs THEN 0 ELSE f.head + 1
  BY DEF Length, isEmptyFifo, Advance
<1>7. \A k \in 0 .. Chairs - 1 :
         SlotOf(g, k) = IF g.head + k < Chairs THEN g.head + k ELSE g.head + k - Chairs
  BY DEF SlotOf
<1>8. \A k \in 0 .. Chairs - 1 :
         SlotOf(f, k) = IF f.head + k < Chairs THEN f.head + k ELSE f.head + k - Chairs
  BY DEF SlotOf
<1> HIDE DEF g, n
<1>9. Contents(f)[1] = g.chair
  <2>1. 0 \in 0 .. Chairs - 1 /\ 1 \in 1 .. n /\ 1 - 1 = 0
    BY <1>2, FifoAssumption, SMT
  <2>2. SlotOf(f, 0) = f.head
    BY <1>1, <1>8, <2>1, FifoAssumption, SMT DEF Slot
  <2> QED  BY <1>3, <1>5, <2>1, <2>2
<1>10. ASSUME NEW i \in 1 .. n - 1
       PROVE  Contents(g)[i] = Contents(f)[i + 1]
  <2>1. /\ i - 1 \in 0 .. Chairs - 1 /\ i \in 0 .. Chairs - 1
        /\ i + 1 \in 1 .. n /\ (i + 1) - 1 = i /\ n \in 2 .. Chairs
    BY <1>2, FifoAssumption, SMT
  <2>2. Advance(f.head) # f.tail
    BY <1>1, <1>6, <2>1, FifoAssumption, SMT DEF Slot
  <2>3. SlotOf(g, i - 1) = SlotOf(f, i)
    <3>1. SlotOf(g, i - 1) = IF g.head + (i - 1) < Chairs THEN g.head + (i - 1)
                             ELSE g.head + (i - 1) - Chairs
      BY <1>7, <2>1
    <3>2. SlotOf(f, i) = IF f.head + i < Chairs THEN f.head + i
                         ELSE f.head + i - Chairs
      BY <1>8, <2>1
    <3>3. g.head = IF f.head + 1 = Chairs THEN 0 ELSE f.head + 1
      BY <1>3, <1>6, <2>2
    <3> QED  BY <1>1, <2>1, <3>1, <3>2, <3>3, FifoAssumption, SMT DEF Slot
  <2> QED  BY <1>3, <1>4, <1>5, <2>1, <2>3
<1> QED  BY <1>9, <1>10 DEF g, n

-----------------------------------------------------------------------------
LEMMA PushAppends ==
    ASSUME NEW f \in FifoType, Contents(f) \in Seq(Client), ~isFullFifo(f), NEW x \in Client
    PROVE  Contents(pushFifo(f, x)) = Append(Contents(f), x)
<1> DEFINE g == pushFifo(f, x)
           s == Contents(f)
           t == Append(s, x)
<1>1. /\ t \in Seq(Client) /\ Len(t) = Length(f) + 1
      /\ \A i \in 1 .. Length(f) : t[i] = s[i]
      /\ t[Length(f) + 1] = x
  BY LenContents, AppendProperties
<1>2. /\ Len(Contents(g)) = Length(f) + 1
      /\ DOMAIN Contents(g) = 1 .. Length(f) + 1
      /\ \A i \in 1 .. Length(f) : Contents(g)[i] = s[i]
      /\ Contents(g)[Length(f) + 1] = x
  BY PushType, LenContents, ContentsPush
<1>3. Length(f) \in Nat
  BY LengthType, FifoAssumption, SMT
<1>4. /\ DOMAIN t = 1 .. Length(f) + 1
      /\ t = [i \in DOMAIN t |-> t[i]]
  BY <1>1, LenProperties
<1>5. Contents(g) = [i \in DOMAIN Contents(g) |-> Contents(g)[i]]
  BY DEF Contents
<1> HIDE DEF g, s, t
<1>6. \A i \in 1 .. Length(f) + 1 : Contents(g)[i] = t[i]
  <2> TAKE i \in 1 .. Length(f) + 1
  <2>1. i \in 1 .. Length(f) \/ i = Length(f) + 1
    BY <1>3, SMT
  <2> QED  BY <1>1, <1>2, <2>1
<1>7. Contents(g) = t
  BY <1>2, <1>4, <1>5, <1>6
<1> QED  BY <1>7 DEF g, s, t

LEMMA PopTakesHead ==
    ASSUME NEW f \in FifoType, Contents(f) \in Seq(Client), ~isEmptyFifo(f)
    PROVE  /\ Contents(f) # <<>>
           /\ popFifo(f).chair = Head(Contents(f))
           /\ Contents(popFifo(f)) = Tail(Contents(f))
<1> DEFINE g == popFifo(f)
           s == Contents(f)
           t == Tail(s)
<1>1. Length(f) \in 1 .. Chairs /\ Len(s) = Length(f)
  BY LengthType, LenContents, FifoAssumption, SMT
<1>2. s # <<>>
  BY <1>1, EmptySeq, FifoAssumption, SMT
<1>3. /\ t \in Seq(Client) /\ Len(t) = Length(f) - 1
      /\ \A i \in 1 .. Length(f) - 1 : t[i] = s[i + 1]
  BY <1>1, <1>2, HeadTailProperties
<1>4. /\ DOMAIN Contents(g) = 1 .. Length(f) - 1
      /\ g.chair = s[1]
      /\ \A i \in 1 .. Length(f) - 1 : Contents(g)[i] = s[i + 1]
  BY PopType, LenContents, ContentsPop
<1>5. /\ DOMAIN t = 1 .. Length(f) - 1
      /\ t = [i \in DOMAIN t |-> t[i]]
  BY <1>3, LenProperties
<1>6. Contents(g) = [i \in DOMAIN Contents(g) |-> Contents(g)[i]]
  BY DEF Contents
<1>7. Head(s) = s[1]
  BY <1>2
<1> HIDE DEF g, s, t
<1>8. Contents(g) = t
  BY <1>3, <1>4, <1>5, <1>6
<1> QED  BY <1>2, <1>4, <1>7, <1>8 DEF g, s, t

LEMMA InitContents == fifoInit \in FifoType /\ Contents(fifoInit) = <<>>
<1>1. fifoInit \in FifoType
  BY FifoAssumption, SMT DEF fifoInit, FifoType, Slot
<1>2. Length(fifoInit) = 0
  BY DEF Length, isEmptyFifo, fifoInit
<1>3. Contents(fifoInit) = [i \in 1 .. 0 |-> fifoInit.tab[SlotOf(fifoInit, i - 1)]]
  BY <1>2 DEF Contents
<1>4. 1 .. 0 = {}
  BY SMT
<1> QED  BY <1>1, <1>3, <1>4

-----------------------------------------------------------------------------
(* Who waits, for those who do not care in which order. *)

Members(f) == {Contents(f)[i] : i \in 1 .. Length(f)}

Distinct(f) == \A i, j \in 1 .. Length(f) : Contents(f)[i] = Contents(f)[j] => i = j

LEMMA EmptyMembers ==
    ASSUME NEW f \in FifoType, isEmptyFifo(f)
    PROVE  Members(f) = {}
<1>1. 1 .. Length(f) = {}
  BY LengthType, FifoAssumption, SMT
<1> QED  BY <1>1 DEF Members

LEMMA PushMembers ==
    ASSUME NEW f \in FifoType, Contents(f) \in Seq(Client), ~isFullFifo(f), NEW x \in Client
    PROVE  /\ Contents(pushFifo(f, x)) \in Seq(Client)
           /\ Members(pushFifo(f, x)) = Members(f) \cup {x}
           /\ Distinct(f) /\ x \notin Members(f) => Distinct(pushFifo(f, x))
<1> DEFINE g == pushFifo(f, x)
           n == Length(f)
<1>1. Contents(g) \in Seq(Client)
  BY PushAppends, AppendProperties
<1>2. /\ n \in Nat /\ Length(g) = n + 1
      /\ \A i \in 1 .. n : Contents(g)[i] = Contents(f)[i]
      /\ Contents(g)[n + 1] = x
  BY LengthType, PushType, ContentsPush, FifoAssumption, SMT
<1>3. \A i : i \in 1 .. n + 1 <=> i \in 1 .. n \/ i = n + 1
  BY <1>2, SMT
<1>4. n + 1 \notin 1 .. n
  BY <1>2, SMT
<1> HIDE DEF g, n
<1>5. Members(g) = Members(f) \cup {x}
  BY <1>2, <1>3 DEF Members, n
<1>6. ASSUME Distinct(f), x \notin Members(f) PROVE Distinct(g)
  <2>1. \A i \in 1 .. n : Contents(f)[i] # x
    BY <1>6 DEF Members, n
  <2>2. \A i, j \in 1 .. n : Contents(f)[i] = Contents(f)[j] => i = j
    BY <1>6 DEF Distinct, n
  <2> SUFFICES ASSUME NEW i \in 1 .. n + 1, NEW j \in 1 .. n + 1,
                      Contents(g)[i] = Contents(g)[j]
               PROVE  i = j
    BY <1>2 DEF Distinct
  <2> QED  BY <1>2, <1>3, <2>1, <2>2
<1> QED  BY <1>1, <1>5, <1>6 DEF g

LEMMA PopMembers ==
    ASSUME NEW f \in FifoType, Contents(f) \in Seq(Client), ~isEmptyFifo(f)
    PROVE  /\ Contents(popFifo(f)) \in Seq(Client)
           /\ popFifo(f).chair \in Client
           /\ Members(f) = Members(popFifo(f)) \cup {popFifo(f).chair}
           /\ Distinct(f) => /\ Distinct(popFifo(f))
                             /\ popFifo(f).chair \notin Members(popFifo(f))
<1> DEFINE g == popFifo(f)
           n == Length(f)
<1>1. /\ Contents(g) \in Seq(Client)
      /\ g.chair \in Client
  BY PopTakesHead, HeadTailProperties
<1>2. n \in Nat /\ n # 0
  BY LengthType, FifoAssumption, SMT
<1>3. Length(g) = n - 1
  BY PopType
<1>4. /\ Contents(f)[1] = g.chair
      /\ \A i \in 1 .. n - 1 : Contents(g)[i] = Contents(f)[i + 1]
  BY ContentsPop
<1>5. /\ \A i \in 1 .. n : i # 1 => i - 1 \in 1 .. n - 1 /\ (i - 1) + 1 = i
      /\ \A i \in 1 .. n - 1 : i + 1 \in 1 .. n /\ i + 1 # 1
      /\ \A i, j \in 1 .. n - 1 : i + 1 = j + 1 => i = j
      /\ 1 \in 1 .. n
  BY <1>2, SMT
<1> HIDE DEF g, n
<1>6. Members(g) \subseteq Members(f)
  BY <1>3, <1>4, <1>5 DEF Members, n
<1>7. g.chair \in Members(f)
  BY <1>4, <1>5 DEF Members, n
<1>8. \A i \in 1 .. n : Contents(f)[i] \in Members(g) \cup {g.chair}
  <2> TAKE i \in 1 .. n
  <2>1. CASE i = 1
    BY <1>4, <2>1
  <2>2. CASE i # 1
    <3>1. Contents(g)[i - 1] = Contents(f)[i]
      BY <1>4, <1>5, <2>2
    <3> QED  BY <1>3, <1>5, <2>2, <3>1 DEF Members
  <2> QED  BY <2>1, <2>2
<1>9. Members(f) = Members(g) \cup {g.chair}
  BY <1>6, <1>7, <1>8 DEF Members, n
<1>10. ASSUME Distinct(f) PROVE Distinct(g) /\ g.chair \notin Members(g)
  <2>1. \A i, j \in 1 .. n : Contents(f)[i] = Contents(f)[j] => i = j
    BY <1>10 DEF Distinct, n
  <2>2. \A i \in 1 .. n - 1 : Contents(g)[i] # g.chair
    BY <1>4, <1>5, <2>1
  <2>3. ASSUME NEW i \in 1 .. n - 1, NEW j \in 1 .. n - 1, Contents(g)[i] = Contents(g)[j]
        PROVE  i = j
    <3>1. Contents(f)[i + 1] = Contents(f)[j + 1]
      BY <1>4, <2>3
    <3>2. i + 1 = j + 1
      BY <1>5, <2>1, <3>1
    <3> QED  BY <1>5, <3>2
  <2> QED  BY <1>3, <2>2, <2>3 DEF Members, Distinct
<1> QED  BY <1>1, <1>9, <1>10 DEF g

\* A client that sits down on the chair leaves the queue as it is.
LEMMA SitMembers ==
    ASSUME NEW f \in FifoType, NEW x \in Client
    PROVE  LET g == [f EXCEPT !.chair = x]
           IN /\ g \in FifoType
              /\ g.chair = x
              /\ isEmptyFifo(g) <=> isEmptyFifo(f)
              /\ Contents(g) = Contents(f)
              /\ Length(g) = Length(f)
              /\ Members(g) = Members(f)
              /\ Distinct(g) <=> Distinct(f)
<1> DEFINE g == [f EXCEPT !.chair = x]
<1>1. g \in FifoType /\ g.chair = x /\ g.head = f.head /\ g.tail = f.tail /\ g.tab = f.tab
  BY DEF FifoType
<1> HIDE DEF g
<1>2. Length(g) = Length(f) /\ (isEmptyFifo(g) <=> isEmptyFifo(f))
  BY <1>1 DEF Length, isEmptyFifo
<1>3. \A k : SlotOf(g, k) = SlotOf(f, k)
  BY <1>1 DEF SlotOf
<1>4. Contents(g) = Contents(f)
  BY <1>1, <1>2, <1>3 DEF Contents
<1> QED  BY <1>1, <1>2, <1>4 DEF g, Members, Distinct

-----------------------------------------------------------------------------
(* FifoQueue implements BoundedQueue, for every number of chairs. *)

LEMMA RingOKInit == RingInit => RingOK
  BY InitContents, EmptySeq DEF RingInit, RingOK

LEMMA RingOKStep == RingOK /\ [RingNext]_ringVars => RingOK'
<1> SUFFICES ASSUME RingOK, [RingNext]_ringVars
             PROVE  RingOK'
  OBVIOUS
<1> USE DEF RingOK
<1>1. ASSUME NEW p \in Client, PushCall(p)
      PROVE  RingOK'
  BY <1>1, PushType, PushAppends, AppendProperties DEF PushCall
<1>2. CASE PushRefused
  BY <1>2 DEF PushRefused
<1>3. CASE PopCall
  BY <1>3, PopType, PopTakesHead, HeadTailProperties DEF PopCall
<1>4. CASE PopRefused
  BY <1>4 DEF PopRefused
<1>5. CASE UNCHANGED ringVars
  BY <1>5 DEF ringVars
<1> QED  BY <1>1, <1>2, <1>3, <1>4, <1>5 DEF RingNext

\* The ring stays a ring whose occupied slots hold processes, whatever calls are
\* made and however many chairs there are (fifo.c:21-41).
THEOREM RingAlwaysOK == RingSpec => []RingOK
  BY RingOKInit, RingOKStep, PTL DEF RingSpec

\* pushFifo and popFifo implement the bounded first-in first-out queue for any
\* number of chairs (fifo.c:21-41).
THEOREM FifoImplementsQueue == RingSpec => QueueSpec
<1>1. RingInit => Queue!Init
  BY InitContents DEF RingInit, Queue!Init
<1>2. RingOK /\ [RingNext]_ringVars => [Queue!Next]_(Queue!vars)
  <2> SUFFICES ASSUME RingOK, [RingNext]_ringVars
               PROVE  [Queue!Next]_(Queue!vars)
    OBVIOUS
  <2> USE DEF RingOK
  <2>1. Len(Contents(ring)) \in 0 .. Chairs
        /\ (isFullFifo(ring) <=> Len(Contents(ring)) = Chairs)
        /\ (isEmptyFifo(ring) <=> Len(Contents(ring)) = 0)
    BY LengthType, LenContents
  <2>2. ASSUME NEW p \in Client, PushCall(p)
        PROVE  Queue!Put(p)
    <3>1. Len(Contents(ring)) < Chairs
      BY <2>1, <2>2, FifoAssumption, SMT DEF PushCall
    <3> QED  BY <2>2, <3>1, PushAppends DEF PushCall, Queue!Put
  <2>3. CASE PushRefused
    BY <2>1, <2>3 DEF PushRefused, Queue!Refuse, Queue!Next
  <2>4. CASE PopCall
    BY <2>4, PopTakesHead DEF PopCall, Queue!Take, Queue!Next
  <2>5. CASE PopRefused
    <3>1. Contents(ring) = <<>>
      BY <2>1, <2>5, EmptySeq, SMT DEF PopRefused
    <3> QED  BY <2>5, <3>1 DEF PopRefused, Queue!TakeNothing, Queue!Next
  <2>6. CASE UNCHANGED ringVars
    BY <2>6 DEF ringVars, Queue!vars
  <2> QED  BY <2>2, <2>3, <2>4, <2>5, <2>6 DEF RingNext, Queue!Next
<1> QED  BY <1>1, <1>2, RingAlwaysOK, PTL DEF RingSpec, QueueSpec, Queue!Spec
=============================================================================
