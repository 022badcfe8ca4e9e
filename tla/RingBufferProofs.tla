-------------------------- MODULE RingBufferProofs --------------------------
(***************************************************************************)
(* The ring buffer is free of data races and implements the bounded FIFO   *)
(* queue, for any capacity and any sizes of pushes and pops.               *)
(***************************************************************************)
EXTENDS RingBuffer, SequenceTheorems, TLAPS

-----------------------------------------------------------------------------
(* Arithmetic of the indices.  No index is further than one turn away, so   *)
(* the remainders of the code are a comparison and a subtraction.           *)

Cell(t, k) == (t + k) % capacity_

LEMMA ModIsWrap ==
    ASSUME NEW x \in Nat, x < 2 * capacity_
    PROVE  /\ x % capacity_ = IF x < capacity_ THEN x ELSE x - capacity_
           /\ x % capacity_ \in Index
<1>1. CASE x < capacity_
  BY <1>1, RingAssumption DEF Index
<1>2. CASE x >= capacity_
  BY <1>2, RingAssumption DEF Index
<1> QED
  BY <1>1, <1>2, RingAssumption

LEMMA UsedIsDistance ==
    ASSUME NEW h \in Index, NEW t \in Index
    PROVE  /\ Used(h, t) = IF h < t THEN h - t + capacity_ ELSE h - t
           /\ Used(h, t) \in Index
<1>1. h - t + capacity_ \in Nat /\ h - t + capacity_ < 2 * capacity_
  BY RingAssumption DEF Index
<1> DEFINE x == h - t + capacity_
<1>2. /\ x % capacity_ = IF x < capacity_ THEN x ELSE x - capacity_
      /\ x % capacity_ \in Index
  BY <1>1, ModIsWrap
<1> QED
  BY <1>2, RingAssumption DEF Used, Index

LEMMA CellIs ==
    ASSUME NEW t \in Index, NEW k \in Nat, t + k < 2 * capacity_
    PROVE  /\ Cell(t, k) = IF t + k < capacity_ THEN t + k ELSE t + k - capacity_
           /\ Cell(t, k) \in Index
<1> DEFINE x == t + k
<1>1. x \in Nat /\ x < 2 * capacity_
  BY RingAssumption DEF Index
<1>2. Cell(t, k) = x % capacity_ /\ x = t + k
  BY DEF Cell
<1> HIDE DEF x
<1>3. /\ x % capacity_ = IF x < capacity_ THEN x ELSE x - capacity_
      /\ x % capacity_ \in Index
  BY <1>1, ModIsWrap
<1> QED
  BY <1>1, <1>2, <1>3, RingAssumption DEF Index

\* Moving head forward makes room smaller, moving tail forward larger.
LEMMA HeadAdvances ==
    ASSUME NEW h \in Index, NEW t \in Index, NEW n \in Nat,
           Used(h, t) + n < capacity_
    PROVE  /\ Cell(h, n) \in Index
           /\ Used(Cell(h, n), t) = Used(h, t) + n
           /\ Cell(h, n) = Cell(t, Used(h, t) + n)
<1>1. Used(h, t) = (IF h < t THEN h - t + capacity_ ELSE h - t) /\ Used(h, t) \in Index
  BY UsedIsDistance
<1>2. Used(h, t) + n \in Nat /\ h + n < 2 * capacity_ /\ t + (Used(h, t) + n) < 2 * capacity_
  BY <1>1, RingAssumption DEF Index
<1>3. /\ Cell(h, n) = IF h + n < capacity_ THEN h + n ELSE h + n - capacity_
      /\ Cell(h, n) \in Index
  BY <1>2, CellIs
<1>4. Cell(t, Used(h, t) + n) = IF t + (Used(h, t) + n) < capacity_
                                THEN t + (Used(h, t) + n)
                                ELSE t + (Used(h, t) + n) - capacity_
  BY <1>2, CellIs
<1>5. Used(Cell(h, n), t) = IF Cell(h, n) < t THEN Cell(h, n) - t + capacity_
                                              ELSE Cell(h, n) - t
  BY <1>3, UsedIsDistance
<1> QED
  BY <1>1, <1>3, <1>4, <1>5, RingAssumption DEF Index

LEMMA TailAdvances ==
    ASSUME NEW h \in Index, NEW t \in Index, NEW n \in Nat, n <= Used(h, t)
    PROVE  /\ Cell(t, n) \in Index
           /\ Used(h, Cell(t, n)) = Used(h, t) - n
           /\ \A k \in Nat : n + k < capacity_ => Cell(Cell(t, n), k) = Cell(t, n + k)
<1>1. Used(h, t) = (IF h < t THEN h - t + capacity_ ELSE h - t) /\ Used(h, t) \in Index
  BY UsedIsDistance
<1>2. t + n < 2 * capacity_
  BY <1>1, RingAssumption DEF Index
<1>3. /\ Cell(t, n) = IF t + n < capacity_ THEN t + n ELSE t + n - capacity_
      /\ Cell(t, n) \in Index
  BY <1>2, CellIs
<1>4. Used(h, Cell(t, n)) = IF h < Cell(t, n) THEN h - Cell(t, n) + capacity_
                                              ELSE h - Cell(t, n)
  BY <1>3, UsedIsDistance
<1>5. ASSUME NEW k \in Nat, n + k < capacity_
      PROVE  Cell(Cell(t, n), k) = Cell(t, n + k)
  <2>1. /\ Cell(t, n) + k < 2 * capacity_
        /\ n + k \in Nat /\ t + (n + k) < 2 * capacity_
    BY <1>3, <1>5, RingAssumption DEF Index
  <2>2. Cell(Cell(t, n), k) = IF Cell(t, n) + k < capacity_ THEN Cell(t, n) + k
                              ELSE Cell(t, n) + k - capacity_
    BY <1>3, <2>1, CellIs
  <2>3. Cell(t, n + k) = IF t + (n + k) < capacity_ THEN t + (n + k)
                         ELSE t + (n + k) - capacity_
    BY <2>1, CellIs
  <2> QED
    BY <2>2, <2>3, <1>3, <1>5, RingAssumption DEF Index
<1> QED
  BY <1>1, <1>3, <1>4, <1>5, RingAssumption DEF Index

\* Less than a turn apart, two cells differ.
LEMMA CellsDiffer ==
    ASSUME NEW t \in Index, NEW j \in Index, NEW k \in Index
    PROVE  /\ Cell(t, j) \in Index
           /\ Cell(t, j) = Cell(t, k) => j = k
<1>1. j \in Nat /\ k \in Nat /\ t + j < 2 * capacity_ /\ t + k < 2 * capacity_
  BY RingAssumption DEF Index
<1>2. /\ Cell(t, j) = IF t + j < capacity_ THEN t + j ELSE t + j - capacity_
      /\ Cell(t, j) \in Index
  BY <1>1, CellIs
<1>3. Cell(t, k) = IF t + k < capacity_ THEN t + k ELSE t + k - capacity_
  BY <1>1, CellIs
<1> QED
  BY <1>2, <1>3, RingAssumption DEF Index

-----------------------------------------------------------------------------
(* The inductive invariant.                                                 *)

ThreadType == [busy : BOOLEAN, at : Index, samples : Nat, to_copy : Nat, i : Nat]

\* A push works behind the cells in use and never beyond the room there is.
ProdInv ==
    /\ prod \in ThreadType
    /\ prod.i <= prod.to_copy
    /\ Used(head_, tail_) + prod.to_copy < capacity_
    /\ written + prod.to_copy <= MaxWritten
    /\ prod.busy => prod.at = head_ /\ prod.to_copy > 0
    /\ ~prod.busy => prod.to_copy = 0

\* A pop works on cells in use.
ConsInv ==
    /\ cons \in ThreadType
    /\ cons.i <= cons.samples /\ cons.to_copy <= cons.samples
    /\ cons.to_copy <= Used(head_, tail_)
    /\ cons.busy => cons.at = tail_
    /\ ~cons.busy => cons.i = 0

\* The cells from tail_ on hold the samples that follow those received, up to
\* the one that push copies next.
CellInv ==
    \A k \in Index :
       k < Used(head_, tail_) + prod.i => buffer_[Cell(tail_, k)] = received + k + 1

DataInv ==
    /\ data \in Seq(0..MaxWritten) /\ Len(data) = cons.i
    /\ InOrder

RingInv ==
    /\ head_ \in Index /\ tail_ \in Index
    /\ buffer_ \in [Index -> 0..MaxWritten]
    /\ written \in 0..MaxWritten /\ received \in Nat
    /\ written = received + Used(head_, tail_)

IInv == RingInv /\ ProdInv /\ ConsInv /\ CellInv /\ DataInv

LEMMA InitIInv == Init => IInv
<1> SUFFICES ASSUME Init PROVE IInv
  OBVIOUS
<1>1. 0 \in Index /\ Used(0, 0) = 0
  BY UsedIsDistance, RingAssumption DEF Index
<1>2. prod = Idle /\ cons = Idle /\ Idle \in ThreadType /\ data = <<>>
  BY <1>1 DEF Init, Idle, ThreadType
<1>3. RingInv /\ CellInv
  BY <1>1, <1>2, RingAssumption DEF Init, RingInv, CellInv, Silence, Idle, Index
<1>4. ProdInv /\ ConsInv
  BY <1>1, <1>2, RingAssumption DEF Init, ProdInv, ConsInv, Idle
<1>5. DataInv
  BY <1>2 DEF DataInv, InOrder, Idle
<1> QED
  BY <1>3, <1>4, <1>5 DEF IInv

LEMMA PushLoadKeeps ==
    ASSUME IInv, NEW samples \in PushSizes, PushLoad(samples) PROVE IInv'
<1> DEFINE n == Least(samples, Available(head_, tail_))
<1>1. Used(head_, tail_) \in Index /\ samples \in Nat
  BY UsedIsDistance, RingAssumption DEF IInv, RingInv
<1>2. n \in Nat /\ n > 0 /\ Used(head_, tail_) + n < capacity_ /\ written + n <= MaxWritten
  BY <1>1, RingAssumption DEF PushLoad, Least, Available, Index
<1>3. /\ prod' = [busy |-> TRUE, at |-> head_, samples |-> n, to_copy |-> n, i |-> 0]
      /\ UNCHANGED <<head_, buffer_, written, tail_, cons, data, received>>
  BY DEF PushLoad, Idle, consVars
<1> HIDE DEF n
<1>4. ProdInv'
  BY <1>2, <1>3 DEF IInv, RingInv, ProdInv, ThreadType, Used
<1>5. CellInv'
  <2>1. Used(head_, tail_)' = Used(head_, tail_) /\ prod'.i = 0 /\ prod.i \in Nat
    BY <1>3 DEF Used, IInv, ProdInv, ThreadType
  <2> QED
    BY <1>1, <1>3, <2>1 DEF IInv, CellInv, Cell, Index
<1>6. RingInv' /\ ConsInv' /\ DataInv'
  BY <1>3 DEF IInv, RingInv, ConsInv, DataInv, InOrder, Used
<1> QED
  BY <1>4, <1>5, <1>6 DEF IInv

LEMMA PushCopyKeeps ==
    ASSUME IInv, PushCopy PROVE IInv'
<1> DEFINE used == Used(head_, tail_)
<1>1. /\ used \in Index /\ prod.i \in Nat /\ used + prod.i < capacity_
      /\ prod.at = head_ /\ head_ \in Index /\ tail_ \in Index
  <2>1. head_ \in Index /\ tail_ \in Index /\ prod.at = head_
    BY DEF IInv, RingInv, ProdInv, PushCopy
  <2>2. used \in Index
    BY <2>1, UsedIsDistance
  <2> HIDE DEF used
  <2>3. prod.i \in Nat /\ prod.to_copy \in Nat /\ prod.i < prod.to_copy
    BY DEF IInv, ProdInv, ThreadType, PushCopy
  <2>4. used + prod.to_copy < capacity_
    BY DEF IInv, ProdInv, used
  <2>5. used \in Nat /\ capacity_ \in Nat
    BY <2>2, RingAssumption DEF Index
  <2>6. used + prod.i < capacity_
    BY <2>3, <2>4, <2>5
  <2> QED
    BY <2>1, <2>2, <2>3, <2>6
<1>2. Cell(head_, prod.i) = Cell(tail_, used + prod.i) /\ Cell(head_, prod.i) \in Index
  BY <1>1, HeadAdvances
<1>3. /\ buffer_' = [buffer_ EXCEPT ![Cell(tail_, used + prod.i)] = written + prod.i + 1]
      /\ UNCHANGED <<head_, written, tail_, cons, data, received>>
  BY <1>1, <1>2 DEF PushCopy, Cell, consVars
<1>4. used' = used
  BY <1>3 DEF Used
<1>5. /\ prod' \in ThreadType /\ prod'.i = prod.i + 1 /\ prod'.to_copy = prod.to_copy
      /\ prod'.busy = prod.busy /\ prod'.at = prod.at
  <2>1. prod \in ThreadType /\ prod' = [prod EXCEPT !.i = prod.i + 1] /\ prod.i + 1 \in Nat
    BY <1>1 DEF PushCopy, IInv, ProdInv
  <2> QED
    BY <2>1 DEF ThreadType
<1>6. written + prod.i + 1 = received + (used + prod.i) + 1 /\ written + prod.i + 1 \in 0..MaxWritten
  <2>1. /\ written \in Nat /\ received \in Nat /\ used \in Nat /\ written = received + used
        /\ prod.to_copy \in Nat /\ prod.i < prod.to_copy
        /\ written + prod.to_copy <= MaxWritten
    BY <1>1, RingAssumption DEF IInv, RingInv, ProdInv, PushCopy, ThreadType, Index
  <2> HIDE DEF used
  <2> QED
    BY <1>1, <2>1, RingAssumption
<1> HIDE DEF used
<1>7. RingInv'
  BY <1>2, <1>3, <1>4, <1>6 DEF IInv, RingInv, used
<1>8. ProdInv'
  BY <1>1, <1>3, <1>4, <1>5 DEF IInv, ProdInv, PushCopy, used, ThreadType
<1>9. ConsInv' /\ DataInv'
  BY <1>3, <1>4 DEF IInv, ConsInv, DataInv, InOrder, used
<1>10. CellInv'
  <2> SUFFICES ASSUME NEW k \in Index, k < used + (prod.i + 1)
               PROVE  buffer_'[Cell(tail_, k)] = received + k + 1
    <3>1. /\ used' + prod'.i = used + (prod.i + 1) /\ tail_' = tail_ /\ received' = received
          /\ \A k \in Index : Cell(tail_, k)' = Cell(tail_, k)
      BY <1>3, <1>4, <1>5 DEF Cell
    <3> QED
      BY <3>1 DEF CellInv, used
  <2>1. used + prod.i \in Index /\ buffer_ \in [Index -> 0..MaxWritten]
    <3>1. used + prod.i \in Index
      BY <1>1, RingAssumption DEF Index
    <3> QED
      BY <3>1 DEF IInv, RingInv
  <2>2. Cell(tail_, k) \in Index /\ (Cell(tail_, k) = Cell(tail_, used + prod.i) => k = used + prod.i)
    BY <1>1, <2>1, CellsDiffer
  <2>3. CASE k = used + prod.i
    BY <1>3, <1>6, <2>1, <2>2, <2>3
  <2>4. CASE k # used + prod.i
    <3>1. k < used + prod.i
      BY <1>1, <2>4, RingAssumption DEF Index
    <3>2. buffer_[Cell(tail_, k)] = received + k + 1
      BY <3>1 DEF IInv, CellInv, used
    <3> QED
      BY <1>3, <2>1, <2>2, <2>4, <3>2
  <2> QED
    BY <2>3, <2>4
<1> QED
  BY <1>7, <1>8, <1>9, <1>10 DEF IInv

LEMMA PushStoreKeeps ==
    ASSUME IInv, PushStore PROVE IInv'
<1> DEFINE used == Used(head_, tail_)
           n == prod.to_copy
<1>1. /\ used \in Index /\ n \in Nat /\ used + n < capacity_ /\ prod.i = n
      /\ prod.at = head_ /\ head_ \in Index /\ tail_ \in Index
  BY UsedIsDistance, RingAssumption DEF IInv, RingInv, ProdInv, PushStore, ThreadType, Index
<1>2. /\ head_' = Cell(head_, n) /\ written' = written + n /\ prod' = Idle
      /\ UNCHANGED <<buffer_, tail_, cons, data, received>>
  BY <1>1 DEF PushStore, Cell, consVars
<1> HIDE DEF n
<1>3. Cell(head_, n) \in Index /\ Used(Cell(head_, n), tail_) = used + n
  BY <1>1, HeadAdvances
<1>4. head_' \in Index /\ used' = used + n
  BY <1>2, <1>3
<1> HIDE DEF used
<1>5. /\ prod' \in ThreadType /\ prod'.i = 0 /\ prod'.to_copy = 0 /\ prod'.busy = FALSE
  BY <1>2, RingAssumption DEF Idle, ThreadType, Index
<1>a. /\ written \in Nat /\ received \in Nat /\ used \in Nat /\ MaxWritten \in Nat
      /\ written = received + used /\ written + n <= MaxWritten
  BY <1>1, RingAssumption DEF IInv, RingInv, ProdInv, used, n, Index
<1>6. RingInv'
  <2>1. written' \in 0..MaxWritten /\ written' = received' + used'
    BY <1>1, <1>2, <1>4, <1>a
  <2>2. /\ tail_' \in Index /\ received' \in Nat
        /\ buffer_' \in [Index -> 0..MaxWritten]
    BY <1>2 DEF IInv, RingInv
  <2> QED
    BY <1>4, <2>1, <2>2 DEF RingInv, used
<1>7. ProdInv'
  <2>1. used' + prod'.to_copy < capacity_ /\ written' + prod'.to_copy <= MaxWritten
    BY <1>1, <1>2, <1>4, <1>5, <1>a, RingAssumption
  <2> QED
    BY <1>5, <2>1 DEF ProdInv, used
<1>8. ConsInv' /\ DataInv'
  BY <1>1, <1>2, <1>4 DEF IInv, ConsInv, DataInv, InOrder, used, ThreadType, Index
<1>9. CellInv'
  <2> SUFFICES ASSUME NEW k \in Index, k < used + n
               PROVE  buffer_[Cell(tail_, k)] = received + k + 1
    BY <1>1, <1>2, <1>4, <1>5 DEF CellInv, used, Cell, Index
  <2> QED
    BY <1>1 DEF IInv, CellInv, used, n
<1> QED
  BY <1>6, <1>7, <1>8, <1>9 DEF IInv

LEMMA PopLoadKeeps ==
    ASSUME IInv, NEW samples \in PopSizes, PopLoad(samples) PROVE IInv'
<1> DEFINE n == Least(samples, Used(head_, tail_))
<1>1. Used(head_, tail_) \in Index /\ samples \in Nat
  BY UsedIsDistance, RingAssumption DEF IInv, RingInv
<1>2. n \in Nat /\ n <= samples /\ n <= Used(head_, tail_)
  BY <1>1, RingAssumption DEF Least, Index
<1>3. /\ cons' = [busy |-> TRUE, at |-> tail_, samples |-> samples, to_copy |-> n, i |-> 0]
      /\ data' = <<>>
      /\ UNCHANGED <<head_, buffer_, written, tail_, prod, received>>
  BY DEF PopLoad, prodVars
<1> HIDE DEF n
<1>4. ConsInv'
  BY <1>1, <1>2, <1>3 DEF IInv, RingInv, ConsInv, ThreadType, Used
<1>5. DataInv'
  BY <1>3 DEF DataInv, InOrder
<1>6. RingInv' /\ ProdInv' /\ CellInv'
  BY <1>3 DEF IInv, RingInv, ProdInv, CellInv, Used, Cell
<1> QED
  BY <1>4, <1>5, <1>6 DEF IInv

LEMMA PopCopyKeeps ==
    ASSUME IInv, PopCopy PROVE IInv'
<1> DEFINE v == IF cons.i < cons.to_copy THEN buffer_[Cell(tail_, cons.i)] ELSE Silence
<1>1. /\ cons.i \in Nat /\ cons.to_copy \in Nat /\ cons.samples \in Nat
      /\ cons.i < cons.samples /\ cons.at = tail_
      /\ Used(head_, tail_) \in Index /\ prod.i \in Nat
  BY UsedIsDistance, RingAssumption DEF IInv, RingInv, ConsInv, ProdInv, PopCopy, ThreadType
<1>2. /\ data' = Append(data, v)
      /\ UNCHANGED <<head_, buffer_, written, tail_, prod, received>>
  BY <1>1 DEF PopCopy, prodVars, Cell
<1>3. /\ cons' \in ThreadType /\ cons'.i = cons.i + 1 /\ cons'.to_copy = cons.to_copy
      /\ cons'.samples = cons.samples /\ cons'.busy = cons.busy /\ cons'.at = cons.at
      /\ cons.busy
  <2>1. cons \in ThreadType /\ cons' = [cons EXCEPT !.i = cons.i + 1] /\ cons.i + 1 \in Nat
        /\ cons.busy
    BY <1>1 DEF PopCopy, IInv, ConsInv
  <2> QED
    BY <2>1 DEF ThreadType
<1>4. v = (IF cons.i < cons.to_copy THEN received + (cons.i + 1) ELSE Silence)
  <2>1. CASE cons.i < cons.to_copy
    <3>1. cons.i \in Index /\ cons.i < Used(head_, tail_) + prod.i
      BY <1>1, <2>1, RingAssumption DEF Index, IInv, ConsInv
    <3>2. buffer_[Cell(tail_, cons.i)] = received + cons.i + 1
      BY <3>1 DEF IInv, CellInv
    <3> QED
      BY <1>1, <2>1, <3>2 DEF IInv, RingInv
  <2>2. CASE ~(cons.i < cons.to_copy)
    BY <2>2
  <2> QED
    BY <2>1, <2>2
<1>5. v \in 0..MaxWritten
  <2>1. /\ written \in Nat /\ received \in Nat /\ written <= MaxWritten
        /\ written = received + Used(head_, tail_) /\ cons.to_copy <= Used(head_, tail_)
        /\ Used(head_, tail_) \in Nat
    BY <1>1, RingAssumption DEF IInv, RingInv, ConsInv, Index
  <2> HIDE DEF v
  <2> QED
    BY <1>1, <1>4, <2>1, RingAssumption DEF Silence
<1> HIDE DEF v
<1>6. ConsInv'
  BY <1>1, <1>2, <1>3 DEF IInv, ConsInv, Used
<1>7. DataInv'
  <2>1. /\ data \in Seq(0..MaxWritten) /\ Len(data) = cons.i
        /\ \A k \in 1..cons.i : data[k] = IF k <= cons.to_copy THEN received + k ELSE Silence
    BY DEF IInv, DataInv, InOrder
  <2>2. /\ data' \in Seq(0..MaxWritten) /\ Len(data') = cons.i + 1
        /\ data'[cons.i + 1] = v
        /\ \A k \in 1..cons.i : data'[k] = data[k]
    BY <1>1, <1>2, <1>5, <2>1
  <2>3. \A k \in 1..(cons.i + 1) :
           data'[k] = IF k <= cons.to_copy THEN received + k ELSE Silence
    <3> SUFFICES ASSUME NEW k \in 1..(cons.i + 1)
                 PROVE  data'[k] = IF k <= cons.to_copy THEN received + k ELSE Silence
      OBVIOUS
    <3>1. CASE k \in 1..cons.i
      BY <2>1, <2>2, <3>1
    <3>2. CASE k = cons.i + 1
      BY <1>1, <1>4, <2>2, <3>2
    <3> QED
      BY <1>1, <3>1, <3>2
  <2> QED
    BY <1>2, <1>3, <2>2, <2>3 DEF DataInv, InOrder
<1>8. RingInv' /\ ProdInv' /\ CellInv'
  BY <1>2 DEF IInv, RingInv, ProdInv, CellInv, Used, Cell
<1> QED
  BY <1>6, <1>7, <1>8 DEF IInv

LEMMA PopStoreKeeps ==
    ASSUME IInv, PopStore PROVE IInv'
<1> DEFINE used == Used(head_, tail_)
           n == cons.to_copy
<1>1. /\ used \in Index /\ n \in Nat /\ n <= used
      /\ cons.at = tail_ /\ head_ \in Index /\ tail_ \in Index
      /\ prod.i \in Nat /\ prod.to_copy \in Nat
  BY UsedIsDistance, RingAssumption
     DEF IInv, RingInv, ConsInv, ProdInv, PopStore, ThreadType
<1>2. /\ tail_' = Cell(tail_, n) /\ received' = received + n /\ cons' = Idle /\ data' = <<>>
      /\ UNCHANGED <<head_, buffer_, prod, written>>
  BY <1>1 DEF PopStore, Cell, prodVars
<1> HIDE DEF n
<1>3. /\ Cell(tail_, n) \in Index /\ Used(head_, Cell(tail_, n)) = used - n
      /\ \A k \in Nat : n + k < capacity_ => Cell(Cell(tail_, n), k) = Cell(tail_, n + k)
  BY <1>1, TailAdvances
<1>4. tail_' \in Index /\ used' = used - n
  BY <1>2, <1>3
<1> HIDE DEF used
<1>5. /\ cons' \in ThreadType /\ cons'.i = 0 /\ cons'.to_copy = 0 /\ cons'.samples = 0
      /\ cons'.busy = FALSE
  BY <1>2, RingAssumption DEF Idle, ThreadType, Index
<1>6. RingInv'
  BY <1>1, <1>2, <1>4 DEF IInv, RingInv, used, Index
<1>7. ProdInv'
  <2>1. used' + prod.to_copy < capacity_
    BY <1>1, <1>4, RingAssumption DEF IInv, ProdInv, used, Index
  <2> QED
    BY <1>2, <2>1 DEF IInv, ProdInv, used
<1>8. ConsInv' /\ DataInv'
  BY <1>1, <1>2, <1>4, <1>5 DEF IInv, ConsInv, DataInv, InOrder, used, Index
<1>9. CellInv'
  <2> SUFFICES ASSUME NEW k \in Index, k < used - n + prod.i
               PROVE  buffer_[Cell(Cell(tail_, n), k)] = received + n + k + 1
    BY <1>1, <1>2, <1>4 DEF CellInv, used, Index
  <2>1. n + k \in Index /\ n + k < used + prod.i /\ k \in Nat /\ n + k < capacity_
    BY <1>1, RingAssumption DEF IInv, ProdInv, used, Index
  <2>2. buffer_[Cell(tail_, n + k)] = received + (n + k) + 1
    BY <2>1 DEF IInv, CellInv, used
  <2> QED
    BY <1>1, <1>3, <2>1, <2>2 DEF IInv, RingInv
<1> QED
  BY <1>6, <1>7, <1>8, <1>9 DEF IInv

LEMMA StepKeeps == IInv /\ [Next]_vars => IInv'
<1> SUFFICES ASSUME IInv, [Next]_vars PROVE IInv'
  OBVIOUS
<1>1. CASE \E n \in PushSizes : PushLoad(n)
  BY <1>1, PushLoadKeeps
<1>2. CASE PushCopy
  BY <1>2, PushCopyKeeps
<1>3. CASE PushStore
  BY <1>3, PushStoreKeeps
<1>4. CASE \E n \in PopSizes : PopLoad(n)
  BY <1>4, PopLoadKeeps
<1>5. CASE PopCopy
  BY <1>5, PopCopyKeeps
<1>6. CASE PopStore
  BY <1>6, PopStoreKeeps
<1>7. CASE UNCHANGED vars
  BY <1>7 DEF vars, IInv, RingInv, ProdInv, ConsInv, CellInv, DataInv, InOrder, Used, Cell
<1> QED
  BY <1>1, <1>2, <1>3, <1>4, <1>5, <1>6, <1>7 DEF Next

LEMMA Inductive == Spec => []IInv
<1>1. Init => IInv
  BY InitIInv
<1>2. IInv /\ [Next]_vars => IInv'
  BY StepKeeps
<1> QED
  BY <1>1, <1>2, PTL DEF Spec

-----------------------------------------------------------------------------
(* The theorems.                                                            *)

\* The indices stay inside the vector, and no sample is counted twice.
THEOREM TypeCorrect == Spec => []TypeOK
<1>1. IInv => TypeOK
  <2> SUFFICES ASSUME IInv PROVE TypeOK
    OBVIOUS
  <2>1. received \in 0..MaxWritten
    <3>1. Used(head_, tail_) \in Nat
      BY UsedIsDistance, RingAssumption DEF IInv, RingInv, Index
    <3> QED
      BY <3>1, RingAssumption DEF IInv, RingInv
  <2> QED
    BY <2>1 DEF IInv, RingInv, ProdInv, ConsInv, DataInv, ThreadType, TypeOK
<1> QED
  BY <1>1, Inductive, PTL

\* push and pop never touch the same cell of buffer_ at the same time: push is
\* behind the cells in use, pop among them, and together they are less than a
\* turn.
THEOREM RaceFree == Spec => []NoDataRace
<1>1. IInv => NoDataRace
  <2> SUFFICES ASSUME IInv, prod.busy, prod.i < prod.to_copy, cons.busy,
                      cons.i < cons.to_copy
               PROVE  (prod.at + prod.i) % capacity_ # (cons.at + cons.i) % capacity_
    BY DEF NoDataRace
  <2>1. /\ head_ \in Index /\ tail_ \in Index /\ Used(head_, tail_) \in Index
        /\ prod.at = head_ /\ cons.at = tail_ /\ prod.i \in Nat /\ cons.i \in Nat
        /\ Used(head_, tail_) + prod.i < capacity_ /\ cons.i < Used(head_, tail_)
    <3>1. /\ head_ \in Index /\ tail_ \in Index /\ Used(head_, tail_) \in Index
          /\ prod \in ThreadType /\ cons \in ThreadType
          /\ prod.at = head_ /\ cons.at = tail_
      BY UsedIsDistance DEF IInv, RingInv, ProdInv, ConsInv
    <3>2. /\ prod.i \in Nat /\ cons.i \in Nat /\ prod.to_copy \in Nat /\ cons.to_copy \in Nat
          /\ Used(head_, tail_) + prod.to_copy < capacity_
          /\ cons.to_copy <= Used(head_, tail_)
      BY <3>1 DEF ThreadType, IInv, ProdInv, ConsInv
    <3> QED
      BY <3>1, <3>2, RingAssumption DEF Index
  <2>2. Cell(head_, prod.i) = Cell(tail_, Used(head_, tail_) + prod.i)
    BY <2>1, HeadAdvances
  <2>3. Used(head_, tail_) + prod.i \in Index /\ cons.i \in Index
    BY <2>1, RingAssumption DEF Index
  <2>4. Used(head_, tail_) + prod.i # cons.i
    BY <2>1, RingAssumption DEF Index
  <2>5. Cell(tail_, Used(head_, tail_) + prod.i) # Cell(tail_, cons.i)
    BY <2>1, <2>3, <2>4, CellsDiffer
  <2> QED
    BY <2>1, <2>2, <2>5 DEF Cell
<1> QED
  BY <1>1, Inductive, PTL

\* Every pop gets the samples that follow those of the pop before it.
THEOREM SamplesInOrder == Spec => []InOrder
<1>1. IInv => InOrder
  BY DEF IInv, DataInv
<1> QED
  BY <1>1, Inductive, PTL

-----------------------------------------------------------------------------
(* The refinement.                                                          *)

\* What the abstract queue holds, by the invariant: the samples that push has
\* accepted and pop has not handed out.
HeldInv ==
    /\ Used(head_, tail_) \in Nat /\ Used(head_, tail_) < capacity_
    /\ received \in Nat /\ written = received + Used(head_, tail_)
    /\ Held = [k \in 1..Used(head_, tail_) |-> received + k]

LEMMA HeldIs == IInv => HeldInv
<1> SUFFICES ASSUME IInv PROVE HeldInv
  OBVIOUS
<1> DEFINE used == Used(head_, tail_)
<1>1. /\ used \in Index /\ used \in Nat /\ used < capacity_
      /\ prod.i \in Nat /\ received \in Nat /\ tail_ \in Nat
      /\ written = received + used
  <2>1. used \in Index /\ received \in Nat /\ tail_ \in Index /\ prod.i \in Nat
        /\ written = received + used
    BY UsedIsDistance DEF IInv, RingInv, ProdInv, ThreadType
  <2> HIDE DEF used
  <2> QED
    BY <2>1, RingAssumption DEF Index
<1>2. Held = [k \in 1..used |-> buffer_[(tail_ + k - 1) % capacity_]]
  BY DEF Held
<1>3. \A k \in 1..used : buffer_[(tail_ + k - 1) % capacity_] = received + k
  <2> SUFFICES ASSUME NEW k \in 1..used
               PROVE  buffer_[(tail_ + k - 1) % capacity_] = received + k
    OBVIOUS
  <2>1. k - 1 \in Index /\ k - 1 < used + prod.i
    BY <1>1, RingAssumption DEF Index
  <2>2. buffer_[Cell(tail_, k - 1)] = received + (k - 1) + 1
    BY <2>1 DEF IInv, CellInv
  <2>3. tail_ + k - 1 = tail_ + (k - 1)
    BY <1>1
  <2> QED
    BY <1>1, <2>2, <2>3 DEF Cell
<1> HIDE DEF used
<1>4. Held = [k \in 1..used |-> received + k]
  BY <1>2, <1>3
<1> QED
  BY <1>1, <1>4 DEF used, HeldInv

LEMMA HeldIsNext == IInv' => HeldInv'
BY HeldIs, PTL

\* The store of head_ appends what push has copied.
LEMMA PushStoreIsPush ==
    ASSUME IInv, IInv', PushStore
    PROVE  \E n \in 1..(capacity_ - 1) : Fifo!FifoPush(n)
<1> DEFINE used == Used(head_, tail_)
           n == prod.to_copy
<1>1. /\ n \in 1..(capacity_ - 1) /\ used + n <= capacity_ - 1
      /\ prod.at = head_ /\ head_ \in Index /\ tail_ \in Index /\ used \in Nat
  <2>1. /\ head_ \in Index /\ tail_ \in Index /\ used \in Index /\ n \in Nat /\ n > 0
        /\ prod.at = head_ /\ used + n < capacity_
    BY UsedIsDistance DEF IInv, RingInv, ProdInv, PushStore, ThreadType
  <2> HIDE DEF used, n
  <2> QED
    BY <2>1, RingAssumption DEF Index
<1>2. head_' = Cell(head_, n) /\ tail_' = tail_ /\ received' = received /\ written' = written + n
  BY <1>1 DEF PushStore, Cell, consVars
<1>3. used' = used + n
  BY <1>1, <1>2, HeadAdvances, RingAssumption
<1>4. /\ Held = [k \in 1..used |-> received + k]
      /\ Held' = [k \in 1..used' |-> received' + k]
      /\ received \in Nat /\ written = received + used
  BY HeldIs, HeldIsNext DEF HeldInv
<1> HIDE DEF used, n
<1>5. Held' = Held \o [i \in 1..n |-> written + i]
  <2> DEFINE g == [i \in 1..n |-> written + i]
  <2>1. /\ Held \in Seq(Nat) /\ Len(Held) = used
        /\ g \in Seq(Nat) /\ Len(g) = n /\ \A i \in 1..n : g[i] = written + i
        /\ Held' \in Seq(Nat) /\ Len(Held') = used + n
    BY <1>1, <1>2, <1>3, <1>4
  <2> HIDE DEF g
  <2>2. \A k \in 1..(used + n) : Held'[k] = (Held \o g)[k]
    <3>1. \A k \in 1..(used + n) :
             (Held \o g)[k] = IF k <= used THEN Held[k] ELSE g[k - used]
      <4>1. \A k \in 1..(Len(Held) + Len(g)) :
               (Held \o g)[k] = IF k <= Len(Held) THEN Held[k] ELSE g[k - Len(Held)]
        BY <2>1, ConcatProperties
      <4> QED
        BY <2>1, <4>1
    <3> SUFFICES ASSUME NEW k \in 1..(used + n) PROVE Held'[k] = (Held \o g)[k]
      OBVIOUS
    <3>2. Held'[k] = received + k
      BY <1>2, <1>3, <1>4
    <3>3. CASE k <= used
      BY <1>1, <1>4, <3>1, <3>2, <3>3
    <3>4. CASE ~(k <= used)
      <4>1. k - used \in 1..n
        BY <1>1, <3>4
      <4>2. g[k - used] = written + (k - used)
        BY <2>1, <4>1
      <4>3. written + (k - used) = received + k
        BY <1>1, <1>4
      <4> QED
        BY <3>1, <3>2, <3>4, <4>2, <4>3
    <3> QED
      BY <3>3, <3>4
  <2> QED
    <3>1. Held \o g \in Seq(Nat) /\ Len(Held \o g) = used + n
      BY <2>1, ConcatProperties
    <3>2. Held' = Held \o g
      BY <2>1, <2>2, <3>1, SeqEqual
    <3> QED
      BY <3>2 DEF g
<1>6. Len(Held) + n <= capacity_ - 1
  BY <1>1, <1>4
<1> QED
  BY <1>1, <1>2, <1>5, <1>6 DEF Fifo!FifoPush

\* The store of tail_ takes what pop has copied, if there was anything.
LEMMA PopStoreIsPop ==
    ASSUME IInv, IInv', PopStore
    PROVE  \/ \E n \in 1..(capacity_ - 1) : Fifo!FifoPop(n)
           \/ UNCHANGED <<Held, written>>
<1> DEFINE used == Used(head_, tail_)
           n == cons.to_copy
<1>1. /\ n \in Nat /\ n <= used /\ used < capacity_ /\ used \in Nat
      /\ cons.at = tail_ /\ head_ \in Index /\ tail_ \in Index
  <2>1. /\ head_ \in Index /\ tail_ \in Index /\ used \in Index /\ n \in Nat
        /\ cons.at = tail_ /\ n <= used
    BY UsedIsDistance DEF IInv, RingInv, ConsInv, PopStore, ThreadType
  <2> HIDE DEF used, n
  <2> QED
    BY <2>1, RingAssumption DEF Index
<1>2. head_' = head_ /\ tail_' = Cell(tail_, n) /\ received' = received + n /\ written' = written
  BY <1>1 DEF PopStore, Cell, prodVars
<1>3. used' = used - n
  BY <1>1, <1>2, TailAdvances
<1>4. /\ Held = [k \in 1..used |-> received + k]
      /\ Held' = [k \in 1..used' |-> received' + k]
      /\ received \in Nat
  BY HeldIs, HeldIsNext DEF HeldInv
<1> HIDE DEF used, n
<1>5. CASE n = 0
  BY <1>1, <1>2, <1>3, <1>4, <1>5
<1>6. CASE n > 0
  <2>1. /\ Held \in Seq(Nat) /\ Len(Held) = used /\ \A k \in 1..used : Held[k] \in Nat
        /\ Held' \in Seq(Nat) /\ Len(Held') = used - n
    BY <1>1, <1>2, <1>3, <1>4
  <2>2. /\ SubSeq(Held, n + 1, used) \in Seq(Nat)
        /\ Len(SubSeq(Held, n + 1, used)) = used - n
        /\ \A k \in 1..(used - n) : SubSeq(Held, n + 1, used)[k] = Held[n + 1 + k - 1]
    <3>1. \A k \in (n + 1)..used : Held[k] \in Nat
      BY <1>1, <1>6, <2>1
    <3>2. /\ SubSeq(Held, n + 1, used) \in Seq(Nat)
          /\ Len(SubSeq(Held, n + 1, used)) = IF n + 1 <= used THEN used - (n + 1) + 1 ELSE 0
          /\ \A k \in 1..(used - (n + 1) + 1) :
                SubSeq(Held, n + 1, used)[k] = Held[n + 1 + k - 1]
      BY <1>1, <3>1, SubSeqProperties
    <3> QED
      BY <1>1, <3>2
  <2>3. \A k \in 1..(used - n) : Held'[k] = SubSeq(Held, n + 1, used)[k]
    <3> SUFFICES ASSUME NEW k \in 1..(used - n)
                 PROVE  Held'[k] = SubSeq(Held, n + 1, used)[k]
      OBVIOUS
    <3>1. Held'[k] = received + n + k
      BY <1>1, <1>2, <1>3, <1>4
    <3>2. n + 1 + k - 1 \in 1..used /\ n + 1 + k - 1 = n + k
      BY <1>1
    <3>3. Held[n + k] = received + (n + k)
      BY <1>4, <3>2
    <3> QED
      BY <1>1, <1>4, <2>2, <3>1, <3>2, <3>3
  <2>4. Held' = SubSeq(Held, n + 1, used)
    BY <2>1, <2>2, <2>3, SeqEqual
  <2>5. n \in 1..(capacity_ - 1) /\ n <= Len(Held)
    BY <1>1, <1>6, <2>1, RingAssumption
  <2> QED
    BY <1>2, <2>1, <2>4, <2>5 DEF Fifo!FifoPop
<1> QED
  BY <1>1, <1>5, <1>6

\* The ring buffer implements the bounded queue: push takes effect when it
\* stores head_, pop when it stores tail_, and no other step is visible.
THEOREM ImplementsFifo == Spec => IsFifo
<1>1. Init => Fifo!FifoInit
  <2> SUFFICES ASSUME Init PROVE Held = <<>> /\ written = 0
    BY DEF Fifo!FifoInit
  <2>1. Used(head_, tail_) = 0 /\ written = 0
    BY UsedIsDistance, RingAssumption DEF Init, Index
  <2> QED
    BY <2>1 DEF Held
<1>2. IInv /\ IInv' /\ [Next]_vars => [Fifo!FifoNext]_<<Held, written>>
  <2> SUFFICES ASSUME IInv, IInv', [Next]_vars
               PROVE  Fifo!FifoNext \/ UNCHANGED <<Held, written>>
    OBVIOUS
  <2>1. CASE PushStore
    BY <2>1, PushStoreIsPush DEF Fifo!FifoNext
  <2>2. CASE PopStore
    BY <2>2, PopStoreIsPop DEF Fifo!FifoNext
  <2>3. CASE UNCHANGED <<head_, tail_, received, written>>
    <3>1. /\ Held = [k \in 1..Used(head_, tail_) |-> received + k]
          /\ Held' = [k \in 1..Used(head_, tail_)' |-> received' + k]
      BY HeldIs, HeldIsNext DEF HeldInv
    <3>2. Used(head_, tail_)' = Used(head_, tail_)
      BY <2>3 DEF Used
    <3> QED
      BY <2>3, <3>1, <3>2
  <2> QED
    BY <2>1, <2>2, <2>3 DEF Next, PushLoad, PushCopy, PopLoad, PopCopy, vars,
       prodVars, consVars
<1>3. Spec => []IInv
  BY Inductive
<1> QED
  BY <1>1, <1>2, <1>3, PTL DEF Spec, IsFifo, Fifo!FifoSpec

=============================================================================
