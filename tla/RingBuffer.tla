----------------------------- MODULE RingBuffer -----------------------------
(***************************************************************************)
(* voip::RingBuffer (src/tg2sip/voip/ring_buffer.h): the lock-free buffer  *)
(* between the audio threads of ntgcalls and of PJSIP.  push runs on the   *)
(* producer thread, pop on the consumer thread; each sample is copied by a *)
(* step of its own.  head_ and tail_ are atomics, stored with release and  *)
(* loaded with acquire by the other thread, so the copies before a store   *)
(* are visible to whoever loads what it stored.                            *)
(***************************************************************************)
EXTENDS Integers, Sequences

CONSTANTS
    capacity_,     \* size of the vector, one more than the samples it holds
    PushSizes,     \* the sizes push is called with
    PopSizes,      \* the sizes pop is called with
    MaxWritten     \* bound: samples accepted in all

ASSUME RingAssumption ==
    /\ capacity_ \in Nat \ {0} /\ MaxWritten \in Nat
    /\ PushSizes \subseteq Nat /\ PopSizes \subseteq Nat

VARIABLES
    head_, tail_,  \* next index to write, next index to read
    buffer_,       \* the samples; sample k is the k-th that push accepted
    prod,          \* the push in progress: its head, samples and i
    cons,          \* the pop in progress: its tail, samples, to_copy and i
    data,          \* what the pop in progress has stored for its caller
    written,       \* samples published by finished pushes
    received       \* samples handed out by finished pops

vars == <<head_, tail_, buffer_, prod, cons, data, written, received>>
prodVars == <<head_, buffer_, prod, written>>
consVars == <<tail_, cons, data, received>>

Idle == [busy |-> FALSE, at |-> 0, samples |-> 0, to_copy |-> 0, i |-> 0]
Index == 0..(capacity_ - 1)
Silence == 0

TypeOK ==
    /\ {head_, tail_} \subseteq Index
    /\ buffer_ \in [Index -> 0..MaxWritten]
    /\ \A th \in {prod, cons} :
          /\ th.busy \in BOOLEAN /\ th.at \in Index
          /\ {th.samples, th.to_copy, th.i} \subseteq Nat
    /\ data \in Seq(0..MaxWritten)
    /\ written \in 0..MaxWritten /\ received \in 0..MaxWritten

Init ==
    /\ head_ = 0 /\ tail_ = 0
    /\ buffer_ = [k \in Index |-> Silence]
    /\ prod = Idle /\ cons = Idle /\ data = <<>>
    /\ written = 0 /\ received = 0

\* Samples between tail and head: head - tail wraps in size_t when head is
\* behind, and adding capacity_ brings it back.
Used(head, tail) == (head - tail + capacity_) % capacity_

\* MUTANT: a full buffer uses every cell.
Available_All(head, tail) == capacity_ - Used(head, tail)
\* What push may still write: one cell stays free, or full would be empty.
Available(head, tail) == capacity_ - 1 - Used(head, tail)

Least(a, b) == IF a < b THEN a ELSE b

-----------------------------------------------------------------------------
(* push(data, samples) *)

PushLoad(samples) ==
    LET n == Least(samples, Available(head_, tail_)) IN
    /\ ~prod.busy /\ n > 0 /\ written + n <= MaxWritten
    /\ prod' = [Idle EXCEPT !.busy = TRUE, !.at = head_, !.samples = n, !.to_copy = n]
    /\ UNCHANGED <<head_, buffer_, written, consVars>>

PushCopy ==
    /\ prod.busy /\ prod.i < prod.to_copy
    /\ buffer_' = [buffer_ EXCEPT ![(prod.at + prod.i) % capacity_] =
                      written + prod.i + 1]
    /\ prod' = [prod EXCEPT !.i = @ + 1]
    /\ UNCHANGED <<head_, written, consVars>>

\* MUTANT: head_ is not wrapped around.
PushStore_NoWrap ==
    /\ prod.busy /\ prod.i = prod.to_copy
    /\ head_' = prod.at + prod.to_copy
    /\ written' = written + prod.to_copy
    /\ prod' = Idle
    /\ UNCHANGED <<buffer_, consVars>>

PushStore ==
    /\ prod.busy /\ prod.i = prod.to_copy
    /\ head_' = (prod.at + prod.to_copy) % capacity_
    /\ written' = written + prod.to_copy
    /\ prod' = Idle
    /\ UNCHANGED <<buffer_, consVars>>

-----------------------------------------------------------------------------
(* pop(data, samples) *)

\* MUTANT: tail_ is stored before the samples are copied.
PopLoad_StoreFirst(samples) ==
    LET n == Least(samples, Used(head_, tail_)) IN
    /\ ~cons.busy
    /\ cons' = [busy |-> TRUE, at |-> tail_, samples |-> samples, to_copy |-> n, i |-> 0]
    /\ tail_' = (tail_ + n) % capacity_
    /\ data' = <<>>
    /\ UNCHANGED <<received, prodVars>>

PopLoad(samples) ==
    /\ ~cons.busy
    /\ cons' = [busy |-> TRUE, at |-> tail_, samples |-> samples,
                to_copy |-> Least(samples, Used(head_, tail_)), i |-> 0]
    /\ data' = <<>>
    /\ UNCHANGED <<tail_, received, prodVars>>

\* The samples, then silence for those that are missing.
PopCopy ==
    /\ cons.busy /\ cons.i < cons.samples
    /\ data' = Append(data, IF cons.i < cons.to_copy
                            THEN buffer_[(cons.at + cons.i) % capacity_]
                            ELSE Silence)
    /\ cons' = [cons EXCEPT !.i = @ + 1]
    /\ UNCHANGED <<tail_, received, prodVars>>

\* MUTANT: the silence is counted as read.
PopStore_Silence ==
    /\ cons.busy /\ cons.i = cons.samples
    /\ tail_' = (cons.at + cons.samples) % capacity_
    /\ received' = received + cons.to_copy
    /\ cons' = Idle /\ data' = <<>>
    /\ UNCHANGED prodVars

PopStore ==
    /\ cons.busy /\ cons.i = cons.samples
    /\ tail_' = (cons.at + cons.to_copy) % capacity_
    /\ received' = received + cons.to_copy
    /\ cons' = Idle /\ data' = <<>>
    /\ UNCHANGED prodVars

Next ==
    \/ \E n \in PushSizes : PushLoad(n)
    \/ PushCopy \/ PushStore
    \/ \E n \in PopSizes : PopLoad(n)
    \/ PopCopy \/ PopStore

Spec == Init /\ [][Next]_vars

-----------------------------------------------------------------------------
(* Properties. *)

\* The two threads never touch the same cell at the same time: buffer_ is not
\* atomic, so that would be a data race whatever the values are.
NoDataRace ==
    prod.busy /\ prod.i < prod.to_copy /\ cons.busy /\ cons.i < cons.to_copy
       => (prod.at + prod.i) % capacity_ # (cons.at + cons.i) % capacity_

\* A pop gets the samples that follow those of the pop before it, none lost,
\* repeated, stale or out of order, and then nothing but silence.
InOrder ==
    \A k \in 1..Len(data) :
       data[k] = (IF k <= cons.to_copy THEN received + k ELSE Silence)

\* The ring implements the abstract queue: push takes effect with its store of
\* head_, pop with its store of tail_, and at most capacity_ - 1 samples are
\* ever held.
Held == [k \in 1..Used(head_, tail_) |-> buffer_[(tail_ + k - 1) % capacity_]]
Fifo == INSTANCE PcmFifo WITH Room <- capacity_ - 1, queue <- Held
IsFifo == Fifo!FifoSpec
=============================================================================
