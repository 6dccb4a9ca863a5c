---------------------------- MODULE ArrayQueue ----------------------------
(***************************************************************************)
(* utils::atomic::ArrayQueue as SCANCODE_QUEUE uses it: one producer, the  *)
(* keyboard ISR, and one consumer, the terminal task in retrieve_scancode. *)
(*                                                                         *)
(* The ISR cannot be interrupted, so a push is one atomic step. The       *)
(* consumer's pop is split at every shared load and store, because the    *)
(* first pop of retrieve_scancode runs with IF set and the ISR may run   *)
(* between any two of them. The second pop, inside yield_on_condition,    *)
(* runs under CLI and is one atomic step. InterruptiblePop says whether  *)
(* the consumer may use the first kind.                                   *)
(*                                                                         *)
(* Slot contents are the pushed values or None; head and tail are indices *)
(* 0..Size-1 that wrap modulo Size. compare_exchange_weak may fail        *)
(* spuriously; the consumer's CAS may therefore fail and retry.           *)
(***************************************************************************)
EXTENDS Naturals, Sequences, SequencesExt

CONSTANTS
    Size,             \* the capacity passed to ArrayQueue::new
    MaxPush,          \* key presses the environment makes
    InterruptiblePop, \* TRUE: the consumer also pops with IF set
    None              \* Option::None in a slot

ASSUME Size \in Nat \ {0} /\ MaxPush \in Nat /\ InterruptiblePop \in BOOLEAN
ASSUME None \notin Nat

VARIABLES
    head, tail,  \* ArrayQueue.head / ArrayQueue.tail
    slot,        \* the buffer: [0..Size-1 -> values \cup {None}]
    cpc,         \* where the consumer is in pop()
    oldHead,     \* pop(): old_head
    eTail,       \* is_empty(): the tail it loaded
    cval,        \* pop(): the value read from the slot
    nv,          \* key presses so far; the value pushed by press k is k
    pushed,      \* values push() accepted, in order (history)
    popped       \* values pop() returned, in order (history)

vars == <<head, tail, slot, cpc, oldHead, eTail, cval, nv, pushed, popped>>

Idx == 0..Size-1
(* Mutant: the index advance without the wrap-around.                    *)
SuccNoWrap(i) == i + 1
Succ(i) == (i + 1) % Size

Init ==
    /\ head = 0 /\ tail = 0
    /\ slot = [i \in Idx |-> None]
    /\ cpc = "idle" /\ oldHead = 0 /\ eTail = 0 /\ cval = None
    /\ nv = 0 /\ pushed = <<>> /\ popped = <<>>

IsFull == head = tail /\ slot[head] # None
IsEmpty == head = tail /\ slot[head] = None

-----------------------------------------------------------------------------
(* Mutant: push() without the is_full() check.                           *)
PushNoFullCheck ==
    /\ nv < MaxPush
    /\ nv' = nv + 1
    /\ tail' = Succ(tail)
    /\ slot' = [slot EXCEPT ![tail] = nv + 1]
    /\ pushed' = Append(pushed, nv + 1)
    /\ UNCHANGED <<head, cpc, oldHead, eTail, cval, popped>>

(* keyboard_handler: SCANCODE_QUEUE.push(scancode). On Err the key is    *)
(* dropped. With no other producer the CAS on tail succeeds (a spurious  *)
(* failure re-checks is_full against the same state and retries).        *)
Push ==
    /\ nv < MaxPush
    /\ nv' = nv + 1
    /\ IF IsFull
         THEN UNCHANGED <<tail, slot, pushed>>
         ELSE /\ tail' = Succ(tail)
              /\ slot' = [slot EXCEPT ![tail] = nv + 1]
              /\ pushed' = Append(pushed, nv + 1)
    /\ UNCHANGED <<head, cpc, oldHead, eTail, cval, popped>>

(* Mutant: pop() that advances head but leaves the value in the slot.   *)
PopAtomicNoClear ==
    /\ cpc = "idle"
    /\ IF IsEmpty
         THEN UNCHANGED <<head, slot, popped>>
         ELSE /\ head' = Succ(head)
              /\ popped' = IF slot[head] # None THEN Append(popped, slot[head])
                                                ELSE popped
              /\ UNCHANGED slot
    /\ UNCHANGED <<tail, cpc, oldHead, eTail, cval, nv, pushed>>

(* pop() under CLI, the one in yield_on_condition: atomic.                *)
PopAtomic ==
    /\ cpc = "idle"
    /\ IF IsEmpty
         THEN UNCHANGED <<head, slot, popped>>
         ELSE /\ head' = Succ(head)
              /\ slot' = [slot EXCEPT ![head] = None]
              /\ popped' = IF slot[head] # None THEN Append(popped, slot[head])
                                                ELSE popped
    /\ UNCHANGED <<tail, cpc, oldHead, eTail, cval, nv, pushed>>

(* pop() with IF set, step by step. First: old_head = head.load(); then  *)
(* is_empty() loads head (only the consumer writes it) and tail.          *)
PopBegin ==
    /\ InterruptiblePop /\ cpc = "idle"
    /\ oldHead' = head /\ eTail' = tail
    /\ cpc' = "empty_slot"
    /\ UNCHANGED <<head, tail, slot, cval, nv, pushed, popped>>

(* is_empty(): read(head) and decide; empty returns None.                *)
PopCheckEmpty ==
    /\ cpc = "empty_slot"
    /\ cpc' = IF head = eTail /\ slot[head] = None THEN "idle" ELSE "cas"
    /\ UNCHANGED <<head, tail, slot, oldHead, eTail, cval, nv, pushed, popped>>

(* head.compare_exchange_weak(old_head, old_head+1 % size): succeeds, or *)
(* fails spuriously and goes back through is_empty().                     *)
PopCas ==
    /\ cpc = "cas"
    /\ \/ /\ head = oldHead
          /\ head' = Succ(oldHead)
          /\ cpc' = "read"
          /\ UNCHANGED <<oldHead, eTail>>
       \/ /\ oldHead' = head /\ eTail' = tail
          /\ cpc' = "empty_slot"
          /\ UNCHANGED head
    /\ UNCHANGED <<tail, slot, cval, nv, pushed, popped>>

(* self.read(old_head).take() *)
PopRead ==
    /\ cpc = "read"
    /\ cval' = slot[oldHead]
    /\ cpc' = "write"
    /\ UNCHANGED <<head, tail, slot, oldHead, eTail, nv, pushed, popped>>

(* Mutant: the final write(old_head, None) left out.                     *)
PopWriteNoClear ==
    /\ cpc = "write"
    /\ popped' = IF cval # None THEN Append(popped, cval) ELSE popped
    /\ cpc' = "idle" /\ cval' = None
    /\ UNCHANGED <<head, tail, slot, oldHead, eTail, nv, pushed>>

(* self.write(old_head, None); return the value read.                    *)
PopWrite ==
    /\ cpc = "write"
    /\ slot' = [slot EXCEPT ![oldHead] = None]
    /\ popped' = IF cval # None THEN Append(popped, cval) ELSE popped
    /\ cpc' = "idle" /\ cval' = None
    /\ UNCHANGED <<head, tail, oldHead, eTail, nv, pushed>>

Next ==
    \/ Push
    \/ PopAtomic
    \/ PopBegin \/ PopCheckEmpty \/ PopCas \/ PopRead \/ PopWrite

Spec == Init /\ [][Next]_vars

-----------------------------------------------------------------------------
TypeOK ==
    /\ head \in Idx /\ tail \in Idx /\ oldHead \in Idx /\ eTail \in Idx
    /\ slot \in [Idx -> 1..MaxPush \cup {None}]
    /\ cpc \in {"idle", "empty_slot", "cas", "read", "write"}
    /\ cval \in 1..MaxPush \cup {None}
    /\ nv \in 0..MaxPush
    /\ pushed \in Seq(1..MaxPush) /\ popped \in Seq(1..MaxPush)

(* The FIFO promise of the queue (spec section 8, property 6): pop()      *)
(* returns the accepted values in push order, none lost, none twice, so  *)
(* what has been popped is always a prefix of what has been pushed.       *)
FifoPops == IsPrefix(popped, pushed)

(* Values accepted and not yet returned. A pop between its CAS and its   *)
(* return already owns its value.                                         *)
Pending == Len(pushed) - Len(popped) - (IF cpc \in {"read", "write"} THEN 1 ELSE 0)

NoLostValue ==
    cpc = "idle" =>
        Len(pushed) = Len(popped) + Cardinality({i \in Idx : slot[i] # None})

(* pop() never invents a value and never returns one twice: everything  *)
(* returned was accepted by push(), and no value is returned again.      *)
PopsDistinct ==
    /\ \A i \in 1..Len(popped) : \E j \in 1..Len(pushed) : pushed[j] = popped[i]
    /\ \A i, j \in 1..Len(popped) : i # j => popped[i] # popped[j]
=============================================================================
