---------------------------- MODULE WQueueProofs ----------------------------
(***************************************************************************)
(* What WQueue.tla states of the worker queue, proved for any number of    *)
(* threads and items and any limit.                                        *)
(***************************************************************************)
EXTENDS WQueue, FiniteSetTheorems, SequenceTheorems, TLAPS

\* The program counters at which a thread holds the mutex.
Holding == {"size_test", "notify", "front", "undefined"}

\* The mutex is held by exactly the thread whose pc says so, so at most one
\* thread is between locking and unlocking.
MutexInv == \A t \in Threads : pc[t] \in Holding <=> m_mutex = t

\* Only threads inside wait() are on the condition variable.
WaitersInv == \A c \in m_condv : pc[c] = "wait"

\* The inductive invariant of the queue with any number of consumers.
IInv == TypeOK /\ MutexInv /\ WaitersInv

LEMMA InitIInv == Init => IInv
<1> SUFFICES ASSUME Init PROVE IInv
  OBVIOUS
<1>1. TypeOK
  <2>1. uncalled \in BOOLEAN
    BY DEF Init
  <2> QED
    BY <2>1, MaxEntriesAssumption DEF Init, TypeOK, Threads, ProducerPC, ConsumerPC
<1>2. MutexInv
  BY ThreadsAssumption DEF Init, MutexInv, Holding, Threads
<1>3. WaitersInv
  BY DEF Init, WaitersInv
<1> QED
  BY <1>1, <1>2, <1>3 DEF IInv

\* Every action keeps the inductive invariant.
LEMMA StepIInv == IInv /\ [Next]_vars => IInv'
<1> SUFFICES ASSUME IInv, [Next]_vars PROVE IInv'
  OBVIOUS
<1> USE DEF IInv, TypeOK, MutexInv, WaitersInv, Holding, Threads,
            ProducerPC, ConsumerPC, Goto, Lock, Unlock
<1> USE ThreadsAssumption, MaxEntriesAssumption
<1>1. ASSUME NEW p \in Producers, NEW x \in Items, AddCall(p, x) PROVE IInv'
  BY <1>1 DEF AddCall
<1>2. ASSUME NEW p \in Producers, AddLock(p) PROVE IInv'
  BY <1>2 DEF AddLock
<1>3. ASSUME NEW p \in Producers, AddDrop(p) PROVE IInv'
  BY <1>3 DEF AddDrop
<1>4. ASSUME NEW p \in Producers, AddPush(p) PROVE IInv'
  BY <1>4 DEF AddPush, Full
<1>5. ASSUME NEW p \in Producers, AddNotify(p) PROVE IInv'
  BY <1>5 DEF AddNotify
<1>6. ASSUME NEW c \in Consumers, RemoveCall(c) PROVE IInv'
  BY <1>6 DEF RemoveCall
<1>7. ASSUME NEW c \in Consumers, RemoveLock(c) PROVE IInv'
  BY <1>7 DEF RemoveLock
<1>8. ASSUME NEW c \in Consumers, RemoveWait(c) PROVE IInv'
  BY <1>8 DEF RemoveWait
<1>9. ASSUME NEW c \in Consumers, RemoveNoWait(c) PROVE IInv'
  BY <1>9 DEF RemoveNoWait
<1>10. ASSUME NEW c \in Consumers, WakeSpuriously(c) PROVE IInv'
  BY <1>10 DEF WakeSpuriously
<1>11. ASSUME NEW c \in Consumers, RemoveRelock(c) PROVE IInv'
  BY <1>11 DEF RemoveRelock
<1>12. ASSUME NEW c \in Consumers, RemoveTake(c) PROVE IInv'
  <2>1. Head(m_queue) \in Items /\ Tail(m_queue) \in Seq(Items)
        /\ Len(Tail(m_queue)) <= MaxEntries
    BY <1>12 DEF RemoveTake
  <2>2. TypeOK'
    BY <1>12, <2>1 DEF RemoveTake
  <2> QED
    BY <1>12, <2>2 DEF RemoveTake
<1>13. ASSUME NEW c \in Consumers, RemoveFromEmpty(c) PROVE IInv'
  BY <1>13 DEF RemoveFromEmpty
<1>14. CASE UNCHANGED vars
  BY <1>14 DEF vars
<1> QED
  BY <1>1, <1>2, <1>3, <1>4, <1>5, <1>6, <1>7, <1>8, <1>9, <1>10, <1>11,
     <1>12, <1>13, <1>14 DEF Next, AddStep, RemoveStep

THEOREM Invariance == Spec => []IInv
<1>1. Init => IInv
  BY InitIInv
<1>2. IInv /\ [Next]_vars => IInv'
  BY StepIInv
<1> QED
  BY <1>1, <1>2, PTL DEF Spec

\* The type invariant, and the list within its limit.
THEOREM TypeCorrect == Spec => []TypeOK
<1>1. IInv => TypeOK
  BY DEF IInv
<1> QED
  BY <1>1, Invariance, PTL
-----------------------------------------------------------------------------
(***************************************************************************)
(* No wakeup is lost.  Pushing an item makes the pusher a notifier, the    *)
(* notification turns the notifier into a woken consumer, and each woken   *)
(* consumer takes one item: the sum on the right of NoLostWakeup follows   *)
(* the length of the list.                                                 *)
(***************************************************************************)

LEMMA StepNoLostWakeup ==
  ASSUME IsFiniteSet(Producers), IsFiniteSet(Consumers),
         IInv, NoLostWakeup, [Next]_vars
  PROVE  NoLostWakeup'
<1> USE ThreadsAssumption DEF Threads
<1>1. /\ IsFiniteSet(Woken) /\ IsFiniteSet(Woken')
      /\ IsFiniteSet(Notifying) /\ IsFiniteSet(Notifying')
  <2>1. /\ Woken \subseteq Consumers /\ Woken' \subseteq Consumers
        /\ Notifying \subseteq Producers /\ Notifying' \subseteq Producers
    BY DEF Woken, Notifying
  <2> QED
    BY <2>1, FS_Subset
<1>2. /\ Cardinality(Woken) \in Nat /\ Cardinality(Woken') \in Nat
      /\ Cardinality(Notifying) \in Nat /\ Cardinality(Notifying') \in Nat
      /\ Len(m_queue) \in Nat
  BY <1>1, FS_CardinalityType, LenProperties DEF IInv, TypeOK
<1>3. ASSUME UNCHANGED <<Woken, Notifying, m_condv>>, Len(m_queue') = Len(m_queue)
      PROVE  NoLostWakeup'
  BY <1>3 DEF NoLostWakeup
<1>4. ASSUME NEW c \in Consumers, c \notin Woken, Woken' = Woken \cup {c}
      PROVE  Cardinality(Woken') = Cardinality(Woken) + 1
  BY <1>1, <1>4, FS_AddElement
<1> USE DEF IInv, TypeOK, WaitersInv, Goto, ProducerPC, ConsumerPC
<1>5. ASSUME NEW p \in Producers, NEW x \in Items, AddCall(p, x)
      PROVE  NoLostWakeup'
  <2> UNCHANGED <<Woken, Notifying, m_condv, m_queue>>
    BY <1>5 DEF AddCall, Woken, Notifying
  <2> QED
    BY <1>3
<1>6. ASSUME NEW p \in Producers, AddLock(p) PROVE NoLostWakeup'
  <2> UNCHANGED <<Woken, Notifying, m_condv, m_queue>>
    BY <1>6 DEF AddLock, Woken, Notifying
  <2> QED
    BY <1>3
<1>7. ASSUME NEW p \in Producers, AddDrop(p) PROVE NoLostWakeup'
  <2> UNCHANGED <<Woken, Notifying, m_condv, m_queue>>
    BY <1>7 DEF AddDrop, Woken, Notifying
  <2> QED
    BY <1>3
<1>8. ASSUME NEW p \in Producers, AddPush(p) PROVE NoLostWakeup'
  <2>1. /\ p \notin Notifying /\ Notifying' = Notifying \cup {p}
        /\ UNCHANGED <<Woken, m_condv>>
    BY <1>8 DEF AddPush, Woken, Notifying
  <2>2. Cardinality(Notifying') = Cardinality(Notifying) + 1
    BY <2>1, <1>1, FS_AddElement
  <2>3. Len(m_queue') = Len(m_queue) + 1
    BY <1>8 DEF AddPush
  <2>4. Cardinality(Woken') = Cardinality(Woken)
    BY <2>1
  <2> QED
    BY <2>1, <2>2, <2>3, <2>4, <1>2 DEF NoLostWakeup
<1>9. ASSUME NEW p \in Producers, AddNotify(p) PROVE NoLostWakeup'
  <2>1. CASE m_condv = {}
    BY <2>1, <1>9 DEF AddNotify, NoLostWakeup
  <2>2. CASE m_condv # {}
    <3>1. PICK c \in m_condv : m_condv' = m_condv \ {c}
      BY <2>2, <1>9 DEF AddNotify
    <3>2. c \in Consumers /\ c \notin Woken /\ Woken' = Woken \cup {c}
      BY <3>1, <1>9 DEF AddNotify, Woken, Notifying
    <3>3. p \in Notifying /\ Notifying' = Notifying \ {p}
      BY <1>9 DEF AddNotify, Woken, Notifying
    <3>4. Cardinality(Notifying') = Cardinality(Notifying) - 1
      BY <3>3, <1>1, FS_RemoveElement
    <3>5. Cardinality(Woken') = Cardinality(Woken) + 1
      BY <3>2, <1>4
    <3>6. UNCHANGED m_queue
      BY <1>9 DEF AddNotify
    <3> QED
      BY <2>2, <3>4, <3>5, <3>6, <1>2 DEF NoLostWakeup
  <2> QED
    BY <2>1, <2>2
<1>10. ASSUME NEW c \in Consumers, RemoveCall(c) PROVE NoLostWakeup'
  <2> UNCHANGED <<Woken, Notifying, m_condv, m_queue>>
    BY <1>10 DEF RemoveCall, Woken, Notifying
  <2> QED
    BY <1>3
<1>11. ASSUME NEW c \in Consumers, RemoveLock(c) PROVE NoLostWakeup'
  <2> UNCHANGED <<Woken, Notifying, m_condv, m_queue>>
    BY <1>11 DEF RemoveLock, Woken, Notifying
  <2> QED
    BY <1>3
<1>12. ASSUME NEW c \in Consumers, RemoveWait(c) PROVE NoLostWakeup'
  <2> Len(m_queue') = 0
    BY <1>12 DEF RemoveWait
  <2> QED
    BY <1>2 DEF NoLostWakeup
<1>13. ASSUME NEW c \in Consumers, RemoveNoWait(c) PROVE NoLostWakeup'
  <2>1. /\ c \notin Woken /\ Woken' = Woken \cup {c}
        /\ UNCHANGED <<Notifying, m_condv, m_queue>>
    BY <1>13 DEF RemoveNoWait, Woken, Notifying
  <2>2. Cardinality(Notifying') = Cardinality(Notifying)
    BY <2>1
  <2>3. Cardinality(Woken') = Cardinality(Woken) + 1
    BY <2>1, <1>4
  <2> QED
    BY <2>1, <2>2, <2>3, <1>2 DEF NoLostWakeup
<1>14. ASSUME NEW c \in Consumers, WakeSpuriously(c) PROVE NoLostWakeup'
  <2>1. c \notin Woken /\ Woken' = Woken \cup {c} /\ UNCHANGED <<Notifying, m_queue>>
    BY <1>14 DEF WakeSpuriously, Woken, Notifying
  <2>2. Cardinality(Notifying') = Cardinality(Notifying) /\ m_condv # {}
    BY <2>1, <1>14 DEF WakeSpuriously
  <2>3. Cardinality(Woken') = Cardinality(Woken) + 1
    BY <2>1, <1>4
  <2> QED
    BY <2>1, <2>2, <2>3, <1>2 DEF NoLostWakeup
<1>15. ASSUME NEW c \in Consumers, RemoveRelock(c) PROVE NoLostWakeup'
  <2> UNCHANGED <<Woken, Notifying, m_condv, m_queue>>
    BY <1>15 DEF RemoveRelock, Woken, Notifying
  <2> QED
    BY <1>3
<1>16. ASSUME NEW c \in Consumers, RemoveTake(c) PROVE NoLostWakeup'
  <2>1. /\ c \in Woken /\ Woken' = Woken \ {c}
        /\ UNCHANGED <<Notifying, m_condv>>
    BY <1>16 DEF RemoveTake, Woken, Notifying
  <2>2. Cardinality(Woken') = Cardinality(Woken) - 1
    BY <2>1, <1>1, FS_RemoveElement
  <2>3. Len(m_queue') = Len(m_queue) - 1
    BY <1>16 DEF RemoveTake
  <2>4. Cardinality(Notifying') = Cardinality(Notifying)
    BY <2>1
  <2> QED
    BY <2>1, <2>2, <2>3, <2>4, <1>2 DEF NoLostWakeup
<1>17. ASSUME NEW c \in Consumers, RemoveFromEmpty(c) PROVE NoLostWakeup'
  <2> Len(m_queue') = 0
    BY <1>17 DEF RemoveFromEmpty
  <2> QED
    BY <1>2 DEF NoLostWakeup
<1>18. CASE UNCHANGED vars
  <2> UNCHANGED <<Woken, Notifying, m_condv, m_queue>>
    BY <1>18 DEF vars, Woken, Notifying
  <2> QED
    BY <1>3
<1> QED
  BY <1>5, <1>6, <1>7, <1>8, <1>9, <1>10, <1>11, <1>12, <1>13, <1>14, <1>15,
     <1>16, <1>17, <1>18 DEF Next, AddStep, RemoveStep

\* However many consumers wait on one queue, spurious wakeups included, no
\* notification is lost: a sleeping consumer means that every queued item
\* already has a woken consumer or a producer about to wake one.
THEOREM NoWakeupIsLost ==
  ASSUME IsFiniteSet(Producers), IsFiniteSet(Consumers)
  PROVE  Spec => []NoLostWakeup
<1>1. Init => NoLostWakeup
  BY DEF Init, NoLostWakeup
<1>2. IInv /\ NoLostWakeup /\ [Next]_vars => NoLostWakeup'
  BY StepNoLostWakeup
<1> QED
  BY <1>1, <1>2, Invariance, PTL DEF Spec
-----------------------------------------------------------------------------
(***************************************************************************)
(* No consumer reads the front of an empty list.  As long as consumers go  *)
(* for the front only when notified, or when nobody else is on the way     *)
(* there, there is an item for each of them, and one more for each         *)
(* notification to come: the mutex is held from the push to the notify.    *)
(***************************************************************************)

EnoughInv ==
    \/ uncalled
    \/ /\ Cardinality(Woken) <= Len(m_queue)
       /\ Notifying # {} => Cardinality(Woken) < Len(m_queue)
       /\ \A c \in Consumers : pc[c] # "undefined"

LEMMA StepEnoughInv ==
  ASSUME IsFiniteSet(Consumers), IInv, EnoughInv, [Next]_vars
  PROVE  EnoughInv'
<1> USE ThreadsAssumption DEF Threads
<1> SUFFICES ASSUME ~ uncalled, ~ uncalled' PROVE EnoughInv'
  <2>1. uncalled => uncalled'
    BY DEF Next, AddStep, RemoveStep, AddCall, AddLock, AddDrop, AddPush, AddNotify,
           RemoveCall, RemoveLock, RemoveWait, RemoveNoWait, WakeSpuriously, RemoveRelock,
           RemoveTake, RemoveFromEmpty, vars
  <2> QED
    BY <2>1 DEF EnoughInv
<1>1. /\ Cardinality(Woken) <= Len(m_queue)
      /\ Notifying # {} => Cardinality(Woken) < Len(m_queue)
      /\ \A c \in Consumers : pc[c] # "undefined"
  BY DEF EnoughInv
<1>2. IsFiniteSet(Woken) /\ IsFiniteSet(Woken')
  <2>1. Woken \subseteq Consumers /\ Woken' \subseteq Consumers
    BY DEF Woken
  <2> QED
    BY <2>1, FS_Subset
<1>3. /\ Cardinality(Woken) \in Nat /\ Cardinality(Woken') \in Nat /\ Len(m_queue) \in Nat
  BY <1>2, FS_CardinalityType, LenProperties DEF IInv, TypeOK
<1>4. ASSUME NEW c \in Consumers, c \notin Woken, Woken' = Woken \cup {c}
      PROVE  Cardinality(Woken') = Cardinality(Woken) + 1
  BY <1>2, <1>4, FS_AddElement
<1>5. ASSUME UNCHANGED <<Woken, m_queue>>, Notifying' \subseteq Notifying,
             \A c \in Consumers : pc'[c] # "undefined"
      PROVE  EnoughInv'
  BY <1>1, <1>5 DEF EnoughInv
<1> USE DEF IInv, TypeOK, WaitersInv, Goto, ProducerPC, ConsumerPC
<1>6. ASSUME NEW p \in Producers,
             (\E x \in Items : AddCall(p, x)) \/ AddLock(p) \/ AddDrop(p)
      PROVE  EnoughInv'
  <2>1. /\ UNCHANGED <<Woken, m_queue>> /\ Notifying' \subseteq Notifying
        /\ \A c \in Consumers : pc'[c] = pc[c]
    BY <1>6 DEF AddCall, AddLock, AddDrop, Woken, Notifying
  <2> QED
    BY <2>1, <1>1, <1>5
<1>7. ASSUME NEW p \in Producers, AddPush(p) PROVE EnoughInv'
  <2>1. UNCHANGED Woken /\ \A c \in Consumers : pc'[c] = pc[c]
    BY <1>7 DEF AddPush, Woken
  <2>2. Len(m_queue') = Len(m_queue) + 1
    BY <1>7 DEF AddPush
  <2>3. Cardinality(Woken') = Cardinality(Woken)
    BY <2>1
  <2> QED
    BY <1>1, <1>3, <2>1, <2>2, <2>3 DEF EnoughInv
<1>8. ASSUME NEW p \in Producers, AddNotify(p) PROVE EnoughInv'
  <2>1. /\ Notifying # {} /\ UNCHANGED m_queue
        /\ \A c \in Consumers : pc'[c] = pc[c]
    BY <1>8 DEF AddNotify, Notifying
  <2>2. \A q \in Producers : pc'[q] = "notify" => q # p /\ pc[q] = "notify"
    BY <1>8 DEF AddNotify
  <2>3. Notifying' = {}
    <3>1. \A q \in Producers : pc[q] = "notify" => q = p
      BY <1>8 DEF AddNotify, MutexInv, Holding
    <3> QED
      BY <2>2, <3>1 DEF Notifying
  <2>4. Cardinality(Woken') <= Cardinality(Woken) + 1
    <3>1. CASE m_condv = {}
      <4>1. UNCHANGED Woken
        BY <3>1, <2>1, <1>8 DEF AddNotify, Woken
      <4> QED
        BY <4>1, <1>3
    <3>2. CASE m_condv # {}
      <4>1. PICK c \in m_condv : m_condv' = m_condv \ {c}
        BY <3>2, <1>8 DEF AddNotify
      <4>2. c \in Consumers /\ c \notin Woken /\ Woken' = Woken \cup {c}
        BY <4>1, <2>1 DEF Woken
      <4> QED
        <5>1. Cardinality(Woken') = Cardinality(Woken) + 1
          BY <4>2, <1>4
        <5> QED
          BY <5>1, <1>3
    <3> QED
      BY <3>1, <3>2
  <2>5. Cardinality(Woken) < Len(m_queue)
    BY <1>1, <2>1
  <2> QED
    BY <1>1, <1>3, <2>1, <2>3, <2>4, <2>5 DEF EnoughInv
<1>9. ASSUME NEW c \in Consumers,
             RemoveCall(c) \/ RemoveLock(c) \/ RemoveWait(c) \/ RemoveRelock(c)
      PROVE  EnoughInv'
  <2>1. UNCHANGED <<Woken, m_queue, Notifying>>
    BY <1>9 DEF RemoveCall, RemoveLock, RemoveWait, RemoveRelock, Woken, Notifying
  <2>2. \A d \in Consumers : pc'[d] # "undefined"
    BY <1>1, <1>9 DEF RemoveCall, RemoveLock, RemoveWait, RemoveRelock
  <2> QED
    BY <2>1, <2>2, <1>5
<1>10. ASSUME NEW c \in Consumers, RemoveNoWait(c) PROVE EnoughInv'
  <2>1. Woken = {} /\ Woken' = {c} /\ m_queue # <<>> /\ UNCHANGED <<m_queue, Notifying>>
    BY <1>10 DEF RemoveNoWait, Woken, Notifying
  <2>2. Cardinality(Woken') = 1
    BY <2>1, FS_Singleton
  <2>3. Notifying = {}
    BY <1>10 DEF RemoveNoWait, Notifying, MutexInv, Holding
  <2>4. Len(m_queue) >= 1
    BY <2>1, EmptySeq
  <2>5. \A d \in Consumers : pc'[d] # "undefined"
    BY <1>1, <1>10 DEF RemoveNoWait
  <2> QED
    BY <2>1, <2>2, <2>3, <2>4, <2>5 DEF EnoughInv
<1>11. ASSUME NEW c \in Consumers, RemoveTake(c) PROVE EnoughInv'
  <2>1. c \in Woken /\ Woken' = Woken \ {c}
    BY <1>11 DEF RemoveTake, Woken
  <2>2. Cardinality(Woken') = Cardinality(Woken) - 1
    BY <2>1, <1>2, FS_RemoveElement
  <2>3. Len(m_queue') = Len(m_queue) - 1
    BY <1>11 DEF RemoveTake
  <2>4. Notifying' = {}
    BY <1>11 DEF RemoveTake, Notifying, MutexInv, Holding
  <2>5. \A d \in Consumers : pc'[d] # "undefined"
    BY <1>1, <1>11 DEF RemoveTake
  <2> QED
    BY <1>1, <1>3, <2>2, <2>3, <2>4, <2>5 DEF EnoughInv
<1>12. ASSUME NEW c \in Consumers, WakeSpuriously(c) PROVE FALSE
  BY <1>12 DEF WakeSpuriously
<1>13. ASSUME NEW c \in Consumers, RemoveFromEmpty(c) PROVE FALSE
  <2>1. c \in Woken /\ Len(m_queue) = 0
    BY <1>13 DEF RemoveFromEmpty, Woken
  <2>2. Cardinality(Woken) # 0
    BY <2>1, <1>2, FS_EmptySet
  <2> QED
    BY <1>1, <1>3, <2>1, <2>2
<1>14. CASE UNCHANGED vars
  <2> UNCHANGED <<Woken, m_queue, Notifying, pc>>
    BY <1>14 DEF vars, Woken, Notifying
  <2> QED
    BY <1>1, <1>5
<1> QED
  BY <1>6, <1>7, <1>8, <1>9, <1>10, <1>11, <1>12, <1>13, <1>14 DEF Next, AddStep, RemoveStep

\* With any number of consumers, and waits that may return by themselves,
\* remove() reads the front of an empty list only after one has, or after a
\* consumer came by and took what another was woken for.  A queue with one
\* consumer, as every queue of the simulator is, is left with the first.
THEOREM EmptyPopOnlyUncalled ==
  ASSUME IsFiniteSet(Consumers)
  PROVE  Spec => []NoEmptyPop
<1>1. Init => EnoughInv
  <2> SUFFICES ASSUME Init PROVE EnoughInv
    OBVIOUS
  <2>1. Woken = {} /\ Notifying = {} /\ \A c \in Consumers : pc[c] # "undefined"
    BY ThreadsAssumption DEF Init, Woken, Notifying, Threads
  <2>2. Cardinality(Woken) = 0 /\ Len(m_queue) = 0
    BY <2>1, FS_EmptySet DEF Init
  <2> QED
    BY <2>1, <2>2 DEF EnoughInv
<1>2. IInv /\ EnoughInv /\ [Next]_vars => EnoughInv'
  BY StepEnoughInv
<1>3. EnoughInv => NoEmptyPop
  BY DEF EnoughInv, NoEmptyPop
<1> QED
  BY <1>1, <1>2, <1>3, Invariance, PTL DEF Spec

-----------------------------------------------------------------------------
(***************************************************************************)
(* The refinement: every step of the worker queue is a step of the         *)
(* drop-tail queue or leaves it unchanged.                                 *)
(***************************************************************************)

Asking == {c \in Consumers : pc[c] # "idle"}

LEMMA StepImplements ==
  ASSUME IInv, [Next]_vars
  PROVE  [Promise!Next]_(Promise!vars)
<1> USE DEF IInv, TypeOK, Threads, ProducerPC, ConsumerPC, Goto
<1> USE ThreadsAssumption
<1>1. ASSUME UNCHANGED <<m_queue, got>>, \A c \in Consumers : pc'[c] # "idle" <=> pc[c] # "idle"
      PROVE  UNCHANGED Promise!vars
  BY <1>1 DEF Promise!vars
<1>2. ASSUME NEW p \in Producers,
             \/ \E x \in Items : AddCall(p, x)
             \/ AddLock(p) \/ AddDrop(p) \/ AddNotify(p)
      PROVE  UNCHANGED Promise!vars
  <2>1. /\ UNCHANGED <<m_queue, got>>
        /\ \A c \in Consumers : pc'[c] = pc[c]
    BY <1>2 DEF AddCall, AddLock, AddDrop, AddNotify
  <2> QED
    BY <2>1, <1>1
<1>3. ASSUME NEW p \in Producers, AddPush(p)
      PROVE  Promise!Offer(item[p]) /\ item[p] \in Items
  <2>1. UNCHANGED Asking
    BY <1>3 DEF AddPush, Asking
  <2>2. Len(m_queue) < MaxEntries
    BY <1>3, MaxEntriesAssumption DEF AddPush, Full
  <2> QED
    BY <1>3, <2>1, <2>2 DEF AddPush, Promise!Offer, Asking
<1>4. ASSUME NEW c \in Consumers, RemoveCall(c)
      PROVE  Promise!Ask(c)
  BY <1>4 DEF RemoveCall, Promise!Ask
<1>5. ASSUME NEW c \in Consumers,
             \/ RemoveLock(c) \/ RemoveWait(c) \/ RemoveNoWait(c)
             \/ WakeSpuriously(c) \/ RemoveRelock(c) \/ RemoveFromEmpty(c)
      PROVE  UNCHANGED Promise!vars
  <2>1. /\ UNCHANGED <<m_queue, got>>
        /\ \A d \in Consumers : pc'[d] # "idle" <=> pc[d] # "idle"
    BY <1>5 DEF RemoveLock, RemoveWait, RemoveNoWait, WakeSpuriously,
                RemoveRelock, RemoveFromEmpty
  <2> QED
    BY <2>1, <1>1
<1>6. ASSUME NEW c \in Consumers, RemoveTake(c)
      PROVE  Promise!Take(c)
  BY <1>6 DEF RemoveTake, Promise!Take
<1>7. CASE UNCHANGED vars
  BY <1>7, <1>1 DEF vars
<1> QED
  BY <1>2, <1>3, <1>4, <1>5, <1>6, <1>7
  DEF Next, AddStep, RemoveStep, Promise!Next

\* For any number of producers and consumers, every limit, and with or without
\* spurious wakeups, the worker queue is a drop-tail queue: it loses nothing
\* it accepted, invents nothing, and hands each item out once and in order.
THEOREM Refinement == Spec => ImplementsQueue
<1>1. Init => Promise!Init
  BY ThreadsAssumption DEF Init, Promise!Init, Threads
<1>2. IInv /\ [Next]_vars => [Promise!Next]_(Promise!vars)
  BY StepImplements
<1> QED
  BY <1>1, <1>2, Invariance, PTL DEF Spec, ImplementsQueue, Promise!Spec
=============================================================================
