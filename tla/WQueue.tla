------------------------------- MODULE WQueue -------------------------------
(***************************************************************************)
(* The worker queue every device of the simulation communicates through    *)
(* (src/wqueue.h): a list guarded by a mutex, a condition variable on      *)
(* which remove() waits, and a size limit at which add() drops.            *)
(*                                                                         *)
(* The steps are the points at which another thread can run: acquiring     *)
(* the mutex, the work done under it, the notification, the wait.  Two     *)
(* things the code leaves open are kept open: which waiter notify_one      *)
(* wakes, and whether wait() may return without a notification             *)
(* (SpuriousWakeups; the C++ standard allows it, glibc's futexes seldom    *)
(* do it).                                                                 *)
(***************************************************************************)
EXTENDS Naturals, Sequences, FiniteSets

CONSTANTS Producers,        \* threads that call add()
          Consumers,        \* threads that call remove()
          Items,            \* what can be queued
          MaxEntries,       \* max_entries: 20 by default, 1 on a wire
          SpuriousWakeups,  \* may condition_variable::wait return by itself?
          NoThread,         \* the mutex has no holder
          Nothing           \* no item received yet

ASSUME MaxEntriesAssumption == MaxEntries \in Nat \ {0}
ASSUME SpuriousAssumption == SpuriousWakeups \in BOOLEAN
ASSUME ThreadsAssumption ==
    /\ Producers \cap Consumers = {}
    /\ NoThread \notin Producers \cup Consumers

VARIABLES m_queue,   \* the list
          m_mutex,   \* the thread that holds the mutex, or NoThread
          m_condv,   \* consumers inside wait() that nothing has woken yet
          pc,        \* where each thread is
          item,      \* the argument of each producer's last add(); any before it
          got,       \* what each consumer's last remove() returned
          uncalled   \* history: has a consumer gone for the front that nothing
                     \* called there?

vars == <<m_queue, m_mutex, m_condv, pc, item, got, uncalled>>

Threads == Producers \cup Consumers

ProducerPC == {"idle", "add", "size_test", "notify"}

\* "undefined": front() was called on an empty list.  The C++ standard says
\* nothing of what follows (libstdc++ returns the list header as an item and
\* frees it), so the thread takes no further step and keeps the mutex.
ConsumerPC == {"idle", "remove", "size_test", "wait", "front", "undefined"}

Init ==
    /\ m_queue = <<>>
    /\ m_mutex = NoThread
    /\ m_condv = {}
    /\ pc = [t \in Threads |-> "idle"]
    /\ item \in [Producers -> Items]
    /\ got = [c \in Consumers |-> Nothing]
    /\ uncalled = FALSE

Goto(t, from, to) ==
    /\ pc[t] = from
    /\ pc' = [pc EXCEPT ![t] = to]

Lock(t) ==
    /\ m_mutex = NoThread
    /\ m_mutex' = t

Unlock == m_mutex' = NoThread

----------------------------------------------------------------------------
\* add()

AddCall(p, x) ==
    /\ Goto(p, "idle", "add")
    /\ item' = [item EXCEPT ![p] = x]
    /\ UNCHANGED <<m_queue, m_mutex, m_condv, got, uncalled>>

AddLock(p) ==
    /\ Goto(p, "add", "size_test")
    /\ Lock(p)
    /\ UNCHANGED <<m_queue, m_condv, item, got, uncalled>>

\* Variant with a bug: one item too many.
FullOffByOne == Len(m_queue) > MaxEntries

Full == Len(m_queue) >= MaxEntries

\* Variant with a bug: the caller tries again until there is room.
AddDropRetrying(p) ==
    /\ Full
    /\ Goto(p, "size_test", "add")
    /\ Unlock
    /\ UNCHANGED <<m_queue, m_condv, item, got, uncalled>>

\* The item of a full queue is forgotten: the caller is not told.
AddDrop(p) ==
    /\ Full
    /\ Goto(p, "size_test", "idle")
    /\ Unlock
    /\ UNCHANGED <<m_queue, m_condv, item, got, uncalled>>

\* Variant with a bug: the item goes to the front of the list.
AddPushFront(p) ==
    /\ ~Full
    /\ Goto(p, "size_test", "notify")
    /\ m_queue' = <<item[p]>> \o m_queue
    /\ UNCHANGED <<m_mutex, m_condv, item, got, uncalled>>

\* Variant with a bug: only the first item of an empty list is notified.
AddPushNotifyingIfEmpty(p) ==
    /\ ~Full
    /\ IF m_queue = <<>>
       THEN Goto(p, "size_test", "notify") /\ UNCHANGED m_mutex
       ELSE Goto(p, "size_test", "idle") /\ Unlock
    /\ m_queue' = Append(m_queue, item[p])
    /\ UNCHANGED <<m_condv, item, got, uncalled>>

AddPush(p) ==
    /\ ~Full
    /\ Goto(p, "size_test", "notify")
    /\ m_queue' = Append(m_queue, item[p])
    /\ UNCHANGED <<m_mutex, m_condv, item, got, uncalled>>

\* Variant with a bug: nobody is notified.
AddNotifyNobody(p) ==
    /\ Goto(p, "notify", "idle")
    /\ Unlock
    /\ UNCHANGED <<m_queue, m_condv, item, got, uncalled>>

\* Variant with a bug: every waiter is notified of one item.
AddNotifyAll(p) ==
    /\ Goto(p, "notify", "idle")
    /\ m_condv' = {}
    /\ Unlock
    /\ UNCHANGED <<m_queue, item, got, uncalled>>

\* notify_one, then the destructor of the lock releases the mutex.
AddNotify(p) ==
    /\ Goto(p, "notify", "idle")
    /\ IF m_condv = {} THEN UNCHANGED m_condv
                       ELSE \E c \in m_condv : m_condv' = m_condv \ {c}
    /\ Unlock
    /\ UNCHANGED <<m_queue, item, got, uncalled>>

----------------------------------------------------------------------------
\* remove()

RemoveCall(c) ==
    /\ Goto(c, "idle", "remove")
    /\ UNCHANGED <<m_queue, m_mutex, m_condv, item, got, uncalled>>

RemoveLock(c) ==
    /\ Goto(c, "remove", "size_test")
    /\ Lock(c)
    /\ UNCHANGED <<m_queue, m_condv, item, got, uncalled>>

\* The consumers that were woken, or need not wait, and will take the front of the list.
Woken == {c \in Consumers : (pc[c] = "wait" /\ c \notin m_condv) \/ pc[c] = "front"}

\* wait() releases the mutex and joins the waiters in one step.
RemoveWait(c) ==
    /\ m_queue = <<>>
    /\ Goto(c, "size_test", "wait")
    /\ Unlock
    /\ m_condv' = m_condv \cup {c}
    /\ UNCHANGED <<m_queue, item, got, uncalled>>

\* A list that is not empty is not waited for, although what is in it may be what
\* another consumer was woken for.
RemoveNoWait(c) ==
    /\ m_queue # <<>>
    /\ Goto(c, "size_test", "front")
    /\ uncalled' = (uncalled \/ Woken # {})
    /\ UNCHANGED <<m_queue, m_mutex, m_condv, item, got>>

WakeSpuriously(c) ==
    /\ SpuriousWakeups
    /\ c \in m_condv
    /\ m_condv' = m_condv \ {c}
    /\ uncalled' = TRUE
    /\ UNCHANGED <<m_queue, m_mutex, pc, item, got>>

\* A woken waiter takes the mutex again; the size is not looked at again.
RemoveRelock(c) ==
    /\ c \notin m_condv
    /\ Goto(c, "wait", "front")
    /\ Lock(c)
    /\ UNCHANGED <<m_queue, m_condv, item, got, uncalled>>

RemoveTake(c) ==
    /\ m_queue # <<>>
    /\ Goto(c, "front", "idle")
    /\ got' = [got EXCEPT ![c] = Head(m_queue)]
    /\ m_queue' = Tail(m_queue)
    /\ Unlock
    /\ UNCHANGED <<m_condv, item, uncalled>>

RemoveFromEmpty(c) ==
    /\ m_queue = <<>>
    /\ Goto(c, "front", "undefined")
    /\ UNCHANGED <<m_queue, m_mutex, m_condv, item, got, uncalled>>

----------------------------------------------------------------------------

AddStep(p) == AddDrop(p) \/ AddPush(p) \/ AddNotify(p)

RemoveStep(c) ==
    \/ RemoveWait(c)
    \/ RemoveNoWait(c)
    \/ RemoveTake(c)
    \/ RemoveFromEmpty(c)

Next ==
    \/ \E p \in Producers :
          \/ \E x \in Items : AddCall(p, x)
          \/ AddLock(p)
          \/ AddStep(p)
    \/ \E c \in Consumers :
          \/ RemoveCall(c)
          \/ RemoveLock(c)
          \/ RemoveRelock(c)
          \/ RemoveStep(c)
          \/ WakeSpuriously(c)

Spec == Init /\ [][Next]_vars

(***************************************************************************)
(* A thread holding the mutex keeps running.  A thread asking for it gets  *)
(* it if it is free again and again: a plain mutex promises no order, but  *)
(* a thread that uses a queue again sleeps outside the mutex in between    *)
(* (usleep in host.cpp and networking_devices.cpp), or, once the list is   *)
(* empty, waits in remove() with the mutex released (Gateway::run,         *)
(* Host::demuxer, DHCPServer::run).  Nothing obliges a thread to call      *)
(* add() or remove().                                                      *)
(***************************************************************************)
Fairness ==
    /\ \A p \in Producers : WF_vars(AddStep(p)) /\ SF_vars(AddLock(p))
    /\ \A c \in Consumers : /\ WF_vars(RemoveStep(c))
                            /\ SF_vars(RemoveLock(c))
                            /\ SF_vars(RemoveRelock(c))

FairSpec == Spec /\ Fairness

----------------------------------------------------------------------------
\* Properties

\* Every variable has its type; the list never outgrows max_entries.
TypeOK ==
    /\ m_queue \in Seq(Items)
    /\ Len(m_queue) <= MaxEntries
    /\ m_mutex \in Threads \cup {NoThread}
    /\ m_condv \subseteq Consumers
    /\ pc \in [Threads -> ProducerPC \cup ConsumerPC]
    /\ \A p \in Producers : pc[p] \in ProducerPC
    /\ \A c \in Consumers : pc[c] \in ConsumerPC
    /\ item \in [Producers -> Items]
    /\ got \in [Consumers -> Items \cup {Nothing}]
    /\ uncalled \in BOOLEAN

\* remove() does not test the size again when wait() returns, and yet finds an
\* item (wqueue.h:70), with any number of consumers -- unless a wait has returned
\* by itself, or a consumer has come by and taken what another was woken for.
NoEmptyPop == uncalled \/ \A c \in Consumers : pc[c] # "undefined"

Notifying == {p \in Producers : pc[p] = "notify"}

\* While a consumer sleeps in wait(), there is a woken consumer, or a producer
\* about to notify, for every queued item: no wakeup is ever lost, with any
\* number of consumers and with spurious wakeups.
NoLostWakeup ==
    m_condv # {} => Len(m_queue) <= Cardinality(Woken) + Cardinality(Notifying)

\* add() never blocks its caller for good, however full the queue is and
\* however slow its consumer: it queues the item or drops it.
AddReturns == \A p \in Producers : pc[p] = "add" ~> pc[p] = "idle"

\* The queue as its users see it: everything in the list is accepted, a
\* consumer asks from its call of remove() until its return.
Promise == INSTANCE DropTailQueue WITH
    Capacity <- MaxEntries,
    queue <- m_queue,
    asking <- {c \in Consumers : pc[c] # "idle"},
    got <- got

\* Whatever the interleaving, items come out once each and in the order they
\* went in, none is invented, and the list stays within its limit.
ImplementsQueue == Promise!Spec

\* With one consumer and no spurious wakeup the queue also delivers: a
\* consumer inside remove() gets an item if the list is not empty.
ImplementsFairQueue == Promise!FairSpec
=============================================================================
