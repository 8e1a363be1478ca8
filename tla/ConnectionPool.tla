--------------------------- MODULE ConnectionPool ---------------------------
(***************************************************************************)
(* The process's bounded pool of database connections                      *)
(* (backend/db_config.py): built lazily by the first thread that needs it, *)
(* lent under a semaphore with a deadline, each connection checked before  *)
(* it is lent and discarded when it cannot be used again.                  *)
(*                                                                         *)
(* A step is what a thread does between two places where another thread of *)
(* the process can run.  The library's pool is modelled by what this code  *)
(* asks of it: it lends an idle connection or opens one, refuses beyond    *)
(* its maximum, keeps at most its minimum idle, and may have kept one that *)
(* has been closed since.                                                  *)
(***************************************************************************)
EXTENDS Integers, FiniteSets

CONSTANTS
    Threads,     \* threads of the server process
    Nobody,      \* no thread
    Minimum,     \* DB_POOL_MIN: connections opened with the pool
    Maximum      \* DB_POOL_MAX: connections, and slots of the semaphore

ASSUME NobodyAssumption == Nobody \notin Threads
ASSUME BoundsAssumption ==
    Minimum \in Nat \ {0} /\ Maximum \in Nat /\ Minimum <= Maximum
ASSUME ThreadsAssumption == IsFiniteSet(Threads)

VARIABLES
    published,   \* _connection_pool is set
    made,        \* _pool_slots is set
    slots,       \* its value
    builder,     \* the holder of _pool_lock
    idle,        \* open connections the library's pool keeps
    stale,       \* connections it keeps that have been closed
    used,        \* connections it counts as lent
    pc,          \* where each thread is in get_connection, its use, return
    tried,       \* whether its first connection turned out closed
    conn         \* its connection

sharedVars == <<published, made, slots, builder, idle, stale, used>>
poolVars == <<sharedVars, pc, tried, conn>>

Asking == {"locking", "building", "publishing slots",
           "publishing pool", "waiting", "getting", "discarding", "failing"}
Steps == Asking \cup {"away", "holding", "putting", "releasing"}

\* Threads the semaphore counts in
WithSlot == {t \in Threads :
    pc[t] \in {"getting", "discarding", "failing", "holding", "putting", "releasing"}}

\* A thread goes on to its next step.
Go(t, step) == pc' = [pc EXCEPT ![t] = step]
Receive(t, c) == conn' = [conn EXCEPT ![t] = c]

PoolInit ==
    /\ published = FALSE
    /\ made = FALSE
    /\ slots = 0
    /\ builder = Nobody
    /\ idle = 0
    /\ stale = 0
    /\ used = 0
    /\ pc = [t \in Threads |-> "away"]
    /\ tried = [t \in Threads |-> FALSE]
    /\ conn = [t \in Threads |-> "none"]

-----------------------------------------------------------------------------
\* _get_connection_pool

\* The first look is without the lock.
Ask(t) ==
    /\ pc[t] = "away"
    /\ Go(t, IF published THEN "waiting" ELSE "locking")
    /\ UNCHANGED <<sharedVars, tried, conn>>

\* Slip: the pool is not looked for again under the lock.
LockBlindly(t) ==
    /\ pc[t] = "locking"
    /\ builder = Nobody
    /\ builder' = t
    /\ Go(t, "building")
    /\ UNCHANGED <<published, made, slots, idle, stale, used, tried, conn>>

\* _pool_lock, and the second look: who finds the pool leaves the lock.
Lock(t) ==
    /\ pc[t] = "locking"
    /\ builder = Nobody
    /\ IF published
         THEN Go(t, "waiting") /\ UNCHANGED builder
         ELSE Go(t, "building") /\ builder' = t
    /\ UNCHANGED <<published, made, slots, idle, stale, used, tried, conn>>

\* ThreadedConnectionPool opened its connections and they passed the check.
Build(t) ==
    /\ pc[t] = "building"
    /\ Go(t, "publishing slots")
    /\ UNCHANGED <<sharedVars, tried, conn>>

\* Slip: a failed build keeps the lock.
BuildFailsLocked(t) ==
    /\ pc[t] = "building"
    /\ Go(t, "away")
    /\ UNCHANGED <<sharedVars, tried, conn>>

\* The server is not reached, or it is not the least-privileged role: the
\* connections are closed and the caller gets the error.
BuildFails(t) ==
    /\ pc[t] = "building"
    /\ builder' = Nobody
    /\ Go(t, "away")
    /\ UNCHANGED <<published, made, slots, idle, stale, used, tried, conn>>

\* Slip: the pool is published before its semaphore.
PublishPoolFirst(t) ==
    /\ pc[t] = "publishing slots"
    /\ published' = TRUE
    /\ idle' = Minimum
    /\ Go(t, "publishing pool")
    /\ UNCHANGED <<made, slots, builder, stale, used, tried, conn>>

PublishSlots(t) ==
    /\ pc[t] = "publishing slots"
    /\ made' = TRUE
    /\ slots' = Maximum
    /\ Go(t, "publishing pool")
    /\ UNCHANGED <<published, builder, idle, stale, used, tried, conn>>

PublishPool(t) ==
    /\ pc[t] = "publishing pool"
    /\ published' = TRUE
    /\ idle' = Minimum
    /\ stale' = 0
    /\ used' = 0
    /\ builder' = Nobody
    /\ Go(t, "waiting")
    /\ UNCHANGED <<made, slots, tried, conn>>

-----------------------------------------------------------------------------
\* get_connection: a slot, then at most two connections of the library

AcquireSlot(t) ==
    /\ pc[t] = "waiting"
    /\ slots > 0
    /\ slots' = slots - 1
    /\ Go(t, "getting")
    /\ UNCHANGED <<published, made, builder, idle, stale, used, tried, conn>>

\* Slip: the wait for a slot has no deadline.
WaitOn(t) == FALSE

\* PoolError: checkout timed out
TimeOut(t) ==
    /\ pc[t] = "waiting"
    /\ slots = 0
    /\ Go(t, "away")
    /\ UNCHANGED <<sharedVars, tried, conn>>

TakeIdle(t) ==
    /\ pc[t] = "getting"
    /\ idle > 0
    /\ idle' = idle - 1
    /\ used' = used + 1
    /\ Receive(t, "open")
    /\ Go(t, "holding")
    /\ tried' = [tried EXCEPT ![t] = FALSE]
    /\ UNCHANGED <<published, made, slots, builder, stale>>

Connect(t) ==
    /\ pc[t] = "getting"
    /\ idle + stale = 0
    /\ used < Maximum
    /\ used' = used + 1
    /\ Receive(t, "open")
    /\ Go(t, "holding")
    /\ tried' = [tried EXCEPT ![t] = FALSE]
    /\ UNCHANGED <<published, made, slots, builder, idle, stale>>

\* getconn raises: the server is not reached, or the library's pool is
\* exhausted.
GetFails(t) ==
    /\ pc[t] = "getting"
    /\ idle + stale = 0
    /\ Go(t, "failing")
    /\ tried' = [tried EXCEPT ![t] = FALSE]
    /\ UNCHANGED <<sharedVars, conn>>

TakeStale(t) ==
    /\ pc[t] = "getting"
    /\ stale > 0
    /\ stale' = stale - 1
    /\ used' = used + 1
    /\ Receive(t, "closed")
    /\ Go(t, "discarding")
    /\ UNCHANGED <<published, made, slots, builder, idle, tried>>

\* Slip: a closed connection is dropped, not put back to be closed.
DropClosed(t) ==
    /\ pc[t] = "discarding"
    /\ Receive(t, "none")
    /\ tried' = [tried EXCEPT ![t] = ~@]
    /\ Go(t, IF tried[t] THEN "failing" ELSE "getting")
    /\ UNCHANGED sharedVars

\* putconn(close=True), and a second attempt unless this was it
Discard(t) ==
    /\ pc[t] = "discarding"
    /\ used' = used - 1
    /\ Receive(t, "none")
    /\ tried' = [tried EXCEPT ![t] = ~@]
    /\ Go(t, IF tried[t] THEN "failing" ELSE "getting")
    /\ UNCHANGED <<published, made, slots, builder, idle, stale>>

\* Slip: a failed checkout keeps its slot.
FailKeepingSlot(t) ==
    /\ pc[t] = "failing"
    /\ Go(t, "away")
    /\ UNCHANGED <<sharedVars, tried, conn>>

\* The exception of a failed checkout leaves only after its slot is back.
FailCheckout(t) ==
    /\ pc[t] = "failing"
    /\ slots' = slots + 1
    /\ Go(t, "away")
    /\ UNCHANGED <<published, made, builder, idle, stale, used, tried, conn>>

-----------------------------------------------------------------------------
\* The use of a connection, and return_connection

\* The body of db_connection, execute_query or execute_many: it ends in a
\* commit or a rollback, and the connection may not survive it.
Use(t) ==
    /\ pc[t] = "holding"
    /\ \E c \in {"open", "closed"} : Receive(t, c)
    /\ Go(t, "putting")
    /\ UNCHANGED <<sharedVars, tried>>

\* rollback and putconn: a broken connection is closed, a sound one is kept
\* while the pool is below its minimum
PutBack(t) ==
    /\ pc[t] = "putting"
    /\ used' = used - 1
    /\ idle' = IF conn[t] = "open" /\ idle + stale < Minimum THEN idle + 1 ELSE idle
    /\ Receive(t, "none")
    /\ Go(t, "releasing")
    /\ UNCHANGED <<published, made, slots, builder, stale, tried>>

ReleaseSlot(t) ==
    /\ pc[t] = "releasing"
    /\ slots' = slots + 1
    /\ Go(t, "away")
    /\ UNCHANGED <<published, made, builder, idle, stale, used, tried, conn>>

\* A connection the library keeps is closed under it.
IdleCloses ==
    /\ idle > 0
    /\ idle' = idle - 1
    /\ stale' = stale + 1
    /\ UNCHANGED <<published, made, slots, builder, used, pc, tried, conn>>

-----------------------------------------------------------------------------

Checkout(t) ==
    \/ Build(t) \/ BuildFails(t) \/ PublishSlots(t) \/ PublishPool(t)
    \/ AcquireSlot(t) \/ TimeOut(t) \/ TakeIdle(t) \/ Connect(t) \/ GetFails(t)
    \/ TakeStale(t) \/ Discard(t) \/ FailCheckout(t)
GiveBack(t) == PutBack(t) \/ ReleaseSlot(t)

PoolNext ==
    \/ \E t \in Threads : Ask(t) \/ Lock(t) \/ Checkout(t) \/ Use(t) \/ GiveBack(t)
    \/ IdleCloses

\* Threads run on, a held connection is given back (statement and idle
\* timeouts of the server end every use) and a lock that is free again and
\* again is obtained.
PoolFairness ==
    \A t \in Threads :
      /\ WF_poolVars(Checkout(t))
      /\ SF_poolVars(Lock(t))
      /\ WF_poolVars(Use(t))
      /\ WF_poolVars(GiveBack(t))

PoolSpec == PoolInit /\ [][PoolNext]_poolVars /\ PoolFairness

-----------------------------------------------------------------------------

\* Every variable keeps its type; a connection is held from getconn to
\* putconn only.
PoolTypeOK ==
    /\ published \in BOOLEAN
    /\ made \in BOOLEAN
    /\ slots \in 0 .. Maximum
    /\ builder \in Threads \cup {Nobody}
    /\ idle \in 0 .. Minimum
    /\ stale \in 0 .. Minimum
    /\ used \in 0 .. Maximum
    /\ pc \in [Threads -> Steps]
    /\ tried \in [Threads -> BOOLEAN]
    /\ conn \in [Threads -> {"none", "open", "closed"}]

\* No failed checkout, closed connection or return leaks a slot or gives one
\* back twice: the semaphore is short of its maximum by exactly the threads
\* between acquire and release (db_config.py get_connection's except clause
\* and return_connection's finally clause).  Whoever sees the pool without
\* taking the lock finds that semaphore: it is assigned before
\* _connection_pool is (_get_connection_pool).
SlotsBalance ==
    /\ published => made
    /\ made => slots + Cardinality(WithSlot) = Maximum

\* The connection is put back before the slot is released, so a thread that
\* has a slot and no connection never meets "connection pool exhausted" in
\* the library.
NeverExhausted == \A t \in Threads : pc[t] = "getting" => used < Maximum

Borrowing == INSTANCE BoundedBorrowing WITH
    asking <- {t \in Threads : pc[t] \in Asking},
    lent <- {t \in Threads : pc[t] \in {"holding", "putting"}}

\* The pool keeps the promise of BoundedBorrowing: whoever asks is answered,
\* at most Maximum connections are lent and each comes back.
BorrowingKept == Borrowing!Spec
=============================================================================
