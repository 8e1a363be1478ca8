------------------------ MODULE ConnectionPoolProofs ------------------------
(***************************************************************************)
(* Proofs, for any number of threads and any bounds of the pool, that the  *)
(* semaphore and the library's pool never disagree.                        *)
(*                                                                         *)
(* The invariant says where each thread can be: building only under the    *)
(* lock and before there is a pool, past the wait only once there is one,  *)
(* and with a connection only with a slot.  Slots and connections are then *)
(* counted by the threads that have them, so a thread with a slot and no   *)
(* connection finds the library one short of its maximum.                  *)
(***************************************************************************)
EXTENDS ConnectionPool, FiniteSetTheorems, TLAPS

-----------------------------------------------------------------------------
\* The inductive invariant

LEMMA Bounds == Minimum \in Nat /\ Maximum \in Nat /\ 1 <= Minimum /\ Minimum <= Maximum
BY BoundsAssumption

Lent == {t \in Threads : conn[t] # "none"}

Places ==
    /\ \A t \in Threads :
         /\ pc[t] \in {"building", "publishing slots", "publishing pool"}
              => builder = t /\ ~published
         /\ pc[t] \in {"building", "publishing slots"} => ~made
         /\ pc[t] = "publishing pool" => made
         /\ pc[t] = "waiting" \/ t \in WithSlot => published
         /\ conn[t] # "none" <=> pc[t] \in {"discarding", "holding", "putting"}
    /\ published => made
    /\ made /\ ~published => builder # Nobody
    /\ ~published => idle = 0 /\ stale = 0 /\ used = 0
    /\ idle + stale <= Minimum

Counts ==
    /\ made => slots + Cardinality(WithSlot) = Maximum
    /\ used = Cardinality(Lent)

PoolInv == PoolTypeOK /\ Places /\ Counts

\* Threads with a connection are among those with a slot, and both are
\* counted.
LEMMA Counted ==
  ASSUME PoolTypeOK, Places
  PROVE  /\ IsFiniteSet(WithSlot) /\ Cardinality(WithSlot) \in Nat
         /\ IsFiniteSet(Lent) /\ Cardinality(Lent) \in Nat
         /\ Cardinality(Lent) <= Cardinality(WithSlot)
         /\ \A t \in WithSlot : t \notin Lent => Cardinality(Lent) < Cardinality(WithSlot)
         /\ \A t \in Lent : Cardinality(Lent) > 0
         /\ \A t \in WithSlot : Cardinality(WithSlot) > 0
<1>1. Lent \subseteq WithSlot
  BY DEF Places, Lent, WithSlot
<1>2. WithSlot \subseteq Threads
  BY DEF WithSlot
<1>3. IsFiniteSet(WithSlot)
  BY <1>2, ThreadsAssumption, FS_Subset
<1>4. IsFiniteSet(Lent) /\ Cardinality(Lent) <= Cardinality(WithSlot)
  BY <1>1, <1>3, FS_Subset
<1>5. Cardinality(WithSlot) \in Nat /\ Cardinality(Lent) \in Nat
  BY <1>3, <1>4, FS_CardinalityType
<1>6. ASSUME NEW t \in WithSlot, t \notin Lent
      PROVE  Cardinality(Lent) < Cardinality(WithSlot)
  <2>1. Cardinality(Lent) # Cardinality(WithSlot)
    BY <1>1, <1>3, <1>6, FS_Subset
  <2> QED
    BY <2>1, <1>4, <1>5
<1>7. (\A t \in Lent : Cardinality(Lent) > 0) /\ (\A t \in WithSlot : Cardinality(WithSlot) > 0)
  <2>1. (Lent # {} => Cardinality(Lent) # 0) /\ (WithSlot # {} => Cardinality(WithSlot) # 0)
    BY <1>3, <1>4, FS_EmptySet
  <2> QED
    BY <2>1, <1>5
<1> QED
  BY <1>3, <1>4, <1>5, <1>6, <1>7

\* A step that changes the set of lenders or of slots by one changes its
\* size by one.
LEMMA OneMore ==
  ASSUME NEW S, IsFiniteSet(S), Cardinality(S) \in Nat, NEW t
  PROVE  /\ t \notin S => Cardinality(S \cup {t}) = Cardinality(S) + 1
         /\ t \in S => Cardinality(S \ {t}) = Cardinality(S) - 1
BY FS_AddElement, FS_RemoveElement

LEMMA KeptConnections ==
  ASSUME PoolTypeOK, Places
  PROVE  idle \in Nat /\ stale \in Nat /\ idle + stale <= Minimum
<1>1. idle \in Nat /\ stale \in Nat
  BY Bounds DEF PoolTypeOK
<1> QED
  BY <1>1 DEF Places

-----------------------------------------------------------------------------
\* What a step may do to slots and connections

\* Neither a slot nor a connection changes hands.
LEMMA NoneMoves ==
  ASSUME PoolInv, made' = made, slots' = slots, used' = used, WithSlot' = WithSlot, Lent' = Lent
  PROVE  Counts' /\ slots' \in 0 .. Maximum /\ used' \in 0 .. Maximum
BY DEF PoolInv, PoolTypeOK, Counts

\* A slot is taken.
LEMMA SlotTaken ==
  ASSUME PoolInv, NEW t, made, made', slots' = slots - 1, used' = used,
         t \notin WithSlot, WithSlot' = WithSlot \cup {t}, slots > 0, Lent' = Lent
  PROVE  Counts' /\ slots' \in 0 .. Maximum /\ used' \in 0 .. Maximum
<1>1. /\ Cardinality(Lent) \in Nat /\ Cardinality(WithSlot) \in Nat
      /\ Cardinality(Lent) <= Cardinality(WithSlot)
  BY Counted DEF PoolInv
<1>2. Cardinality(WithSlot') = Cardinality(WithSlot) + 1 /\ Cardinality(Lent') = Cardinality(Lent)
  BY Counted, OneMore DEF PoolInv
<1>3. slots \in Nat /\ used \in Nat /\ slots <= Maximum /\ used <= Maximum
  BY Bounds DEF PoolInv, PoolTypeOK
<1>4. slots + Cardinality(WithSlot) = Maximum /\ used = Cardinality(Lent)
  BY DEF PoolInv, Counts
<1>5. Cardinality(WithSlot') \in Nat /\ Cardinality(Lent') \in Nat
  BY <1>1, <1>2
<1> QED
  BY <1>1, <1>2, <1>3, <1>4, <1>5, Bounds DEF Counts

\* A slot is returned.
LEMMA SlotReturned ==
  ASSUME PoolInv, NEW t, made, made', slots' = slots + 1, used' = used,
         t \in WithSlot, WithSlot' = WithSlot \ {t}, Lent' = Lent
  PROVE  Counts' /\ slots' \in 0 .. Maximum /\ used' \in 0 .. Maximum
<1>1. /\ Cardinality(Lent) \in Nat /\ Cardinality(WithSlot) \in Nat
      /\ Cardinality(Lent) <= Cardinality(WithSlot) /\ Cardinality(WithSlot) > 0
  BY Counted DEF PoolInv
<1>2. Cardinality(WithSlot') = Cardinality(WithSlot) - 1 /\ Cardinality(Lent') = Cardinality(Lent)
  BY Counted, OneMore DEF PoolInv
<1>3. slots \in Nat /\ used \in Nat /\ slots <= Maximum /\ used <= Maximum
  BY Bounds DEF PoolInv, PoolTypeOK
<1>4. slots + Cardinality(WithSlot) = Maximum /\ used = Cardinality(Lent)
  BY DEF PoolInv, Counts
<1>5. Cardinality(WithSlot') \in Nat /\ Cardinality(Lent') \in Nat
  BY <1>1, <1>2
<1> QED
  BY <1>1, <1>2, <1>3, <1>4, <1>5, Bounds DEF Counts

\* A thread with a slot gets a connection.
LEMMA Borrowed ==
  ASSUME PoolInv, NEW t, made, made', slots' = slots, used' = used + 1,
         WithSlot' = WithSlot, t \in WithSlot, t \notin Lent, Lent' = Lent \cup {t}
  PROVE  Counts' /\ slots' \in 0 .. Maximum /\ used' \in 0 .. Maximum
<1>1. /\ Cardinality(Lent) \in Nat /\ Cardinality(WithSlot) \in Nat
      /\ Cardinality(Lent) <= Cardinality(WithSlot) /\ Cardinality(Lent) < Cardinality(WithSlot)
  BY Counted DEF PoolInv
<1>2. Cardinality(WithSlot') = Cardinality(WithSlot) /\ Cardinality(Lent') = Cardinality(Lent) + 1
  BY Counted, OneMore DEF PoolInv
<1>3. slots \in Nat /\ used \in Nat /\ slots <= Maximum /\ used <= Maximum
  BY Bounds DEF PoolInv, PoolTypeOK
<1>4. slots + Cardinality(WithSlot) = Maximum /\ used = Cardinality(Lent)
  BY DEF PoolInv, Counts
<1>5. Cardinality(WithSlot') \in Nat /\ Cardinality(Lent') \in Nat
  BY <1>1, <1>2
<1> QED
  BY <1>1, <1>2, <1>3, <1>4, <1>5, Bounds DEF Counts

\* A connection is put back.
LEMMA Returned ==
  ASSUME PoolInv, NEW t, made, made', slots' = slots, used' = used - 1,
         WithSlot' = WithSlot, t \in Lent, Lent' = Lent \ {t}
  PROVE  Counts' /\ slots' \in 0 .. Maximum /\ used' \in 0 .. Maximum
<1>1. /\ Cardinality(Lent) \in Nat /\ Cardinality(WithSlot) \in Nat
      /\ Cardinality(Lent) <= Cardinality(WithSlot) /\ Cardinality(Lent) > 0
  BY Counted DEF PoolInv
<1>2. Cardinality(WithSlot') = Cardinality(WithSlot) /\ Cardinality(Lent') = Cardinality(Lent) - 1
  BY Counted, OneMore DEF PoolInv
<1>3. slots \in Nat /\ used \in Nat /\ slots <= Maximum /\ used <= Maximum
  BY Bounds DEF PoolInv, PoolTypeOK
<1>4. slots + Cardinality(WithSlot) = Maximum /\ used = Cardinality(Lent)
  BY DEF PoolInv, Counts
<1>5. Cardinality(WithSlot') \in Nat /\ Cardinality(Lent') \in Nat
  BY <1>1, <1>2
<1> QED
  BY <1>1, <1>2, <1>3, <1>4, <1>5, Bounds DEF Counts

-----------------------------------------------------------------------------
\* The steps

LEMMA PoolInvInit == PoolInit => PoolInv
<1> SUFFICES ASSUME PoolInit PROVE PoolInv
  OBVIOUS
<1>1. PoolTypeOK
  <2>1. 0 \in 0 .. Maximum /\ 0 \in 0 .. Minimum /\ Nobody \in Threads \cup {Nobody}
    BY Bounds
  <2>2. "away" \in Steps
    BY DEF Steps
  <2> QED
    BY <2>1, <2>2 DEF PoolInit, PoolTypeOK
<1>2. Places
  BY BoundsAssumption DEF PoolInit, Places, WithSlot
<1>3. Lent = {}
  BY DEF PoolInit, Lent
<1>4. Counts
  BY <1>3, FS_EmptySet DEF PoolInit, Counts
<1> QED
  BY <1>1, <1>2, <1>4 DEF PoolInv

LEMMA AskKeeps ==
  ASSUME PoolInv, NEW t \in Threads, Ask(t)
  PROVE  PoolInv'
<1>1. WithSlot' = WithSlot
  BY DEF PoolInv, Ask, PoolTypeOK, sharedVars, Go, WithSlot, Steps, Asking
<1>2. Lent' = Lent
  BY DEF PoolInv, Ask, PoolTypeOK, Places, sharedVars, Receive, Lent
<1>3. Counts' /\ slots' \in 0 .. Maximum /\ used' \in 0 .. Maximum
  BY <1>1, <1>2, NoneMoves DEF PoolInv, Ask, Places, sharedVars, WithSlot
<1>4. idle' \in 0 .. Minimum /\ stale' \in 0 .. Minimum /\ idle' + stale' <= Minimum
  <2>1. idle' = idle /\ stale' = stale
    BY DEF Ask, sharedVars
  <2> QED
    BY <2>1, KeptConnections, Bounds DEF PoolInv
<1>5. PoolTypeOK'
  BY <1>3, <1>4 DEF PoolInv, Ask, PoolTypeOK, sharedVars, Go, Receive, Steps, Asking
<1>6. Places'
  BY <1>1, <1>4, NobodyAssumption
  DEF PoolInv, Ask, PoolTypeOK, Places, sharedVars, Go, Receive, WithSlot, Steps, Asking
<1> QED
  BY <1>3, <1>5, <1>6 DEF PoolInv

LEMMA LockKeeps ==
  ASSUME PoolInv, NEW t \in Threads, Lock(t)
  PROVE  PoolInv'
<1>1. WithSlot' = WithSlot
  BY DEF PoolInv, Lock, PoolTypeOK, sharedVars, Go, WithSlot, Steps, Asking
<1>2. Lent' = Lent
  BY DEF PoolInv, Lock, PoolTypeOK, Places, sharedVars, Receive, Lent
<1>3. Counts' /\ slots' \in 0 .. Maximum /\ used' \in 0 .. Maximum
  BY <1>1, <1>2, NoneMoves DEF PoolInv, Lock, Places, sharedVars, WithSlot
<1>4. idle' \in 0 .. Minimum /\ stale' \in 0 .. Minimum /\ idle' + stale' <= Minimum
  <2>1. idle' = idle /\ stale' = stale
    BY DEF Lock, sharedVars
  <2> QED
    BY <2>1, KeptConnections, Bounds DEF PoolInv
<1>5. PoolTypeOK'
  BY <1>3, <1>4 DEF PoolInv, Lock, PoolTypeOK, sharedVars, Go, Receive, Steps, Asking
<1>6. Places'
  BY <1>1, <1>4, NobodyAssumption
  DEF PoolInv, Lock, PoolTypeOK, Places, sharedVars, Go, Receive, WithSlot, Steps, Asking
<1> QED
  BY <1>3, <1>5, <1>6 DEF PoolInv

LEMMA BuildKeeps ==
  ASSUME PoolInv, NEW t \in Threads, Build(t)
  PROVE  PoolInv'
<1>1. WithSlot' = WithSlot
  BY DEF PoolInv, Build, PoolTypeOK, sharedVars, Go, WithSlot, Steps, Asking
<1>2. Lent' = Lent
  BY DEF PoolInv, Build, PoolTypeOK, Places, sharedVars, Receive, Lent
<1>3. Counts' /\ slots' \in 0 .. Maximum /\ used' \in 0 .. Maximum
  BY <1>1, <1>2, NoneMoves DEF PoolInv, Build, Places, sharedVars, WithSlot
<1>4. idle' \in 0 .. Minimum /\ stale' \in 0 .. Minimum /\ idle' + stale' <= Minimum
  <2>1. idle' = idle /\ stale' = stale
    BY DEF Build, sharedVars
  <2> QED
    BY <2>1, KeptConnections, Bounds DEF PoolInv
<1>5. PoolTypeOK'
  BY <1>3, <1>4 DEF PoolInv, Build, PoolTypeOK, sharedVars, Go, Receive, Steps, Asking
<1>6. Places'
  BY <1>1, <1>4, NobodyAssumption
  DEF PoolInv, Build, PoolTypeOK, Places, sharedVars, Go, Receive, WithSlot, Steps, Asking
<1> QED
  BY <1>3, <1>5, <1>6 DEF PoolInv

LEMMA BuildFailsKeeps ==
  ASSUME PoolInv, NEW t \in Threads, BuildFails(t)
  PROVE  PoolInv'
<1>1. WithSlot' = WithSlot
  BY DEF PoolInv, BuildFails, PoolTypeOK, sharedVars, Go, WithSlot, Steps, Asking
<1>2. Lent' = Lent
  BY DEF PoolInv, BuildFails, PoolTypeOK, Places, sharedVars, Receive, Lent
<1>3. Counts' /\ slots' \in 0 .. Maximum /\ used' \in 0 .. Maximum
  BY <1>1, <1>2, NoneMoves DEF PoolInv, BuildFails, Places, sharedVars, WithSlot
<1>4. idle' \in 0 .. Minimum /\ stale' \in 0 .. Minimum /\ idle' + stale' <= Minimum
  <2>1. idle' = idle /\ stale' = stale
    BY DEF BuildFails, sharedVars
  <2> QED
    BY <2>1, KeptConnections, Bounds DEF PoolInv
<1>5. PoolTypeOK'
  BY <1>3, <1>4 DEF PoolInv, BuildFails, PoolTypeOK, sharedVars, Go, Receive, Steps, Asking
<1>6. Places'
  BY <1>1, <1>4, NobodyAssumption
  DEF PoolInv, BuildFails, PoolTypeOK, Places, sharedVars, Go, Receive, WithSlot, Steps, Asking
<1> QED
  BY <1>3, <1>5, <1>6 DEF PoolInv

LEMMA PublishSlotsKeeps ==
  ASSUME PoolInv, NEW t \in Threads, PublishSlots(t)
  PROVE  PoolInv'
<1>1. WithSlot' = WithSlot
  BY DEF PoolInv, PublishSlots, PoolTypeOK, sharedVars, Go, WithSlot, Steps, Asking
<1>2. Lent' = Lent
  BY DEF PoolInv, PublishSlots, PoolTypeOK, Places, sharedVars, Receive, Lent
<1>3. Counts' /\ slots' \in 0 .. Maximum /\ used' \in 0 .. Maximum
  <2>1. WithSlot = {}
    BY DEF PublishSlots, PoolInv, Places, WithSlot
  <2>2. Cardinality(WithSlot') = 0
    BY <2>1, <1>1, FS_EmptySet
  <2>3. slots' = Maximum /\ used' = used
    BY DEF PublishSlots
  <2>4. used \in 0 .. Maximum /\ used = Cardinality(Lent)
    BY DEF PoolInv, PoolTypeOK, Counts
  <2> QED
    BY <1>2, <2>2, <2>3, <2>4, Bounds DEF Counts
<1>4. idle' \in 0 .. Minimum /\ stale' \in 0 .. Minimum /\ idle' + stale' <= Minimum
  <2>1. idle' = idle /\ stale' = stale
    BY DEF PublishSlots, sharedVars
  <2> QED
    BY <2>1, KeptConnections, Bounds DEF PoolInv
<1>5. PoolTypeOK'
  BY <1>3, <1>4 DEF PoolInv, PublishSlots, PoolTypeOK, sharedVars, Go, Receive, Steps, Asking
<1>6. Places'
  BY <1>1, <1>4, NobodyAssumption
  DEF PoolInv, PublishSlots, PoolTypeOK, Places, sharedVars, Go, Receive, WithSlot, Steps, Asking
<1> QED
  BY <1>3, <1>5, <1>6 DEF PoolInv

LEMMA PublishPoolKeeps ==
  ASSUME PoolInv, NEW t \in Threads, PublishPool(t)
  PROVE  PoolInv'
<1>1. WithSlot' = WithSlot
  BY DEF PoolInv, PublishPool, PoolTypeOK, sharedVars, Go, WithSlot, Steps, Asking
<1>2. Lent' = Lent
  BY DEF PoolInv, PublishPool, PoolTypeOK, Places, sharedVars, Receive, Lent
<1>3. Counts' /\ slots' \in 0 .. Maximum /\ used' \in 0 .. Maximum
  <2>1. used' = used
    BY DEF PublishPool, PoolInv, Places
  <2> QED
    BY <1>1, <1>2, <2>1, NoneMoves DEF PublishPool
<1>4. idle' \in 0 .. Minimum /\ stale' \in 0 .. Minimum /\ idle' + stale' <= Minimum
  <2>1. idle' = Minimum /\ stale' = 0
    BY DEF PublishPool
  <2> QED
    BY <2>1, KeptConnections, Bounds DEF PoolInv
<1>5. PoolTypeOK'
  BY <1>3, <1>4 DEF PoolInv, PublishPool, PoolTypeOK, sharedVars, Go, Receive, Steps, Asking
<1>6. Places'
  BY <1>1, <1>4, NobodyAssumption
  DEF PoolInv, PublishPool, PoolTypeOK, Places, sharedVars, Go, Receive, WithSlot, Steps, Asking
<1> QED
  BY <1>3, <1>5, <1>6 DEF PoolInv

LEMMA AcquireSlotKeeps ==
  ASSUME PoolInv, NEW t \in Threads, AcquireSlot(t)
  PROVE  PoolInv'
<1>1. WithSlot' = WithSlot \cup {t} /\ t \notin WithSlot
  BY DEF PoolInv, AcquireSlot, PoolTypeOK, sharedVars, Go, WithSlot, Steps, Asking
<1>2. Lent' = Lent
  BY DEF PoolInv, AcquireSlot, PoolTypeOK, Places, sharedVars, Receive, Lent
<1>3. Counts' /\ slots' \in 0 .. Maximum /\ used' \in 0 .. Maximum
  BY <1>1, <1>2, SlotTaken DEF PoolInv, AcquireSlot, Places, sharedVars, WithSlot
<1>4. idle' \in 0 .. Minimum /\ stale' \in 0 .. Minimum /\ idle' + stale' <= Minimum
  <2>1. idle' = idle /\ stale' = stale
    BY DEF AcquireSlot, sharedVars
  <2> QED
    BY <2>1, KeptConnections, Bounds DEF PoolInv
<1>5. PoolTypeOK'
  BY <1>3, <1>4 DEF PoolInv, AcquireSlot, PoolTypeOK, sharedVars, Go, Receive, Steps, Asking
<1>6. Places'
  BY <1>1, <1>4, NobodyAssumption
  DEF PoolInv, AcquireSlot, PoolTypeOK, Places, sharedVars, Go, Receive, WithSlot, Steps, Asking
<1> QED
  BY <1>3, <1>5, <1>6 DEF PoolInv

LEMMA TimeOutKeeps ==
  ASSUME PoolInv, NEW t \in Threads, TimeOut(t)
  PROVE  PoolInv'
<1>1. WithSlot' = WithSlot
  BY DEF PoolInv, TimeOut, PoolTypeOK, sharedVars, Go, WithSlot, Steps, Asking
<1>2. Lent' = Lent
  BY DEF PoolInv, TimeOut, PoolTypeOK, Places, sharedVars, Receive, Lent
<1>3. Counts' /\ slots' \in 0 .. Maximum /\ used' \in 0 .. Maximum
  BY <1>1, <1>2, NoneMoves DEF PoolInv, TimeOut, Places, sharedVars, WithSlot
<1>4. idle' \in 0 .. Minimum /\ stale' \in 0 .. Minimum /\ idle' + stale' <= Minimum
  <2>1. idle' = idle /\ stale' = stale
    BY DEF TimeOut, sharedVars
  <2> QED
    BY <2>1, KeptConnections, Bounds DEF PoolInv
<1>5. PoolTypeOK'
  BY <1>3, <1>4 DEF PoolInv, TimeOut, PoolTypeOK, sharedVars, Go, Receive, Steps, Asking
<1>6. Places'
  BY <1>1, <1>4, NobodyAssumption
  DEF PoolInv, TimeOut, PoolTypeOK, Places, sharedVars, Go, Receive, WithSlot, Steps, Asking
<1> QED
  BY <1>3, <1>5, <1>6 DEF PoolInv

LEMMA TakeIdleKeeps ==
  ASSUME PoolInv, NEW t \in Threads, TakeIdle(t)
  PROVE  PoolInv'
<1>1. WithSlot' = WithSlot
  BY DEF PoolInv, TakeIdle, PoolTypeOK, sharedVars, Go, WithSlot, Steps, Asking
<1>2. Lent' = Lent \cup {t} /\ t \notin Lent
  BY DEF PoolInv, TakeIdle, PoolTypeOK, Places, sharedVars, Receive, Lent
<1>3. Counts' /\ slots' \in 0 .. Maximum /\ used' \in 0 .. Maximum
  BY <1>1, <1>2, Borrowed DEF PoolInv, TakeIdle, Places, sharedVars, WithSlot
<1>4. idle' \in 0 .. Minimum /\ stale' \in 0 .. Minimum /\ idle' + stale' <= Minimum
  <2>1. idle > 0 /\ idle' = idle - 1 /\ stale' = stale
    BY DEF TakeIdle
  <2> QED
    BY <2>1, KeptConnections, Bounds DEF PoolInv
<1>5. PoolTypeOK'
  BY <1>3, <1>4 DEF PoolInv, TakeIdle, PoolTypeOK, sharedVars, Go, Receive, Steps, Asking
<1>6. Places'
  BY <1>1, <1>4, NobodyAssumption
  DEF PoolInv, TakeIdle, PoolTypeOK, Places, sharedVars, Go, Receive, WithSlot, Steps, Asking
<1> QED
  BY <1>3, <1>5, <1>6 DEF PoolInv

LEMMA ConnectKeeps ==
  ASSUME PoolInv, NEW t \in Threads, Connect(t)
  PROVE  PoolInv'
<1>1. WithSlot' = WithSlot
  BY DEF PoolInv, Connect, PoolTypeOK, sharedVars, Go, WithSlot, Steps, Asking
<1>2. Lent' = Lent \cup {t} /\ t \notin Lent
  BY DEF PoolInv, Connect, PoolTypeOK, Places, sharedVars, Receive, Lent
<1>3. Counts' /\ slots' \in 0 .. Maximum /\ used' \in 0 .. Maximum
  BY <1>1, <1>2, Borrowed DEF PoolInv, Connect, Places, sharedVars, WithSlot
<1>4. idle' \in 0 .. Minimum /\ stale' \in 0 .. Minimum /\ idle' + stale' <= Minimum
  <2>1. idle' = idle /\ stale' = stale
    BY DEF Connect, sharedVars
  <2> QED
    BY <2>1, KeptConnections, Bounds DEF PoolInv
<1>5. PoolTypeOK'
  BY <1>3, <1>4 DEF PoolInv, Connect, PoolTypeOK, sharedVars, Go, Receive, Steps, Asking
<1>6. Places'
  BY <1>1, <1>4, NobodyAssumption
  DEF PoolInv, Connect, PoolTypeOK, Places, sharedVars, Go, Receive, WithSlot, Steps, Asking
<1> QED
  BY <1>3, <1>5, <1>6 DEF PoolInv

LEMMA GetFailsKeeps ==
  ASSUME PoolInv, NEW t \in Threads, GetFails(t)
  PROVE  PoolInv'
<1>1. WithSlot' = WithSlot
  BY DEF PoolInv, GetFails, PoolTypeOK, sharedVars, Go, WithSlot, Steps, Asking
<1>2. Lent' = Lent
  BY DEF PoolInv, GetFails, PoolTypeOK, Places, sharedVars, Receive, Lent
<1>3. Counts' /\ slots' \in 0 .. Maximum /\ used' \in 0 .. Maximum
  BY <1>1, <1>2, NoneMoves DEF PoolInv, GetFails, Places, sharedVars, WithSlot
<1>4. idle' \in 0 .. Minimum /\ stale' \in 0 .. Minimum /\ idle' + stale' <= Minimum
  <2>1. idle' = idle /\ stale' = stale
    BY DEF GetFails, sharedVars
  <2> QED
    BY <2>1, KeptConnections, Bounds DEF PoolInv
<1>5. PoolTypeOK'
  BY <1>3, <1>4 DEF PoolInv, GetFails, PoolTypeOK, sharedVars, Go, Receive, Steps, Asking
<1>6. Places'
  BY <1>1, <1>4, NobodyAssumption
  DEF PoolInv, GetFails, PoolTypeOK, Places, sharedVars, Go, Receive, WithSlot, Steps, Asking
<1> QED
  BY <1>3, <1>5, <1>6 DEF PoolInv

LEMMA TakeStaleKeeps ==
  ASSUME PoolInv, NEW t \in Threads, TakeStale(t)
  PROVE  PoolInv'
<1>1. WithSlot' = WithSlot
  BY DEF PoolInv, TakeStale, PoolTypeOK, sharedVars, Go, WithSlot, Steps, Asking
<1>2. Lent' = Lent \cup {t} /\ t \notin Lent
  BY DEF PoolInv, TakeStale, PoolTypeOK, Places, sharedVars, Receive, Lent
<1>3. Counts' /\ slots' \in 0 .. Maximum /\ used' \in 0 .. Maximum
  BY <1>1, <1>2, Borrowed DEF PoolInv, TakeStale, Places, sharedVars, WithSlot
<1>4. idle' \in 0 .. Minimum /\ stale' \in 0 .. Minimum /\ idle' + stale' <= Minimum
  <2>1. stale > 0 /\ stale' = stale - 1 /\ idle' = idle
    BY DEF TakeStale
  <2> QED
    BY <2>1, KeptConnections, Bounds DEF PoolInv
<1>5. PoolTypeOK'
  BY <1>3, <1>4 DEF PoolInv, TakeStale, PoolTypeOK, sharedVars, Go, Receive, Steps, Asking
<1>6. Places'
  BY <1>1, <1>4, NobodyAssumption
  DEF PoolInv, TakeStale, PoolTypeOK, Places, sharedVars, Go, Receive, WithSlot, Steps, Asking
<1> QED
  BY <1>3, <1>5, <1>6 DEF PoolInv

LEMMA DiscardKeeps ==
  ASSUME PoolInv, NEW t \in Threads, Discard(t)
  PROVE  PoolInv'
<1>1. WithSlot' = WithSlot
  BY DEF PoolInv, Discard, PoolTypeOK, sharedVars, Go, WithSlot, Steps, Asking
<1>2. Lent' = Lent \ {t} /\ t \in Lent
  BY DEF PoolInv, Discard, PoolTypeOK, Places, sharedVars, Receive, Lent
<1>3. Counts' /\ slots' \in 0 .. Maximum /\ used' \in 0 .. Maximum
  BY <1>1, <1>2, Returned DEF PoolInv, Discard, Places, sharedVars, WithSlot
<1>4. idle' \in 0 .. Minimum /\ stale' \in 0 .. Minimum /\ idle' + stale' <= Minimum
  <2>1. idle' = idle /\ stale' = stale
    BY DEF Discard, sharedVars
  <2> QED
    BY <2>1, KeptConnections, Bounds DEF PoolInv
<1>5. PoolTypeOK'
  BY <1>3, <1>4 DEF PoolInv, Discard, PoolTypeOK, sharedVars, Go, Receive, Steps, Asking
<1>6. Places'
  BY <1>1, <1>4, NobodyAssumption
  DEF PoolInv, Discard, PoolTypeOK, Places, sharedVars, Go, Receive, WithSlot, Steps, Asking
<1> QED
  BY <1>3, <1>5, <1>6 DEF PoolInv

LEMMA FailCheckoutKeeps ==
  ASSUME PoolInv, NEW t \in Threads, FailCheckout(t)
  PROVE  PoolInv'
<1>1. WithSlot' = WithSlot \ {t} /\ t \in WithSlot
  BY DEF PoolInv, FailCheckout, PoolTypeOK, sharedVars, Go, WithSlot, Steps, Asking
<1>2. Lent' = Lent
  BY DEF PoolInv, FailCheckout, PoolTypeOK, Places, sharedVars, Receive, Lent
<1>3. Counts' /\ slots' \in 0 .. Maximum /\ used' \in 0 .. Maximum
  BY <1>1, <1>2, SlotReturned DEF PoolInv, FailCheckout, Places, sharedVars, WithSlot
<1>4. idle' \in 0 .. Minimum /\ stale' \in 0 .. Minimum /\ idle' + stale' <= Minimum
  <2>1. idle' = idle /\ stale' = stale
    BY DEF FailCheckout, sharedVars
  <2> QED
    BY <2>1, KeptConnections, Bounds DEF PoolInv
<1>5. PoolTypeOK'
  BY <1>3, <1>4 DEF PoolInv, FailCheckout, PoolTypeOK, sharedVars, Go, Receive, Steps, Asking
<1>6. Places'
  BY <1>1, <1>4, NobodyAssumption
  DEF PoolInv, FailCheckout, PoolTypeOK, Places, sharedVars, Go, Receive, WithSlot, Steps, Asking
<1> QED
  BY <1>3, <1>5, <1>6 DEF PoolInv

LEMMA UseKeeps ==
  ASSUME PoolInv, NEW t \in Threads, Use(t)
  PROVE  PoolInv'
<1>1. WithSlot' = WithSlot
  BY DEF PoolInv, Use, PoolTypeOK, sharedVars, Go, WithSlot, Steps, Asking
<1>2. Lent' = Lent
  BY DEF PoolInv, Use, PoolTypeOK, Places, sharedVars, Receive, Lent
<1>3. Counts' /\ slots' \in 0 .. Maximum /\ used' \in 0 .. Maximum
  BY <1>1, <1>2, NoneMoves DEF PoolInv, Use, Places, sharedVars, WithSlot
<1>4. idle' \in 0 .. Minimum /\ stale' \in 0 .. Minimum /\ idle' + stale' <= Minimum
  <2>1. idle' = idle /\ stale' = stale
    BY DEF Use, sharedVars
  <2> QED
    BY <2>1, KeptConnections, Bounds DEF PoolInv
<1>5. PoolTypeOK'
  BY <1>3, <1>4 DEF PoolInv, Use, PoolTypeOK, sharedVars, Go, Receive, Steps, Asking
<1>6. Places'
  BY <1>1, <1>4, NobodyAssumption
  DEF PoolInv, Use, PoolTypeOK, Places, sharedVars, Go, Receive, WithSlot, Steps, Asking
<1> QED
  BY <1>3, <1>5, <1>6 DEF PoolInv

LEMMA PutBackKeeps ==
  ASSUME PoolInv, NEW t \in Threads, PutBack(t)
  PROVE  PoolInv'
<1>1. WithSlot' = WithSlot
  BY DEF PoolInv, PutBack, PoolTypeOK, sharedVars, Go, WithSlot, Steps, Asking
<1>2. Lent' = Lent \ {t} /\ t \in Lent
  BY DEF PoolInv, PutBack, PoolTypeOK, Places, sharedVars, Receive, Lent
<1>3. Counts' /\ slots' \in 0 .. Maximum /\ used' \in 0 .. Maximum
  BY <1>1, <1>2, Returned DEF PoolInv, PutBack, Places, sharedVars, WithSlot
<1>4. idle' \in 0 .. Minimum /\ stale' \in 0 .. Minimum /\ idle' + stale' <= Minimum
  <2>1. stale' = stale /\ (idle' = idle \/ (idle + stale < Minimum /\ idle' = idle + 1))
    BY DEF PutBack
  <2> QED
    BY <2>1, KeptConnections, Bounds DEF PoolInv
<1>5. PoolTypeOK'
  BY <1>3, <1>4 DEF PoolInv, PutBack, PoolTypeOK, sharedVars, Go, Receive, Steps, Asking
<1>6. Places'
  BY <1>1, <1>4, NobodyAssumption
  DEF PoolInv, PutBack, PoolTypeOK, Places, sharedVars, Go, Receive, WithSlot, Steps, Asking
<1> QED
  BY <1>3, <1>5, <1>6 DEF PoolInv

LEMMA ReleaseSlotKeeps ==
  ASSUME PoolInv, NEW t \in Threads, ReleaseSlot(t)
  PROVE  PoolInv'
<1>1. WithSlot' = WithSlot \ {t} /\ t \in WithSlot
  BY DEF PoolInv, ReleaseSlot, PoolTypeOK, sharedVars, Go, WithSlot, Steps, Asking
<1>2. Lent' = Lent
  BY DEF PoolInv, ReleaseSlot, PoolTypeOK, Places, sharedVars, Receive, Lent
<1>3. Counts' /\ slots' \in 0 .. Maximum /\ used' \in 0 .. Maximum
  BY <1>1, <1>2, SlotReturned DEF PoolInv, ReleaseSlot, Places, sharedVars, WithSlot
<1>4. idle' \in 0 .. Minimum /\ stale' \in 0 .. Minimum /\ idle' + stale' <= Minimum
  <2>1. idle' = idle /\ stale' = stale
    BY DEF ReleaseSlot, sharedVars
  <2> QED
    BY <2>1, KeptConnections, Bounds DEF PoolInv
<1>5. PoolTypeOK'
  BY <1>3, <1>4 DEF PoolInv, ReleaseSlot, PoolTypeOK, sharedVars, Go, Receive, Steps, Asking
<1>6. Places'
  BY <1>1, <1>4, NobodyAssumption
  DEF PoolInv, ReleaseSlot, PoolTypeOK, Places, sharedVars, Go, Receive, WithSlot, Steps, Asking
<1> QED
  BY <1>3, <1>5, <1>6 DEF PoolInv

LEMMA IdleClosesKeeps ==
  ASSUME PoolInv, IdleCloses
  PROVE  PoolInv'
<1>1. WithSlot' = WithSlot /\ Lent' = Lent
  BY DEF IdleCloses, WithSlot, Lent
<1>2. Counts' /\ slots' \in 0 .. Maximum /\ used' \in 0 .. Maximum
  BY <1>1, NoneMoves DEF IdleCloses
<1>3. idle' \in 0 .. Minimum /\ stale' \in 0 .. Minimum /\ idle' + stale' <= Minimum
  <2>1. idle > 0 /\ idle' = idle - 1 /\ stale' = stale + 1
    BY DEF IdleCloses
  <2> QED
    BY <2>1, KeptConnections, Bounds DEF PoolInv
<1>4. PoolTypeOK'
  BY <1>2, <1>3 DEF PoolInv, IdleCloses, PoolTypeOK
<1>5. published
  <2>1. idle > 0
    BY DEF IdleCloses
  <2>2. ~published => idle = 0
    BY DEF PoolInv, Places
  <2> QED
    BY <2>1, <2>2
<1>6. Places'
  BY <1>1, <1>3, <1>5 DEF PoolInv, IdleCloses, Places
<1> QED
  BY <1>2, <1>4, <1>6 DEF PoolInv

\* A step leaves the invariant true or does not touch the pool.
LEMMA PoolInvNext ==
  ASSUME PoolInv, [PoolNext]_poolVars
  PROVE  PoolInv'
<1>1. ASSUME NEW t \in Threads, Ask(t) \/ Lock(t) \/ Checkout(t) \/ Use(t) \/ GiveBack(t)
      PROVE  PoolInv'
  BY <1>1, AskKeeps, LockKeeps, BuildKeeps, BuildFailsKeeps, PublishSlotsKeeps, PublishPoolKeeps,
     AcquireSlotKeeps, TimeOutKeeps, TakeIdleKeeps, ConnectKeeps, GetFailsKeeps, TakeStaleKeeps,
     DiscardKeeps, FailCheckoutKeeps, UseKeeps, PutBackKeeps, ReleaseSlotKeeps
  DEF Checkout, GiveBack
<1>2. CASE IdleCloses
  BY <1>2, IdleClosesKeeps
<1>3. CASE UNCHANGED poolVars
  BY <1>3 DEF poolVars, sharedVars, PoolInv, PoolTypeOK, Places, Counts, WithSlot, Lent
<1> QED
  BY <1>1, <1>2, <1>3 DEF PoolNext

-----------------------------------------------------------------------------
\* The theorems

LEMMA PoolInvariant == PoolSpec => []PoolInv
<1>1. PoolInv /\ [PoolNext]_poolVars => PoolInv'
  BY PoolInvNext
<1> QED
  BY <1>1, PoolInvInit, PTL DEF PoolSpec

LEMMA PoolInvExhausted ==
  ASSUME PoolInv
  PROVE  NeverExhausted
<1> SUFFICES ASSUME NEW t \in Threads, pc[t] = "getting"
             PROVE  used < Maximum
  BY DEF NeverExhausted
<1>1. t \in WithSlot /\ t \notin Lent /\ made
  BY DEF PoolInv, Places, WithSlot, Lent
<1>2. Cardinality(Lent) < Cardinality(WithSlot)
  BY <1>1, Counted DEF PoolInv
<1>3. Cardinality(Lent) \in Nat /\ Cardinality(WithSlot) \in Nat
  BY Counted DEF PoolInv
<1>4. slots + Cardinality(WithSlot) = Maximum /\ used = Cardinality(Lent)
  BY <1>1 DEF PoolInv, Counts
<1>5. slots \in Nat
  BY Bounds DEF PoolInv, PoolTypeOK
<1> QED
  BY <1>2, <1>3, <1>4, <1>5, Bounds

\* The semaphore and the library's pool keep their bounds, and every thread
\* is where the code can be.
THEOREM PoolTypes == PoolSpec => []PoolTypeOK
<1>1. PoolInv => PoolTypeOK
  BY DEF PoolInv
<1> QED
  BY <1>1, PoolInvariant, PTL

\* No failed checkout, discarded connection or return leaks a slot or gives
\* one back twice (get_connection and return_connection).
THEOREM SlotsAlwaysBalance == PoolSpec => []SlotsBalance
<1>1. PoolInv => SlotsBalance
  BY DEF PoolInv, Counts, Places, SlotsBalance
<1> QED
  BY <1>1, PoolInvariant, PTL

\* A thread with a slot never finds the library's pool exhausted
\* (get_connection: getconn after the semaphore).
THEOREM NeverFoundExhausted == PoolSpec => []NeverExhausted
<1>1. PoolInv => NeverExhausted
  BY PoolInvExhausted
<1> QED
  BY <1>1, PoolInvariant, PTL

-----------------------------------------------------------------------------
\* One pool, and no more connections than it may have

\* Connections lent, kept, and kept though closed
Connections == idle + stale + used

LEMMA ConnectionsStep ==
  ASSUME PoolInv, Connections <= Maximum, [PoolNext]_poolVars
  PROVE  Connections' <= Maximum
<1>1. /\ idle \in Nat /\ stale \in Nat /\ used \in Nat /\ Minimum \in Nat /\ Maximum \in Nat
      /\ Minimum <= Maximum
  BY Bounds, BoundsAssumption DEF PoolInv, PoolTypeOK
<1>2. ASSUME UNCHANGED <<idle, stale, used>> PROVE Connections' <= Maximum
  BY <1>2 DEF Connections
<1>3. ASSUME NEW t \in Threads, Ask(t) \/ Lock(t) \/ Use(t) PROVE UNCHANGED <<idle, stale, used>>
  BY <1>3 DEF Ask, Lock, Use, sharedVars
<1>4. ASSUME NEW t \in Threads,
             Build(t) \/ BuildFails(t) \/ PublishSlots(t) \/ AcquireSlot(t) \/ TimeOut(t)
               \/ GetFails(t) \/ FailCheckout(t) \/ ReleaseSlot(t)
      PROVE  UNCHANGED <<idle, stale, used>>
  BY <1>4 DEF Build, BuildFails, PublishSlots, AcquireSlot, TimeOut, GetFails, FailCheckout,
     ReleaseSlot, sharedVars
<1>5. ASSUME NEW t \in Threads, PublishPool(t) PROVE Connections' <= Maximum
  <2>1. idle' = Minimum /\ stale' = 0 /\ used' = 0
    BY <1>5 DEF PublishPool
  <2> QED
    BY <1>1, <2>1 DEF Connections
<1>6. ASSUME NEW t \in Threads, TakeIdle(t) \/ TakeStale(t) PROVE Connections' = Connections
  <2>1. /\ used' = used + 1
        /\ (idle' = idle - 1 /\ stale' = stale) \/ (idle' = idle /\ stale' = stale - 1)
    BY <1>6 DEF TakeIdle, TakeStale
  <2> QED
    BY <1>1, <2>1 DEF Connections
<1>7. ASSUME NEW t \in Threads, Connect(t) PROVE Connections' <= Maximum
  <2>1. idle + stale = 0 /\ used < Maximum /\ used' = used + 1 /\ idle' = idle /\ stale' = stale
    BY <1>7 DEF Connect
  <2> QED
    BY <1>1, <2>1 DEF Connections
<1>8. ASSUME NEW t \in Threads, Discard(t) \/ PutBack(t) PROVE Connections' <= Connections
  <2>1. used' = used - 1 /\ stale' = stale /\ (idle' = idle \/ idle' = idle + 1)
    BY <1>8 DEF Discard, PutBack
  <2> QED
    BY <1>1, <2>1 DEF Connections
<1>9. ASSUME IdleCloses PROVE Connections' = Connections
  <2>1. idle' = idle - 1 /\ stale' = stale + 1 /\ used' = used
    BY <1>9 DEF IdleCloses
  <2> QED
    BY <1>1, <2>1 DEF Connections
<1>10. CASE UNCHANGED poolVars
  BY <1>2, <1>10 DEF poolVars, sharedVars
<1>11. Connections \in Nat
  BY <1>1 DEF Connections
<1>12. ASSUME Connections' <= Connections \/ Connections' = Connections PROVE Connections' <= Maximum
  <2>1. Connections' \in Int
    BY PoolInvNext DEF PoolInv, PoolTypeOK, Connections
  <2> QED
    BY <1>1, <1>11, <1>12, <2>1
<1> QED
  BY <1>2, <1>3, <1>4, <1>5, <1>6, <1>7, <1>8, <1>9, <1>10, <1>12 DEF PoolNext, Checkout, GiveBack

\* The server never has more connections to the database than DB_POOL_MAX,
\* those it keeps for later included (_get_connection_pool, get_connection,
\* return_connection).
THEOREM ConnectionsAreBounded == PoolSpec => [](Connections <= Maximum)
<1>1. PoolInit => Connections <= Maximum
  BY BoundsAssumption DEF PoolInit, Connections
<1>2. PoolInv /\ Connections <= Maximum /\ [PoolNext]_poolVars => (Connections <= Maximum)'
  BY ConnectionsStep
<1> QED
  BY <1>1, <1>2, PoolInvariant, PTL DEF PoolSpec

Building == {t \in Threads : pc[t] \in {"building", "publishing slots", "publishing pool"}}

\* Two threads never build the pool, together or one after another: nobody
\* builds where there is one (_get_connection_pool looks twice).
THEOREM BuiltOnce ==
  PoolSpec => [](published => Building = {}) /\ [](\A t, u \in Building : t = u)
<1>1. PoolInv => (published => Building = {}) /\ \A t, u \in Building : t = u
  BY DEF PoolInv, Places, Building
<1> QED
  BY <1>1, PoolInvariant, PTL

-----------------------------------------------------------------------------
\* The pool implements BoundedBorrowing, as far as safety goes

Waiting == {t \in Threads : pc[t] \in Asking}
Holding == {t \in Threads : pc[t] \in {"holding", "putting"}}

LEMMA HoldingBounded ==
  ASSUME PoolInv, NEW t \in Threads, pc[t] = "getting"
  PROVE  Cardinality(Holding) < Maximum
<1>1. Holding \subseteq Lent
  BY DEF Holding, Lent, PoolInv, Places
<1>2. IsFiniteSet(Lent) /\ Cardinality(Lent) \in Nat /\ used = Cardinality(Lent)
  BY Counted DEF PoolInv, Counts
<1>3. IsFiniteSet(Holding) /\ Cardinality(Holding) <= Cardinality(Lent)
  BY <1>1, <1>2, FS_Subset
<1>4. Cardinality(Holding) \in Nat
  BY <1>3, FS_CardinalityType
<1>5. used < Maximum
  BY PoolInvExhausted DEF NeverExhausted
<1> QED
  BY <1>2, <1>3, <1>4, <1>5, Bounds

\* What a step of one thread does to the two sets
LEMMA OneGoes ==
  ASSUME PoolTypeOK, NEW t \in Threads, NEW s \in Steps, Go(t, s)
  PROVE  /\ pc[t] = "away" /\ s \in Asking
              => t \notin Waiting \cup Holding /\ Waiting' = Waiting \cup {t} /\ Holding' = Holding
         /\ pc[t] \in Asking /\ s \in Asking => Waiting' = Waiting /\ Holding' = Holding
         /\ pc[t] \in Asking /\ s \in {"away", "releasing"}
              => t \in Waiting /\ Waiting' = Waiting \ {t} /\ Holding' = Holding
         /\ pc[t] \in Asking /\ s = "holding"
              => t \in Waiting /\ Waiting' = Waiting \ {t} /\ Holding' = Holding \cup {t}
         /\ pc[t] = "holding" /\ s = "putting" => Waiting' = Waiting /\ Holding' = Holding
         /\ pc[t] = "putting" /\ s = "releasing"
              => t \in Holding /\ Waiting' = Waiting /\ Holding' = Holding \ {t}
         /\ pc[t] = "releasing" /\ s = "away" => Waiting' = Waiting /\ Holding' = Holding
<1>1. \A u \in Threads : pc'[u] = IF u = t THEN s ELSE pc[u]
  BY DEF PoolTypeOK, Go
<1>2. Asking \cap {"away", "holding", "putting", "releasing"} = {}
  BY DEF Asking
<1> QED
  BY <1>1, <1>2 DEF Waiting, Holding

LEMMA BorrowingStep ==
  ASSUME PoolInv, [PoolNext]_poolVars
  PROVE  Borrowing!Next \/ (Waiting' = Waiting /\ Holding' = Holding)
<1>0. PoolTypeOK
  BY DEF PoolInv
<1>1. ASSUME NEW t \in Threads, Ask(t) PROVE Borrowing!Ask(t)
  <2>1. \E s \in Asking : Go(t, s)
    BY <1>1 DEF Ask, Asking
  <2>2. t \notin Waiting \cup Holding /\ Waiting' = Waiting \cup {t} /\ Holding' = Holding
    BY <1>0, <1>1, <2>1, OneGoes DEF Ask, Steps
  <2> QED
    BY <2>2 DEF Borrowing!Ask, Waiting, Holding
<1>2. ASSUME NEW t \in Threads,
             Lock(t) \/ Build(t) \/ PublishSlots(t) \/ PublishPool(t) \/ AcquireSlot(t)
               \/ GetFails(t) \/ TakeStale(t) \/ Discard(t)
      PROVE  Waiting' = Waiting /\ Holding' = Holding
  <2>1. pc[t] \in Asking /\ \E s \in Asking : Go(t, s)
    BY <1>2 DEF Lock, Build, PublishSlots, PublishPool, AcquireSlot, GetFails, TakeStale, Discard,
       Asking
  <2> QED
    BY <1>0, <2>1, OneGoes DEF Steps
<1>3. ASSUME NEW t \in Threads, BuildFails(t) \/ TimeOut(t) \/ FailCheckout(t)
      PROVE  Borrowing!Refuse(t)
  <2>1. pc[t] \in Asking /\ Go(t, "away")
    BY <1>3 DEF BuildFails, TimeOut, FailCheckout, Asking
  <2>2. t \in Waiting /\ Waiting' = Waiting \ {t} /\ Holding' = Holding
    BY <1>0, <2>1, OneGoes DEF Steps
  <2> QED
    BY <2>2 DEF Borrowing!Refuse, Waiting, Holding
<1>4. ASSUME NEW t \in Threads, TakeIdle(t) \/ Connect(t)
      PROVE  Borrowing!Lend(t)
  <2>1. pc[t] = "getting" /\ pc[t] \in Asking /\ Go(t, "holding")
    BY <1>4 DEF TakeIdle, Connect, Asking
  <2>2. t \in Waiting /\ Waiting' = Waiting \ {t} /\ Holding' = Holding \cup {t}
    BY <1>0, <2>1, OneGoes DEF Steps
  <2>3. Cardinality(Holding) < Maximum
    BY <2>1, HoldingBounded
  <2>4. Borrowing!Cardinality(Holding) = Cardinality(Holding)
    BY DEF Cardinality, Borrowing!Cardinality
  <2> QED
    BY <2>2, <2>3, <2>4, Zenon DEF Borrowing!Lend, Waiting, Holding
<1>5. ASSUME NEW t \in Threads, Use(t) \/ ReleaseSlot(t)
      PROVE  Waiting' = Waiting /\ Holding' = Holding
  <2>1. \/ pc[t] = "holding" /\ Go(t, "putting")
        \/ pc[t] = "releasing" /\ Go(t, "away")
    BY <1>5 DEF Use, ReleaseSlot
  <2> QED
    BY <1>0, <2>1, OneGoes DEF Steps
<1>6. ASSUME NEW t \in Threads, PutBack(t)
      PROVE  Borrowing!GiveBack(t)
  <2>1. pc[t] = "putting" /\ Go(t, "releasing")
    BY <1>6 DEF PutBack
  <2>2. t \in Holding /\ Waiting' = Waiting /\ Holding' = Holding \ {t}
    BY <1>0, <2>1, OneGoes DEF Steps
  <2> QED
    BY <2>2 DEF Borrowing!GiveBack, Waiting, Holding
<1>7. CASE IdleCloses \/ UNCHANGED poolVars
  BY <1>7 DEF IdleCloses, poolVars, Waiting, Holding
<1> QED
  BY <1>1, <1>2, <1>3, <1>4, <1>5, <1>6, <1>7
  DEF PoolNext, Checkout, GiveBack, Borrowing!Next, Borrowing!Answer

\* At most Maximum connections are out at a time, each lent to a thread that
\* asked and back before that thread asks again: what a step of the pool does
\* to askers and borrowers is a step of BoundedBorrowing or nothing.
THEOREM BorrowingIsBounded ==
  PoolSpec => Borrowing!Init /\ [][Borrowing!Next]_(Borrowing!vars)
<1>1. PoolInit => Borrowing!Init
  BY DEF PoolInit, Borrowing!Init, Asking
<1>2. PoolInv /\ [PoolNext]_poolVars => [Borrowing!Next]_(Borrowing!vars)
  BY BorrowingStep DEF Borrowing!vars, Waiting, Holding
<1> QED
  BY <1>1, <1>2, PoolInvariant, PTL DEF PoolSpec
=============================================================================
