------------------------- MODULE StorageNodeProofs -------------------------
(***************************************************************************)
(* Entries and copies of StorageNode, for any number of readers and copies *)
(* under way, any TTLs, clock and delay: nothing but DELETE removes a live *)
(* entry, an expired one goes in time, and a copy with a TTL outlives its  *)
(* entry by no more than it was under way.  The detector's window counts   *)
(* exactly the accesses in it.                                             *)
(***************************************************************************)
EXTENDS StorageNode, SortingProofs

\* What an entry's time left can be, at the node and at the peer.
Left     == {l \in Lefts : l # Never => l >= Forgotten}
CopyLeft == {l \in Lefts : l # Never => l >= Expired}

Reader == {Idle} \cup [pc : {"check", "evict", "hit"}, seen : Left]

(***************************************************************************)
(* A copy under way with a TTL comes from an entry with a deadline, and    *)
(* that deadline is no earlier than the copy's own would have been, had it *)
(* arrived at once.                                                        *)
(***************************************************************************)
KeepsDeadline(m) ==
  ExpiresAfter(m.seconds) # Never =>
    m.deadline \in Int /\ m.deadline >= ExpiresAfter(m.seconds) - m.age

Parcel ==
  [type : {"copy", "delete"}, seconds : Int, deadline : Lefts,
   age : 0 .. MaxDelay]

\* The peer's copy and the entry it was made of.
CopyBound ==
  copy \in Int /\ copy > Expired =>
    deadline \in Int /\ deadline >= copy - MaxDelay

(***************************************************************************)
(* The inductive invariant.  CopyLifetime says nothing of the copies under *)
(* way; and that the deadline is not earlier than -MaxDelay follows only   *)
(* from how far it is ahead of the copy's.                                 *)
(***************************************************************************)
LifetimeInv ==
  /\ item \in Left \cup {NoItem}
  /\ readers \in [Readers -> Reader]
  /\ net \subseteq Parcel
  /\ \A m \in net : m.type = "copy" => KeepsDeadline(m)
  /\ copy \in CopyLeft \cup {NoItem}
  /\ deadline \in Lefts
  /\ CopyBound

-----------------------------------------------------------------------------
(* TTLs. *)

\* A whole number of seconds is at least a tick, and anything less is none.
LEMMA TTLType ==
  ASSUME NEW s \in Int
  PROVE  /\ s > 0 => ExpiresAfter(s) \in Nat \ {0}
         /\ s <= 0 => ExpiresAfter(s) = Never
  BY NodeAssumption DEF ExpiresAfter

\* Rounding down: the seconds that are left are no longer than the time left.
LEMMA RoundedDown ==
  ASSUME NEW l \in Left
  PROVE  /\ TTLRemaining(l) \in Int
         /\ TTLRemaining(l) > 0 =>
              l \in Int /\ ExpiresAfter(TTLRemaining(l)) <= l
<1>1. TicksPerSecond \in Nat \ {0} /\ Never \notin Int
  BY NodeAssumption
<1>2. CASE l = Never
  BY <1>2 DEF TTLRemaining
<1>3. CASE l # Never /\ l <= 0
  BY <1>3 DEF TTLRemaining, Left, Lefts
<1>4. CASE l # Never /\ l > 0
  <2>1. l \in Int /\ TTLRemaining(l) = l \div TicksPerSecond
    BY <1>4 DEF TTLRemaining, Left, Lefts
  <2>2. /\ l \div TicksPerSecond \in Int
        /\ (l \div TicksPerSecond) * TicksPerSecond <= l
    BY <1>1, <1>4, <2>1, SMTT(30)
  <2> QED
    BY <2>1, <2>2 DEF ExpiresAfter
<1> QED
  BY <1>2, <1>3, <1>4 DEF Left, Lefts

\* A copy of an entry of which l is left, made with that many seconds.
LEMMA CopyMade ==
  ASSUME NEW l \in Left
  PROVE  LET m == Copy(TTLRemaining(l), l)
         IN  m \in Parcel /\ KeepsDeadline(m)
<1> DEFINE m == Copy(TTLRemaining(l), l)
<1>1. MaxDelay \in Nat
  BY NodeAssumption
<1>2. /\ m.seconds = TTLRemaining(l) /\ m.deadline = l /\ m.age = 0
      /\ m \in Parcel
  BY <1>1, RoundedDown DEF Copy, Parcel, Left
<1>3. KeepsDeadline(m)
  <2> HIDE DEF m
  <2>1. CASE TTLRemaining(l) > 0
    BY <1>2, <2>1, RoundedDown, TTLType DEF KeepsDeadline
  <2>2. CASE ~(TTLRemaining(l) > 0)
    BY <1>2, <2>2, RoundedDown, TTLType DEF KeepsDeadline
  <2> QED
    BY <2>1, <2>2
<1> QED
  BY <1>2, <1>3

\* A new entry and its copy agree.
LEMMA EntryMade ==
  ASSUME NEW s \in TTLs
  PROVE  LET m == Copy(s, ExpiresAfter(s))
         IN  ExpiresAfter(s) \in Left /\ m \in Parcel /\ KeepsDeadline(m)
<1> DEFINE m == Copy(s, ExpiresAfter(s))
<1>1. MaxDelay \in Nat /\ s \in Int /\ Never \notin Int
  BY NodeAssumption
<1>2. ExpiresAfter(s) \in Left
  BY <1>1, TTLType, NodeAssumption DEF Left, Lefts, Forgotten
<1>3. /\ m.seconds = s /\ m.deadline = ExpiresAfter(s) /\ m.age = 0
      /\ m \in Parcel
  BY <1>1, <1>2 DEF Copy, Parcel, Left
<1>4. KeepsDeadline(m)
  <2> HIDE DEF m
  <2> QED
    BY <1>1, <1>3, TTLType DEF KeepsDeadline
<1> QED
  BY <1>2, <1>3, <1>4

-----------------------------------------------------------------------------
LEMMA InitLifetime == Init => LifetimeInv
<1> SUFFICES ASSUME Init PROVE LifetimeInv
  OBVIOUS
<1> USE NodeAssumption DEF Init
<1>1. readers \in [Readers -> Reader]
  BY DEF Reader
<1>2. net \subseteq Parcel /\ \A m \in net : m.type = "copy" => KeepsDeadline(m)
  OBVIOUS
<1>3. CopyBound
  BY DEF CopyBound
<1> QED
  BY <1>1, <1>2, <1>3 DEF LifetimeInv, Lefts

LEMMA NextLifetime == LifetimeInv /\ [Next]_vars => LifetimeInv'
<1> SUFFICES ASSUME LifetimeInv, [Next]_vars PROVE LifetimeInv'
  OBVIOUS
<1> USE NodeAssumption DEF LifetimeInv
\* Sending a parcel keeps what is said of the network.
<1>s. ASSUME NEW m \in Parcel, m.type = "copy" => KeepsDeadline(m), Send(m)
      PROVE  /\ net' \subseteq Parcel
             /\ \A p \in net' : p.type = "copy" => KeepsDeadline(p)
  BY <1>s DEF Send
\* With the peer's copy and the network unchanged, entry and readers matter.
<1>p. ASSUME UNCHANGED <<copy, deadline>>
      PROVE  /\ copy' \in CopyLeft \cup {NoItem}
             /\ deadline' \in Lefts
             /\ CopyBound'
  BY <1>p DEF CopyBound
<1>1. ASSUME NEW s \in TTLs, handleSet(s) PROVE LifetimeInv'
  <2>1. /\ net' \subseteq Parcel
        /\ \A p \in net' : p.type = "copy" => KeepsDeadline(p)
    BY <1>1, <1>s, EntryMade DEF handleSet
  <2>2. item' \in Left \cup {NoItem} /\ readers' \in [Readers -> Reader]
    BY <1>1, EntryMade DEF handleSet
  <2> QED
    BY <1>1, <1>p, <2>1, <2>2 DEF handleSet
<1>2. ASSUME handleDelete PROVE LifetimeInv'
  <2> DEFINE m == [type |-> "delete", seconds |-> 0, deadline |-> Never,
                   age |-> 0]
  <2>1. m \in Parcel /\ m.type # "copy"
    BY DEF Parcel, Lefts
  <2>2. Send(m)
    BY <1>2 DEF handleDelete
  <2> HIDE DEF m
  <2>3. /\ net' \subseteq Parcel
        /\ \A p \in net' : p.type = "copy" => KeepsDeadline(p)
    BY <1>s, <2>1, <2>2
  <2> QED
    BY <1>2, <1>p, <2>3 DEF handleDelete
<1>3. ASSUME NEW r \in Readers,
             GetLookup(r) \/ GetCheck(r) \/ GetEvict(r) \/ GetHit(r)
      PROVE  LifetimeInv'
  <2>0. readers[r] \in Reader
    OBVIOUS
  <2>1. CASE GetLookup(r)
    <3>1. [pc |-> "check", seen |-> item] \in Reader
      BY <2>1 DEF GetLookup, Reader
    <3>2. readers' \in [Readers -> Reader]
      BY <2>1, <3>1 DEF GetLookup
    <3> QED
      BY <2>1, <3>2, <1>p DEF GetLookup, cacheVars, peerVars
  <2>2. CASE GetCheck(r)
    <3>1. readers[r].seen \in Left
      BY <2>0, <2>2 DEF GetCheck, Reader, Idle
    <3>2. \E pc \in {"evict", "hit"} :
            readers' = [readers EXCEPT ![r].pc = pc]
      BY <2>2 DEF GetCheck
    <3>3. PICK pc \in {"evict", "hit"} :
            readers' = [readers EXCEPT ![r].pc = pc]
      BY <3>2
    <3>4. [readers[r] EXCEPT !.pc = pc] \in Reader
      BY <2>0, <2>2, <3>1 DEF GetCheck, Reader, Idle
    <3>5. readers' \in [Readers -> Reader]
      BY <3>3, <3>4
    <3> QED
      BY <2>2, <3>5, <1>p DEF GetCheck, cacheVars, peerVars
  <2>3. CASE GetEvict(r)
    BY <2>3, <1>p DEF GetEvict, peerVars, Reader
  <2>4. CASE GetHit(r)
    <3>1. readers[r].seen \in Left
      BY <2>0, <2>4 DEF GetHit, Reader, Idle
    <3>2. /\ net' \subseteq Parcel
          /\ \A p \in net' : p.type = "copy" => KeepsDeadline(p)
      BY <2>4, <3>1, <1>s, CopyMade DEF GetHit
    <3> QED
      BY <2>4, <3>2, <1>p DEF GetHit, cacheVars, Reader
  <2> QED
    BY <1>3, <2>1, <2>2, <2>3, <2>4
<1>4. ASSUME DumpLocalKeys PROVE LifetimeInv'
  <2>1. item \in Left
    BY <1>4 DEF DumpLocalKeys
  <2>2. /\ net' \subseteq Parcel
        /\ \A p \in net' : p.type = "copy" => KeepsDeadline(p)
    BY <1>4, <2>1, <1>s, CopyMade DEF DumpLocalKeys
  <2> QED
    BY <1>4, <2>2, <1>p DEF DumpLocalKeys, cacheVars
<1>5. ASSUME NEW m \in net, Deliver(m) PROVE LifetimeInv'
  <2>0. m \in Parcel
    OBVIOUS
  <2>1. CASE m.type = "copy" /\ StoreCopy(m)
    <3>1. /\ m.seconds \in Int /\ m.age \in 0 .. MaxDelay
          /\ m.deadline \in Lefts /\ KeepsDeadline(m)
      BY <2>0, <2>1 DEF Parcel
    <3>2. copy' = ExpiresAfter(m.seconds) /\ deadline' = m.deadline
      BY <2>1 DEF StoreCopy
    <3>3. copy' \in CopyLeft
      BY <3>1, <3>2, TTLType DEF CopyLeft, Lefts, Expired
    <3>4. CopyBound'
      BY <3>1, <3>2, TTLType DEF CopyBound, KeepsDeadline
    <3> QED
      BY <1>5, <3>1, <3>2, <3>3, <3>4 DEF Deliver, cacheVars
  <2>2. CASE copy' = NoItem /\ deadline' = Never
    BY <1>5, <2>2 DEF Deliver, cacheVars, CopyBound, Lefts
  <2> QED
    BY <1>5, <2>1, <2>2 DEF Deliver
<1>6. ASSUME NEW m \in net, Lose(m) PROVE LifetimeInv'
  BY <1>6, <1>p DEF Lose, cacheVars
<1>7. ASSUME DropCopy PROVE LifetimeInv'
  BY <1>7 DEF DropCopy, cacheVars, CopyBound, Lefts
<1>8. ASSUME Tick PROVE LifetimeInv'
  <2>0. ASSUME NEW l \in CopyLeft
        PROVE  Earlier(l, Expired) \in CopyLeft
    BY <2>0 DEF Earlier, CopyLeft, Lefts, Expired
  <2>1. ASSUME NEW l \in Left
        PROVE  Earlier(l, Forgotten) \in Left
    BY <2>1 DEF Earlier, Left, Lefts, Forgotten
  <2>2. ASSUME NEW l \in Lefts
        PROVE  Earlier(l, Overdue) \in Lefts
    BY <2>2 DEF Earlier, Lefts, Overdue
  <2>3. item' \in Left \cup {NoItem} /\ copy' \in CopyLeft \cup {NoItem}
    BY <1>8, <2>0, <2>1 DEF Tick
  <2>4. readers' \in [Readers -> Reader]
    <3>1. ASSUME NEW r \in Readers, readers[r] # Idle
          PROVE  [readers[r] EXCEPT !.seen = Earlier(@, Forgotten)] \in Reader
      BY <2>1, <3>1 DEF Reader
    <3> QED
      BY <1>8, <3>1 DEF Tick, Reader
  <2>5. deadline' \in Lefts
    BY <1>8, <2>2 DEF Tick
  <2>6. CopyBound'
    <3> SUFFICES ASSUME copy' \in Int, copy' > Expired
                 PROVE  deadline' \in Int /\ deadline' >= copy' - MaxDelay
      BY DEF CopyBound
    <3>0. /\ copy' = IF copy = NoItem THEN copy ELSE Earlier(copy, Expired)
          /\ deadline' = Earlier(deadline, Overdue)
      BY <1>8 DEF Tick
    <3>1. copy \in Int /\ copy > 0 /\ copy' = copy - 1
      BY <3>0 DEF Earlier, CopyLeft, Lefts, Expired
    <3>2. deadline \in Int /\ deadline >= copy - MaxDelay
      BY <3>1 DEF CopyBound, Expired
    <3>3. deadline' = deadline - 1
      BY <3>0, <3>1, <3>2 DEF Earlier, Overdue
    <3> QED
      BY <3>1, <3>2, <3>3
  <2>7. ASSUME NEW p \in net'
        PROVE  p \in Parcel /\ (p.type = "copy" => KeepsDeadline(p))
    <3>1. PICK m \in net :
            p = [m EXCEPT !.age = @ + 1, !.deadline = Earlier(@, Overdue)]
      BY <1>8 DEF Tick
    <3>a. m.age < MaxDelay
      BY <1>8 DEF Tick
    <3>2. m \in Parcel /\ m.age + 1 \in 0 .. MaxDelay
      BY <3>a DEF Parcel
    <3>3. /\ p \in Parcel /\ p.type = m.type /\ p.seconds = m.seconds
          /\ p.age = m.age + 1 /\ p.deadline = Earlier(m.deadline, Overdue)
      BY <2>2, <3>1, <3>2 DEF Parcel
    <3>4. ASSUME p.type = "copy", ExpiresAfter(p.seconds) # Never
          PROVE  p.deadline \in Int
                   /\ p.deadline >= ExpiresAfter(p.seconds) - p.age
      <4>1. m.deadline \in Int /\ m.deadline >= ExpiresAfter(m.seconds) - m.age
        BY <3>3, <3>4 DEF KeepsDeadline
      <4>2. ExpiresAfter(m.seconds) \in Nat \ {0}
        BY <3>2, <3>3, <3>4, TTLType DEF Parcel
      <4>3. m.age \in 0 .. MaxDelay
        BY <3>2 DEF Parcel
      <4>4. p.deadline = m.deadline - 1
        BY <3>3, <4>1, <4>2, <4>3 DEF Earlier, Overdue
      <4> QED
        BY <3>3, <4>1, <4>2, <4>3, <4>4
    <3> QED
      BY <3>3, <3>4 DEF KeepsDeadline
  <2> QED
    BY <2>3, <2>4, <2>5, <2>6, <2>7
<1>9. CASE handleHotKeys
  BY <1>9, <1>p DEF handleHotKeys, cacheVars, peerVars
<1>10. CASE purgeExpired
  BY <1>10, <1>p DEF purgeExpired, peerVars
<1>11. CASE Close
  BY <1>11, <1>p DEF Close, peerVars
<1>12. CASE CleanupReturns
  BY <1>12, <1>p DEF CleanupReturns, peerVars
<1>13. CASE UNCHANGED vars
  BY <1>13, <1>p DEF vars, cacheVars, peerVars
<1> QED
  BY <1>1, <1>2, <1>3, <1>4, <1>5, <1>6, <1>7, <1>8, <1>9, <1>10, <1>11, <1>12,
     <1>13 DEF Next

\* The invariant holds along every behaviour.
LEMMA LifetimeHolds == Spec => []LifetimeInv
  BY InitLifetime, NextLifetime, PTL DEF Spec

(***************************************************************************)
(* A copy that has a TTL outlives the entry it was made of by no more than *)
(* the time it was under way, however late it was made and whatever number *)
(* of copies, deletes and losses came before; a copy of an entry without a *)
(* TTL has none (TTLRemaining, SetWithMetadata, handleInternalReplicate).  *)
(***************************************************************************)
THEOREM CopiesKeepDeadline == Spec => []CopyLifetime
<1>1. LifetimeInv => CopyLifetime
  <2> SUFFICES ASSUME LifetimeInv, copy # NoItem, Lasting(copy)
               PROVE  /\ copy # Never => deadline # Never /\ deadline >= -MaxDelay
                      /\ deadline = Never => copy = Never
    BY DEF CopyLifetime
  <2>1. copy # Never => copy \in Int /\ copy > Expired
    BY DEF LifetimeInv, CopyLeft, Lefts, Lasting
  <2>2. copy # Never => deadline \in Int /\ deadline >= copy - MaxDelay
    BY <2>1 DEF LifetimeInv, CopyBound
  <2> QED
    BY <2>1, <2>2, NodeAssumption DEF Expired
<1> QED
  BY <1>1, LifetimeHolds, PTL

(***************************************************************************)
(* Nothing but DELETE removes a live entry: every other step that takes    *)
(* the key from the map finds it expired under the lock it deletes it      *)
(* under (Get's second look, purgeExpired), and no step leaves the absent  *)
(* mark in a live entry's place.                                           *)
(***************************************************************************)
THEOREM LiveEntriesStay == Spec => NoLiveEviction
<1>1. LifetimeInv /\ [Next]_vars =>
        [item # NoItem /\ item' = NoItem /\ ~handleDelete
           => IsExpired(item)]_vars
  <2> SUFFICES ASSUME LifetimeInv, Next, item # NoItem, item' = NoItem,
                      ~handleDelete
               PROVE  IsExpired(item)
    OBVIOUS
  <2>0. NoItem \notin Left
    BY NodeAssumption DEF Left, Lefts
  <2>1. ASSUME NEW s \in TTLs PROVE ~handleSet(s)
    BY <2>0, EntryMade DEF handleSet
  <2>2. ~Tick
    <3>1. Earlier(item, Forgotten) \in Left
      BY NodeAssumption DEF LifetimeInv, Earlier, Left, Lefts, Forgotten
    <3> QED
      BY <2>0, <3>1 DEF Tick
  <2>3. ASSUME UNCHANGED item PROVE FALSE
    BY <2>3
  <2>4. CASE purgeExpired
    BY <2>4 DEF purgeExpired
  <2>5. CASE \E r \in Readers : GetEvict(r)
    BY <2>5 DEF GetEvict
  <2> QED
    BY <2>1, <2>2, <2>3, <2>4, <2>5
       DEF Next, GetLookup, GetCheck, GetHit, handleHotKeys, Close,
           CleanupReturns, DumpLocalKeys, Deliver, Lose, DropCopy, cacheVars
<1> QED
  BY <1>1, LifetimeHolds, PTL DEF Spec, NoLiveEviction

-----------------------------------------------------------------------------
(* The cleanup worker. *)

\* Time since the ticker last found everything expired removed: since its last
\* tick, or the one before while that tick waits.
SincePurge == (CleanupInterval - ticker.left)
                + (IF ticker.ready THEN CleanupInterval ELSE 0)

(***************************************************************************)
(* The inductive invariant: a tick does not wait for longer than MaxLag,   *)
(* and no entry has been expired for longer than since the last purge.     *)
(***************************************************************************)
CleanupInv ==
  /\ worker \in {"running", "gone"} /\ stopCleanup \in BOOLEAN
  /\ ticker \in [left : 1 .. CleanupInterval, ready : BOOLEAN]
  /\ ~stopCleanup =>
       /\ worker = "running"
       /\ ticker.ready => CleanupInterval - ticker.left <= MaxLag
       /\ item \in Int => item >= -SincePurge

LEMMA SincePurgeType ==
  ASSUME ticker \in [left : 1 .. CleanupInterval, ready : BOOLEAN]
  PROVE  SincePurge \in Nat
  BY NodeAssumption DEF SincePurge

LEMMA NextCleanup == LifetimeInv /\ CleanupInv /\ [Next]_vars => CleanupInv'
<1> SUFFICES ASSUME LifetimeInv, CleanupInv, [Next]_vars PROVE CleanupInv'
  OBVIOUS
<1>0. /\ CleanupInterval \in Nat \ {0} /\ MaxLag \in 0 .. CleanupInterval - 1
      /\ NoItem \notin Int /\ Never \notin Int
  BY NodeAssumption
<1>t. /\ ticker \in [left : 1 .. CleanupInterval, ready : BOOLEAN]
      /\ ticker.left \in 1 .. CleanupInterval /\ SincePurge \in Nat
  BY SincePurgeType DEF CleanupInv
\* A new entry has its deadline ahead, and one that goes or stays is no concern.
<1>1. ASSUME UNCHANGED <<worker, stopCleanup, ticker>>,
             item' \in Int => item' >= 0 \/ item' = item
      PROVE  CleanupInv'
  <2>1. SincePurge' = SincePurge
    BY <1>1 DEF SincePurge
  <2> QED
    BY <1>1, <1>t, <2>1 DEF CleanupInv
<1>2. ASSUME NEW s \in TTLs, handleSet(s) PROVE CleanupInv'
  <2>1. ExpiresAfter(s) \in Int => ExpiresAfter(s) >= 0
    BY TTLType, NodeAssumption
  <2> QED
    BY <1>1, <1>2, <2>1 DEF handleSet, workerVars
<1>3. CASE handleDelete
  BY <1>0, <1>1, <1>3 DEF handleDelete, workerVars
<1>4. ASSUME NEW r \in Readers,
             GetLookup(r) \/ GetCheck(r) \/ GetEvict(r) \/ GetHit(r)
      PROVE  CleanupInv'
  BY <1>0, <1>1, <1>4 DEF GetLookup, GetCheck, GetEvict, GetHit, cacheVars,
                          workerVars
<1>5. CASE purgeExpired
  <2>1. /\ item' \in Int => item' >= 0
        /\ UNCHANGED <<worker, stopCleanup>>
        /\ ticker' = [ticker EXCEPT !.ready = FALSE]
    BY <1>0, <1>5 DEF purgeExpired, IsExpired, LifetimeInv, Left, Lefts
  <2>2. /\ ticker' \in [left : 1 .. CleanupInterval, ready : BOOLEAN]
        /\ ~ticker'.ready
    BY <1>t, <2>1
  <2>3. ticker'.left \in 1 .. CleanupInterval
    BY <2>2
  <2>4. SincePurge' = CleanupInterval - ticker'.left
    BY <1>0, <2>2, <2>3 DEF SincePurge
  <2>5. SincePurge' \in Nat
    BY <1>0, <2>3, <2>4
  <2> QED
    BY <2>1, <2>2, <2>5 DEF CleanupInv
<1>6. CASE Close \/ CleanupReturns
  <2>1. NewTicker \in [left : 1 .. CleanupInterval, ready : BOOLEAN]
    BY <1>0 DEF NewTicker
  <2> QED
    BY <1>6, <2>1 DEF Close, CleanupReturns, CleanupInv
<1>7. CASE Tick
  <2>1. /\ UNCHANGED <<worker, stopCleanup>> /\ MoveTicker
        /\ worker = "running" /\ ticker.ready
             => CleanupInterval - ticker.left < MaxLag
        /\ item' = IF item = NoItem THEN item ELSE Earlier(item, Forgotten)
    BY <1>7 DEF Tick
  <2>2. ticker' \in [left : 1 .. CleanupInterval, ready : BOOLEAN]
    <3>1. CASE worker = "gone"
      BY <1>t, <2>1, <3>1 DEF MoveTicker
    <3>2. CASE worker # "gone" /\ ticker.left = 1
      <4>1. ticker' = [NewTicker EXCEPT !.ready = TRUE]
        BY <2>1, <3>2 DEF MoveTicker
      <4>2. ticker' = [left |-> CleanupInterval, ready |-> TRUE]
        BY <4>1 DEF NewTicker
      <4>3. CleanupInterval \in 1 .. CleanupInterval
        BY <1>0
      <4> QED
        BY <4>2, <4>3
    <3>3. CASE worker # "gone" /\ ticker.left # 1
      <4>1. ticker' = [ticker EXCEPT !.left = ticker.left - 1]
        BY <2>1, <3>3 DEF MoveTicker
      <4>2. ticker.left - 1 \in 1 .. CleanupInterval
        BY <1>0, <1>t, <3>3
      <4> QED
        BY <1>t, <4>1, <4>2
    <3> QED
      BY <3>1, <3>2, <3>3
  <2>3. ASSUME worker = "running"
        PROVE  /\ SincePurge' = SincePurge + 1
               /\ ticker'.ready => CleanupInterval - ticker'.left <= MaxLag
    <3>1. CASE ticker.left = 1
      <4>1. ~ticker.ready
        BY <1>0, <2>1, <2>3, <3>1
      <4>2. ticker' = [NewTicker EXCEPT !.ready = TRUE]
        BY <2>1, <2>3, <3>1 DEF MoveTicker
      <4>3. ticker'.ready /\ ticker'.left = CleanupInterval
        BY <4>2 DEF NewTicker
      <4> QED
        BY <1>0, <3>1, <4>1, <4>3 DEF SincePurge
    <3>2. CASE ticker.left # 1
      <4>1. ticker' = [ticker EXCEPT !.left = ticker.left - 1]
        BY <2>1, <2>3, <3>2 DEF MoveTicker
      <4>2. ticker'.ready = ticker.ready /\ ticker'.left = ticker.left - 1
        BY <1>t, <4>1
      <4>3. SincePurge' = SincePurge + 1
        BY <1>0, <1>t, <4>2 DEF SincePurge
      <4>4. ticker.ready => CleanupInterval - (ticker.left - 1) <= MaxLag
        BY <1>0, <1>t, <2>1, <2>3
      <4> QED
        BY <4>2, <4>3, <4>4
    <3> QED
      BY <3>1, <3>2
  <2>4. ASSUME ~stopCleanup, item' \in Int
        PROVE  item' >= -(SincePurge + 1)
    <3>1. item \in Int /\ item >= -SincePurge
      BY <1>0, <2>1, <2>4 DEF Earlier, CleanupInv, LifetimeInv, Left, Lefts
    <3>2. item' \in {item, item - 1}
      BY <1>0, <2>1, <3>1 DEF Earlier
    <3> QED
      BY <1>t, <3>1, <3>2
  <2> QED
    BY <2>1, <2>2, <2>3, <2>4 DEF CleanupInv
<1>8. CASE UNCHANGED cacheVars
  BY <1>1, <1>8 DEF cacheVars, workerVars
<1> QED
  BY <1>2, <1>3, <1>4, <1>5, <1>6, <1>7, <1>8
     DEF Next, vars, handleHotKeys, DumpLocalKeys, Deliver, Lose, DropCopy

LEMMA CleanupHolds == Spec => []CleanupInv
<1>1. Init => CleanupInv
  <2> SUFFICES ASSUME Init PROVE CleanupInv
    OBVIOUS
  <2>1. stopCleanup \in BOOLEAN /\ worker = "running" /\ item = NoItem
    BY DEF Init
  <2>2. /\ ticker \in [left : 1 .. CleanupInterval, ready : BOOLEAN]
        /\ ~ticker.ready
    BY NodeAssumption DEF Init, NewTicker
  <2> QED
    BY <2>1, <2>2, NodeAssumption DEF CleanupInv
<1> QED
  BY <1>1, NextCleanup, LifetimeHolds, PTL DEF Spec

(***************************************************************************)
(* Until Close is called an expired entry that nobody reads is out of the  *)
(* map within the cleanup interval and what the worker is late, for any    *)
(* interval and TTLs, whatever is set, read and deleted in the meantime    *)
(* (startCleanupWorker's ticker and loop, purgeExpired).                   *)
(***************************************************************************)
THEOREM ExpiredGoInTime == Spec => []RemovedInTime
<1>1. CleanupInv => RemovedInTime
  <2> SUFFICES ASSUME CleanupInv, ~stopCleanup, item \in Int
               PROVE  item >= -(CleanupInterval + MaxLag)
    BY DEF RemovedInTime
  <2>0. /\ CleanupInterval \in Nat \ {0} /\ MaxLag \in Nat
        /\ MaxLag < CleanupInterval /\ ticker.left \in 1 .. CleanupInterval
    BY NodeAssumption DEF CleanupInv
  <2>1. item >= -SincePurge
        /\ (ticker.ready => CleanupInterval - ticker.left <= MaxLag)
    BY DEF CleanupInv
  <2>2. SincePurge <= CleanupInterval + MaxLag
    BY <2>0, <2>1 DEF SincePurge
  <2>3. SincePurge \in Nat
    BY SincePurgeType DEF CleanupInv
  <2> QED
    BY <2>0, <2>1, <2>2, <2>3
<1> QED
  BY <1>1, CleanupHolds, PTL

-----------------------------------------------------------------------------
(* The detector's window. *)

Ages == 0 .. WindowDuration + 1

\* The positions of the buckets of one age.
OfAge(buckets, a) == {i \in DOMAIN buckets : buckets[i] = a}

(***************************************************************************)
(* The inductive invariant: the list, pruned or not, has a bucket for each *)
(* access of the last window.  Older buckets, if they are still there, are *)
(* of ages that are not counted.                                           *)
(***************************************************************************)
WindowInv ==
  /\ keyAccess \in Seq(Ages)
  /\ recent \in [0 .. WindowDuration - 1 -> Nat]
  /\ \A a \in 0 .. WindowDuration - 1 :
       Cardinality(OfAge(keyAccess, a)) = recent[a]

LEMMA OfAgeFinite ==
  ASSUME NEW b \in Seq(Ages), NEW a
  PROVE  IsFiniteSet(OfAge(b, a)) /\ Cardinality(OfAge(b, a)) \in Nat
<1>1. IsFiniteSet(1 .. Len(b)) /\ OfAge(b, a) \subseteq 1 .. Len(b)
  BY Interval DEF OfAge
<1>2. IsFiniteSet(OfAge(b, a))
  BY <1>1, FS_Subset
<1> QED
  BY <1>2, FS_CardinalityType

\* Pruning keeps the buckets of every age in the window and no others.
LEMMA Pruned ==
  ASSUME NEW b \in Seq(Ages)
  PROVE  LET v == validBuckets(b)
         IN  /\ v \in Seq(Ages)
             /\ \A i \in DOMAIN v : v[i] \in 0 .. WindowDuration - 1
             /\ \A a \in 0 .. WindowDuration - 1 :
                  Cardinality(OfAge(v, a)) = Cardinality(OfAge(b, a))
<1> DEFINE v == validBuckets(b)
           P == {i \in DOMAIN b : b[i] < WindowDuration}
           N == 1 .. Cardinality(P)
<1>0. /\ WindowDuration \in Nat \ {0} /\ Len(b) \in Nat
      /\ \A i \in DOMAIN b : b[i] \in Ages
  BY HotKeyAssumption
<1>1. P \in SUBSET (1 .. Len(b)) /\ \A i \in P : b[i] \in 0 .. WindowDuration - 1
  BY <1>0 DEF Ages
<1>2. v = AtPositions(b, P)
  BY DEF validBuckets
<1> HIDE DEF v, P
<1>3. Cardinality(P) \in Nat /\ \E at : Selects(at, b, P, v)
  BY <1>0, <1>1, <1>2, AtPositionsKeeps
<1>a. PICK at : Selects(at, b, P, v)
  BY <1>3
<1>4. /\ at \in [N -> P] /\ v = [r \in N |-> b[at[r]]]
      /\ \A i \in P : \E r \in N : at[r] = i
      /\ \A q, r \in N : q < r => at[q] < at[r]
  BY <1>a DEF Selects
<1>5. /\ DOMAIN v = N
      /\ \A r \in N : v[r] = b[at[r]] /\ v[r] \in 0 .. WindowDuration - 1
  BY <1>1, <1>4
<1>6. v \in Seq(Ages)
  <2>1. \A r \in N : at[r] \in P
    BY <1>4
  <2>2. \A i \in P : b[i] \in Ages
    BY <1>0, <1>1 DEF Ages
  <2>3. \A r \in N : b[at[r]] \in Ages
    BY <2>1, <2>2
  <2> QED
    BY <1>3, <1>4, <2>3
<1>7. \A q, r \in N : at[q] = at[r] => q = r
  <2>1. ASSUME NEW q \in N, NEW r \in N, at[q] = at[r], q # r PROVE FALSE
    <3>1. at[q] \in Int /\ at[r] \in Int /\ (q < r \/ r < q)
      <4>1. at[q] \in P /\ at[r] \in P
        BY <1>4
      <4>2. P \subseteq Int
        BY <1>1
      <4>3. Cardinality(P) \in Nat
        BY <1>3
      <4>4. q \in Int /\ r \in Int
        BY <4>3
      <4>5. q < r \/ r < q
        BY <2>1, <4>4
      <4> QED
        BY <4>1, <4>2, <4>5
    <3> QED
      BY <1>4, <2>1, <3>1
  <2> QED
    BY <2>1
<1>8. ASSUME NEW a \in 0 .. WindowDuration - 1
      PROVE  Cardinality(OfAge(v, a)) = Cardinality(OfAge(b, a))
  <2> DEFINE S == OfAge(v, a)
             T == OfAge(b, a)
             f == [r \in S |-> at[r]]
  <2>1. S \subseteq N /\ \A r \in S : at[r] \in T
    BY <1>1, <1>4, <1>5 DEF OfAge, P
  <2>2. \A i \in T : i \in P
    BY <1>0 DEF OfAge, P
  <2>3. \A i \in T : \E r \in S : at[r] = i
    BY <1>4, <1>5, <2>2 DEF OfAge
  <2>4. f \in [S -> T] /\ \A r \in S : f[r] = at[r]
    BY <2>1
  <2> HIDE DEF S, T, f
  <2>5. f \in Injection(S, T)
    BY <1>7, <2>1, <2>4 DEF Injection, IsInjective
  <2>6. f \in Surjection(S, T)
    BY <2>3, <2>4 DEF Surjection
  <2>7. ExistsBijection(S, T)
    BY <2>5, <2>6 DEF Bijection, ExistsBijection
  <2>8. IsFiniteSet(S)
    BY <1>6, OfAgeFinite DEF S
  <2>9. Cardinality(T) = Cardinality(S)
    BY <2>7, <2>8, FS_Bijection
  <2> QED
    BY <2>9 DEF S, T
<1> QED
  BY <1>5, <1>6, <1>8 DEF v

LEMMA InitWindow == Init => WindowInv
<1> SUFFICES ASSUME Init PROVE WindowInv
  OBVIOUS
<1>0. WindowDuration \in Nat \ {0} /\ keyAccess = <<>>
      /\ recent = [a \in 0 .. WindowDuration - 1 |-> 0]
  BY HotKeyAssumption DEF Init, NewDetector
<1>1. \A a \in 0 .. WindowDuration - 1 : OfAge(keyAccess, a) = {}
  BY <1>0 DEF OfAge
<1> QED
  BY <1>0, <1>1, FS_EmptySet DEF WindowInv

LEMMA RecordWindow ==
  ASSUME WindowInv, RecordAccess PROVE WindowInv'
<1> DEFINE v == validBuckets(keyAccess)
           W == 0 .. WindowDuration - 1
<1>0. /\ WindowDuration \in Nat \ {0} /\ keyAccess \in Seq(Ages) /\ recent \in [W -> Nat]
      /\ \A a \in W : Cardinality(OfAge(keyAccess, a)) = recent[a]
  BY HotKeyAssumption DEF WindowInv
<1>1. v \in Seq(Ages) /\ \A a \in W : Cardinality(OfAge(v, a)) = recent[a]
  BY <1>0, Pruned
<1>2. keyAccess' = Append(v, 0) /\ recent' = [recent EXCEPT ![0] = @ + 1]
  BY DEF RecordAccess
<1> HIDE DEF v
<1>3. /\ keyAccess' \in Seq(Ages) /\ 0 \in W
      /\ DOMAIN keyAccess' = DOMAIN v \cup {Len(v) + 1}
      /\ Len(v) + 1 \notin DOMAIN v
      /\ \A i \in DOMAIN v : keyAccess'[i] = v[i]
      /\ keyAccess'[Len(v) + 1] = 0
  BY <1>0, <1>1, <1>2 DEF Ages
<1>4. recent' \in [W -> Nat] /\ recent'[0] = recent[0] + 1
      /\ \A a \in W \ {0} : recent'[a] = recent[a]
  BY <1>0, <1>2, <1>3
<1>5. Cardinality(OfAge(keyAccess', 0)) = recent'[0]
  <2>1. /\ OfAge(keyAccess', 0) = OfAge(v, 0) \cup {Len(v) + 1}
        /\ Len(v) + 1 \notin OfAge(v, 0)
    BY <1>3 DEF OfAge
  <2>2. IsFiniteSet(OfAge(v, 0))
    BY <1>1, OfAgeFinite
  <2>3. Cardinality(OfAge(v, 0) \cup {Len(v) + 1}) = Cardinality(OfAge(v, 0)) + 1
    BY <2>1, <2>2, FS_AddElement
  <2> QED
    BY <1>1, <1>3, <1>4, <2>1, <2>3
<1>6. ASSUME NEW a \in W \ {0}
      PROVE  Cardinality(OfAge(keyAccess', a)) = recent'[a]
  <2>1. OfAge(keyAccess', a) = OfAge(v, a)
    BY <1>3 DEF OfAge
  <2> QED
    BY <1>1, <1>4, <2>1
<1> QED
  BY <1>3, <1>4, <1>5, <1>6 DEF WindowInv

LEMMA AgeWindow ==
  ASSUME WindowInv, AgeBuckets PROVE WindowInv'
<1> DEFINE W == 0 .. WindowDuration - 1
<1>0. /\ WindowDuration \in Nat \ {0} /\ keyAccess \in Seq(Ages) /\ recent \in [W -> Nat]
      /\ \A a \in W : Cardinality(OfAge(keyAccess, a)) = recent[a]
  BY HotKeyAssumption DEF WindowInv
<1>1. /\ keyAccess' = [i \in DOMAIN keyAccess |->
                         IF keyAccess[i] > WindowDuration THEN keyAccess[i]
                         ELSE keyAccess[i] + 1]
      /\ recent' = [a \in DOMAIN recent |-> IF a = 0 THEN 0 ELSE recent[a - 1]]
  BY DEF AgeBuckets
<1>2. \A i \in DOMAIN keyAccess : keyAccess[i] \in Ages
  BY <1>0
<1>3. keyAccess' \in Seq(Ages)
  <2>1. \A i \in DOMAIN keyAccess : keyAccess'[i] \in Ages
    BY <1>0, <1>1, <1>2 DEF Ages
  <2>2. DOMAIN keyAccess' = 1 .. Len(keyAccess) /\ Len(keyAccess) \in Nat
        /\ keyAccess' = [i \in 1 .. Len(keyAccess) |-> keyAccess'[i]]
    BY <1>0, <1>1
  <2> QED
    BY <2>1, <2>2, <1>0
<1>4. recent' \in [W -> Nat] /\ recent'[0] = 0
      /\ \A a \in W \ {0} : a - 1 \in W /\ recent'[a] = recent[a - 1]
  BY <1>0, <1>1
<1>5. Cardinality(OfAge(keyAccess', 0)) = 0
  <2>1. OfAge(keyAccess', 0) = {}
    BY <1>0, <1>1, <1>2 DEF OfAge, Ages
  <2> QED
    BY <2>1, FS_EmptySet
<1>6. ASSUME NEW a \in W \ {0}
      PROVE  Cardinality(OfAge(keyAccess', a)) = recent'[a]
  <2>1. OfAge(keyAccess', a) = OfAge(keyAccess, a - 1)
    <3>1. DOMAIN keyAccess' = DOMAIN keyAccess
      BY <1>1
    <3>2. ASSUME NEW i \in DOMAIN keyAccess
          PROVE  keyAccess'[i] = a <=> keyAccess[i] = a - 1
      <4>1. keyAccess[i] \in Int /\ a \in Int /\ a < WindowDuration
            /\ WindowDuration \in Int
        BY <1>0, <1>2 DEF Ages
      <4>2. keyAccess'[i] = IF keyAccess[i] > WindowDuration THEN keyAccess[i]
                            ELSE keyAccess[i] + 1
        BY <1>1
      <4> HIDE DEF W
      <4> QED
        BY <4>1, <4>2
    <3> QED
      BY <3>1, <3>2 DEF OfAge
  <2> QED
    BY <1>0, <1>4, <2>1
<1> QED
  BY <1>3, <1>4, <1>5, <1>6 DEF WindowInv

LEMMA NextWindow == WindowInv /\ [Next]_vars => WindowInv'
<1> SUFFICES ASSUME WindowInv, [Next]_vars PROVE WindowInv'
  OBVIOUS
<1>1. ASSUME NEW r \in Readers, GetHit(r) PROVE WindowInv'
  BY <1>1, RecordWindow DEF GetHit
<1>2. CASE handleHotKeys
  <2>1. keyAccess' = validBuckets(keyAccess) /\ recent' = recent
    BY <1>2 DEF handleHotKeys, GetHotKeys
  <2>2. /\ validBuckets(keyAccess) \in Seq(Ages)
        /\ \A a \in 0 .. WindowDuration - 1 :
             Cardinality(OfAge(validBuckets(keyAccess), a))
               = Cardinality(OfAge(keyAccess, a))
    BY Pruned DEF WindowInv
  <2> QED
    BY <2>1, <2>2 DEF WindowInv
<1>3. CASE Tick
  BY <1>3, AgeWindow DEF Tick
<1>4. CASE UNCHANGED detectorVars
  BY <1>4 DEF detectorVars, WindowInv
<1> QED
  BY <1>1, <1>2, <1>3, <1>4
     DEF Next, vars, handleSet, handleDelete, GetLookup, GetCheck, GetEvict,
         purgeExpired, Close, CleanupReturns, DumpLocalKeys, Deliver, Lose,
         DropCopy

LEMMA WindowHolds == Spec => []WindowInv
  BY InitWindow, NextWindow, PTL DEF Spec

(***************************************************************************)
(* The pruned list of a key's buckets has exactly the accesses of the last *)
(* window, for any window and number of accesses and readers, and however  *)
(* accesses, GET /hotkeys and the clock alternate (RecordAccess and        *)
(* GetHotKeys prune; a pruned access never comes back into the window).    *)
(***************************************************************************)
THEOREM WindowCounts == Spec => []WindowIsExact
<1>1. WindowInv => WindowIsExact
  <2> SUFFICES ASSUME WindowInv PROVE WindowIsExact
    OBVIOUS
  <2>1. /\ \A i \in DOMAIN validBuckets(keyAccess) :
             validBuckets(keyAccess)[i] \in 0 .. WindowDuration - 1
        /\ \A a \in 0 .. WindowDuration - 1 :
             Cardinality(OfAge(validBuckets(keyAccess), a))
               = Cardinality(OfAge(keyAccess, a))
    BY Pruned DEF WindowInv
  <2> QED
    BY <2>1 DEF WindowInv, WindowIsExact, OfAge
<1> QED
  BY <1>1, WindowHolds, PTL

(***************************************************************************)
(* The variables of a node keep their types; in particular a reader past   *)
(* its lookup has an entry (Get), and nothing is under way for longer than *)
(* MaxDelay.                                                               *)
(***************************************************************************)
THEOREM NodeTypeCorrect == Spec => []TypeOK
<1> DEFINE Flags == hotKey \in BOOLEAN
<1>1. Init => Flags
  BY DEF Init, NewDetector
<1>2. WindowInv /\ Flags /\ [Next]_vars => Flags'
  <2> SUFFICES ASSUME WindowInv, Flags, [Next]_vars PROVE Flags'
    OBVIOUS
  <2>2. RecordAccess \/ GetHotKeys => hotKey' \in BOOLEAN
    <3> DEFINE x == Len(validBuckets(keyAccess))
    <3>1. x \in Int /\ x + 1 \in Int /\ ThresholdCount \in Int
      <4>1. validBuckets(keyAccess) \in Seq(Ages)
        BY Pruned DEF WindowInv
      <4> QED
        BY <4>1, HotKeyAssumption
    <3>2. ASSUME NEW m \in Int, NEW n \in Int PROVE (m >= n) \in BOOLEAN
      OBVIOUS
    <3>3. (x >= ThresholdCount) \in BOOLEAN /\ (x + 1 >= ThresholdCount) \in BOOLEAN
      BY <3>1, <3>2
    <3>4. RecordAccess => hotKey' = (x + 1 >= ThresholdCount)
      BY DEF RecordAccess, AccessIsHot
    <3>5. GetHotKeys => hotKey' = (x >= ThresholdCount)
      BY DEF GetHotKeys
    <3> HIDE DEF x
    <3> QED
      BY <3>3, <3>4, <3>5, Zenon
  <2>3. UNCHANGED hotKey \/ RecordAccess \/ GetHotKeys
    BY DEF Next, vars, detectorVars, handleSet, handleDelete, GetLookup,
           GetCheck, GetEvict, GetHit, handleHotKeys, purgeExpired, Close,
           CleanupReturns, DumpLocalKeys, Deliver, Lose, DropCopy, Tick,
           AgeBuckets
  <2> QED
    BY <2>2, <2>3
<1>3. LifetimeInv /\ CleanupInv /\ WindowInv /\ Flags => TypeOK
  <2> SUFFICES ASSUME LifetimeInv, CleanupInv, WindowInv, Flags PROVE TypeOK
    OBVIOUS
  <2>1. /\ item \in Lefts \cup {NoItem} /\ (item \in Int => item >= Forgotten)
        /\ copy \in Lefts \cup {NoItem} /\ (copy \in Int => copy >= Expired)
    BY NodeAssumption DEF LifetimeInv, Left, CopyLeft, Lefts
  <2>2. readers \in [Readers ->
          {Idle} \cup [pc : {"check", "evict", "hit"}, seen : Lefts]]
    BY DEF LifetimeInv, Reader, Left
  <2>3. \A m \in net : m.age \in 0 .. MaxDelay /\ m.deadline \in Lefts
    BY DEF LifetimeInv, Parcel
  <2> QED
    BY <2>1, <2>2, <2>3 DEF TypeOK, LifetimeInv, CleanupInv, WindowInv, Ages
<1> QED
  BY <1>1, <1>2, <1>3, LifetimeHolds, CleanupHolds, WindowHolds, PTL DEF Spec

=============================================================================
