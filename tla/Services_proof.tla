--------------------------- MODULE Services_proof --------------------------
(***************************************************************************)
(* Proofs about the server's components: for any callers and thresholds, a *)
(* half-open breaker does not lose a place; for any hosts, users and       *)
(* connections, none is lost, and none is closed under its users by the    *)
(* cleanup; and all of them, with the events, keep to their types side by  *)
(* side.                                                                   *)
(***************************************************************************)
EXTENDS Services, EventBus_proof, FiniteSetTheorems

(* The circuit breaker.                                                     *)

(* A caller is counted from its +1 to its -1, which it makes only in the    *)
(* branches that saw the half-open state.                                   *)
SlotInv ==
  \A c \in inSlot :
    /\ at[c] \in {"reject", "running", "failed", "succeeded"}
    /\ at[c] \in {"failed", "succeeded"} => saw[c] = "halfOpen"

BreakerIInv == BreakerTypeOK /\ SlotInv /\ NoSlotLeaks
-----------------------------------------------------------------------------
LEMMA SlotsAreFinite ==
  ASSUME BreakerTypeOK
  PROVE  IsFiniteSet(inSlot) /\ Cardinality(inSlot) \in Nat
<1>1. IsFiniteSet(Caller) /\ inSlot \in SUBSET Caller
  BY CircuitBreakerAssumption DEF BreakerTypeOK
<1> QED  BY <1>1, FS_Subset, FS_CardinalityType

LEMMA BreakerInitIInv == BreakerInit => BreakerIInv
<1> SUFFICES ASSUME BreakerInit PROVE BreakerIInv
  OBVIOUS
<1>1. BreakerTypeOK
  <2>1. recovered \in BOOLEAN /\ mutex \in Caller \cup {Nobody, Resetter}
    BY Zenon DEF BreakerInit
  <2>2. at \in [Caller -> {"idle"}] /\ saw \in [Caller -> {"closed"}]
    BY DEF BreakerInit
  <2> QED  BY <2>1, <2>2 DEF BreakerInit, BreakerTypeOK, CircuitState
<1>2. SlotInv /\ NoSlotLeaks
  BY DEF BreakerInit, SlotInv, NoSlotLeaks
<1> QED  BY <1>1, <1>2 DEF BreakerIInv

(* One more caller, one more place; a caller less, at most a place less.    *)
LEMMA CountIn ==
  ASSUME BreakerIInv, NEW c \in Caller, at[c] = "limit"
  PROVE  Cardinality(inSlot \cup {c}) = Cardinality(inSlot) + 1
<1>1. c \notin inSlot
  BY DEF BreakerIInv, SlotInv
<1> QED  BY <1>1, SlotsAreFinite, FS_AddElement DEF BreakerIInv

LEMMA CountOut ==
  ASSUME BreakerIInv, NEW c \in Caller
  PROVE  /\ Cardinality(inSlot \ {c}) \in Nat
         /\ Cardinality(inSlot \ {c}) >= Cardinality(inSlot) - 1
<1>1. IsFiniteSet(inSlot) /\ Cardinality(inSlot) \in Nat
  BY SlotsAreFinite DEF BreakerIInv
<1>2. IsFiniteSet(inSlot \ {c})
  BY <1>1, FS_RemoveElement
<1>3. Cardinality(inSlot \ {c}) \in Nat
  BY <1>2, FS_CardinalityType
<1>4. Cardinality(inSlot \ {c})
        = IF c \in inSlot THEN Cardinality(inSlot) - 1 ELSE Cardinality(inSlot)
  BY <1>1, FS_RemoveElement
<1> QED  BY <1>1, <1>3, <1>4

(* What a caller does before its request, by which it may be counted in.    *)
LEMMA BeforeKeeps ==
  ASSUME BreakerIInv, NEW c \in Caller,
         BeforeRequest(c) \/ ToHalfOpen(c) \/ ZeroHalfOpen(c) \/ ZeroSuccess(c)
           \/ CheckHalfOpenLimit(c) \/ Reject(c)
  PROVE  BreakerIInv'
<1> USE CircuitBreakerAssumption
    DEF BreakerIInv, BreakerTypeOK, SlotInv, NoSlotLeaks, Resetting, CircuitState, Goto, counters
<1>0. Cardinality(inSlot) \in Nat
  BY SlotsAreFinite
<1>1. CASE BeforeRequest(c)
  BY <1>1 DEF BeforeRequest
<1>2. CASE ToHalfOpen(c)
  BY <1>2 DEF ToHalfOpen
<1>3. CASE ZeroHalfOpen(c)
  BY <1>0, <1>3 DEF ZeroHalfOpen
<1>4. CASE ZeroSuccess(c)
  BY <1>4 DEF ZeroSuccess
<1>5. CASE CheckHalfOpenLimit(c)
  BY <1>0, <1>5, CountIn DEF CheckHalfOpenLimit
<1>6. CASE Reject(c)
  BY <1>0, <1>6, CountOut DEF Reject
<1> QED  BY <1>1, <1>2, <1>3, <1>4, <1>5, <1>6

(* What it does after its request, by which it is counted out.              *)
LEMMA AfterKeeps ==
  ASSUME BreakerIInv, NEW c \in Caller,
         AfterRequest(c) \/ RecordFailure(c) \/ ToOpen(c) \/ RecordSuccess(c)
           \/ CountSuccess(c) \/ ToClosed(c) \/ ClearFailures(c)
  PROVE  BreakerIInv'
<1> USE CircuitBreakerAssumption
    DEF BreakerIInv, BreakerTypeOK, SlotInv, NoSlotLeaks, Resetting, CircuitState, Goto, counters
<1>0. Cardinality(inSlot) \in Nat
  BY SlotsAreFinite
<1>1. CASE AfterRequest(c)
  BY <1>1 DEF AfterRequest
<1>2. CASE RecordFailure(c)
  BY <1>0, <1>2, CountOut DEF RecordFailure
<1>3. CASE ToOpen(c)
  BY <1>3 DEF ToOpen
<1>4. CASE RecordSuccess(c)
  BY <1>0, <1>4, CountOut DEF RecordSuccess
<1>5. CASE CountSuccess(c)
  BY <1>5 DEF CountSuccess
<1>6. CASE ToClosed(c)
  BY <1>6 DEF ToClosed
<1>7. CASE ClearFailures(c)
  BY <1>7 DEF ClearFailures
<1> QED  BY <1>1, <1>2, <1>3, <1>4, <1>5, <1>6, <1>7

LEMMA BreakerNextIInv == BreakerIInv /\ [BreakerNext]_breakerVars => BreakerIInv'
<1> SUFFICES ASSUME BreakerIInv, [BreakerNext]_breakerVars PROVE BreakerIInv'
  OBVIOUS
<1>1. ASSUME NEW c \in Caller, CallerStep(c) PROVE BreakerIInv'
  BY <1>1, BeforeKeeps, AfterKeeps DEF CallerStep
<1>2. CASE ResetState \/ ResetCounters \/ RecoveryTimeout \/ UNCHANGED breakerVars
  <2> USE CircuitBreakerAssumption
      DEF BreakerIInv, BreakerTypeOK, SlotInv, NoSlotLeaks, Resetting, CircuitState, counters
  <2>0. Cardinality(inSlot) \in Nat
    BY SlotsAreFinite
  <2>1. CASE ResetState
    BY <2>1 DEF ResetState
  <2>2. CASE ResetCounters
    BY <2>0, <2>2 DEF ResetCounters
  <2>3. CASE RecoveryTimeout
    BY <2>3 DEF RecoveryTimeout
  <2>4. CASE UNCHANGED breakerVars
    BY <2>4 DEF breakerVars
  <2> QED  BY <1>2, <2>1, <2>2, <2>3, <2>4
<1> QED  BY <1>1, <1>2 DEF BreakerNext
-----------------------------------------------------------------------------
(* The type invariant of the breaker.                                       *)
THEOREM BreakerTypeCorrect == BreakerSpec => []BreakerTypeOK
<1>1. BreakerIInv => BreakerTypeOK
  BY DEF BreakerIInv
<1> QED  BY BreakerInitIInv, BreakerNextIInv, <1>1, PTL DEF BreakerSpec

(* However callers and Reset interleave their accesses, a half-open breaker *)
(* counts at most the requests that are under way (circuit_breaker.go:148,  *)
(* :177): none of its places is lost.                                       *)
THEOREM SlotsComeBack == BreakerSpec => []NoSlotLeaks
<1>1. BreakerIInv => NoSlotLeaks
  BY DEF BreakerIInv
<1> QED  BY BreakerInitIInv, BreakerNextIInv, <1>1, PTL DEF BreakerSpec
-----------------------------------------------------------------------------
(* The pool of SSH connections.                                             *)

(* A client is in the pool under one key, dialled and not closed.           *)
PooledInv ==
  /\ \A h \in Host : connections[h] # NoClient => link[connections[h]] \in {"up", "broken"}
  /\ \A h, g \in Host : connections[h] = connections[g] /\ h # g => connections[h] = NoClient
  /\ \A h \in Host : connections[h] = NoClient => kept[h] = 0

(* A client that was just dialled is its caller's alone.                    *)
DialledInv ==
  \A u \in User : userAt[u] = "storing" =>
    /\ has[u] \in Client /\ link[has[u]] \in {"up", "broken"}
    /\ \A h \in Host : connections[h] # has[u]
    /\ \A v \in User : userAt[v] = "storing" /\ has[v] = has[u] => v = u

UsingInv == \A u \in User : userAt[u] = "using" => has[u] \in Client

PoolIInv == PoolTypeOK /\ PooledInv /\ DialledInv /\ UsingInv /\ NoClientLeaks /\ UsersAreCounted
-----------------------------------------------------------------------------
LEMMA UsersAreFinite ==
  ASSUME NEW h \in Host
  PROVE  IsFiniteSet(UsersOf(h)) /\ Cardinality(UsersOf(h)) \in Nat
<1>1. UsersOf(h) \in SUBSET User /\ IsFiniteSet(User)
  BY SSHPoolAssumption DEF UsersOf
<1> QED  BY <1>1, FS_Subset, FS_CardinalityType

(* A user more, and a user less.                                            *)
LEMMA OneMore ==
  ASSUME NEW h \in Host, NEW u \in User, u \notin UsersOf(h),
         UsersOf(h)' = UsersOf(h) \cup {u}
  PROVE  Cardinality(UsersOf(h))' = Cardinality(UsersOf(h)) + 1
BY UsersAreFinite, FS_AddElement

LEMMA OneLess ==
  ASSUME NEW h \in Host, NEW u \in UsersOf(h), UsersOf(h)' = UsersOf(h) \ {u}
  PROVE  Cardinality(UsersOf(h))' = Cardinality(UsersOf(h)) - 1
BY UsersAreFinite, FS_RemoveElement

(* Who uses which host changes by the one user that moves.                  *)
LEMMA UserComes ==
  ASSUME PoolTypeOK, NEW u \in User, NEW h \in Host, userAt[u] # "using",
         userAt' = [userAt EXCEPT ![u] = "using"], host' = [host EXCEPT ![u] = h],
         NEW g \in Host
  PROVE  /\ u \notin UsersOf(g)
         /\ UsersOf(g)' = IF g = h THEN UsersOf(g) \cup {u} ELSE UsersOf(g)
BY DEF PoolTypeOK, UsersOf

LEMMA UserGoes ==
  ASSUME PoolTypeOK, NEW u \in User, userAt[u] = "using",
         userAt' = [userAt EXCEPT ![u] = "out"], host' = host, NEW g \in Host
  PROVE  /\ u \in UsersOf(g) <=> g = host[u]
         /\ UsersOf(g)' = IF g = host[u] THEN UsersOf(g) \ {u} ELSE UsersOf(g)
BY DEF PoolTypeOK, UsersOf

LEMMA NobodyMoves ==
  ASSUME PoolTypeOK, NEW g \in Host,
         \A u \in User : userAt'[u] = "using" \/ userAt[u] = "using" =>
                           userAt'[u] = userAt[u] /\ host'[u] = host[u]
  PROVE  UsersOf(g)' = UsersOf(g)
BY DEF PoolTypeOK, UsersOf

LEMMA PoolInitIInv == PoolInit => PoolIInv
<1> SUFFICES ASSUME PoolInit PROVE PoolIInv
  OBVIOUS
<1>1. PoolTypeOK
  <2>1. shut \in BOOLEAN /\ idle \in [Host -> BOOLEAN]
    BY Zenon DEF PoolInit
  <2>2. /\ link \in [Client -> {"new"}] /\ connections \in [Host -> {NoClient}]
        /\ refCount \in [Host -> {0}] /\ userAt \in [User -> {"out"}]
        /\ has \in [User -> {NoClient}] /\ kept \in [Host -> {0}]
    BY DEF PoolInit
  <2> QED  BY <2>1, <2>2 DEF PoolInit, PoolTypeOK
<1>2. PooledInv /\ DialledInv /\ UsingInv /\ NoClientLeaks
  BY DEF PoolInit, PooledInv, DialledInv, UsingInv, NoClientLeaks
<1>3. \A h \in Host : UsersOf(h) = {}
  BY DEF PoolInit, UsersOf
<1>4. UsersAreCounted
  BY <1>3 DEF PoolInit, UsersAreCounted
<1> QED  BY <1>1, <1>2, <1>4 DEF PoolIInv
-----------------------------------------------------------------------------
Structure == PoolTypeOK /\ PooledInv /\ DialledInv /\ UsingInv /\ NoClientLeaks

LEMMA GetPooledKeeps ==
  ASSUME PoolIInv, NEW u \in User, NEW h \in Host, GetPooled(u, h)
  PROVE  PoolIInv'
<1> USE SSHPoolAssumption DEF PoolIInv
<1>1. Structure'
  <2>1. idle' \in [Host -> BOOLEAN]
    BY Zenon DEF GetPooled, Refer, PoolTypeOK
  <2> QED
    BY <2>1
    DEF Structure, GetPooled, Use, Refer, PoolTypeOK, PooledInv, DialledInv, UsingInv,
        NoClientLeaks
<1>2. ASSUME NEW g \in Host
      PROVE  /\ u \notin UsersOf(g)
             /\ UsersOf(g)' = IF g = h THEN UsersOf(g) \cup {u} ELSE UsersOf(g)
  BY UserComes DEF GetPooled, Use
<1>3. Cardinality(UsersOf(h))' = Cardinality(UsersOf(h)) + 1
  BY <1>2, OneMore
<1>4. UsersAreCounted'
  <2> SUFFICES ASSUME ~ shut', NEW g \in Host \ displaced'
               PROVE  /\ \A v \in UsersOf(g)' :
                           has'[v] = connections'[g] /\ link'[has'[v]] # "closed"
                      /\ connections'[g] # NoClient =>
                           refCount'[g] = Cardinality(UsersOf(g))' + kept'[g]
    BY DEF UsersAreCounted
  <2>1. /\ \A v \in UsersOf(g) : has[v] = connections[g] /\ link[has[v]] # "closed"
        /\ connections[g] # NoClient => refCount[g] = Cardinality(UsersOf(g)) + kept[g]
    BY DEF UsersAreCounted, GetPooled
  <2>2. Cardinality(UsersOf(g)) \in Nat
    BY UsersAreFinite
  <2>3. CASE g = h
    BY <1>2, <1>3, <2>1, <2>2, <2>3 DEF GetPooled, Use, Refer, PoolTypeOK
  <2>4. CASE g # h
    <3>1. UsersOf(g)' = UsersOf(g) /\ u \notin UsersOf(g)
      BY <1>2, <2>4
    <3>2. Cardinality(UsersOf(g))' = Cardinality(UsersOf(g))
      BY <3>1
    <3> QED  BY <2>1, <2>4, <3>1, <3>2 DEF GetPooled, Use, Refer, PoolTypeOK
  <2> QED  BY <2>3, <2>4
<1> QED  BY <1>1, <1>4 DEF Structure

(* The dead connection leaves the pool; hosts that had users are displaced. *)
LEMMA GetDeadKeeps ==
  ASSUME PoolIInv, NEW u \in User, NEW h \in Host, GetDead(u, h)
  PROVE  PoolIInv'
<1> USE SSHPoolAssumption DEF PoolIInv
<1>1. Structure'
  <2>1. idle' \in [Host -> BOOLEAN]
    <3>1. FALSE \in BOOLEAN
      BY Zenon
    <3> QED  BY <3>1, Zenon DEF GetDead, Remove, PoolTypeOK
  <2> QED
    BY <2>1
    DEF Structure, GetDead, Close, Remove, PoolTypeOK, PooledInv, DialledInv, UsingInv,
        NoClientLeaks
<1>2. ASSUME NEW g \in Host PROVE UsersOf(g)' = UsersOf(g)
  BY NobodyMoves DEF GetDead, PoolTypeOK
<1>3. UsersAreCounted'
  <2> SUFFICES ASSUME ~ shut', NEW g \in Host \ displaced'
               PROVE  /\ \A v \in UsersOf(g)' :
                           has'[v] = connections'[g] /\ link'[has'[v]] # "closed"
                      /\ connections'[g] # NoClient =>
                           refCount'[g] = Cardinality(UsersOf(g))' + kept'[g]
    BY DEF UsersAreCounted
  <2>1. /\ \A v \in UsersOf(g) : has[v] = connections[g] /\ link[has[v]] # "closed"
        /\ connections[g] # NoClient => refCount[g] = Cardinality(UsersOf(g)) + kept[g]
    BY DEF UsersAreCounted, GetDead
  <2>2. g = h => UsersOf(g) = {}
    BY DEF GetDead
  <2>3. UsersOf(g)' = UsersOf(g) /\ Cardinality(UsersOf(g))' = Cardinality(UsersOf(g))
    BY <1>2
  <2>4. \A v \in UsersOf(g) : has[v] \in Client /\ has[v] # connections[h]
    BY <2>1, <2>2 DEF GetDead, UsersOf, UsingInv, PooledInv
  <2> QED  BY <2>1, <2>2, <2>3, <2>4 DEF GetDead, Close, Remove, PoolTypeOK
<1> QED  BY <1>1, <1>3 DEF Structure

(* Dialling changes nobody's use, and only clients that nobody has.         *)
LEMMA DialKeeps ==
  ASSUME PoolIInv, NEW u \in User,
         Dial(u) \/ DialFails(u) \/ \E h \in Host : GetNone(u, h)
  PROVE  PoolIInv'
<1> USE SSHPoolAssumption DEF PoolIInv
<1>1. Structure'
  <2>1. CASE Dial(u)
    BY <2>1
    DEF Structure, Dial, poolMap, PoolTypeOK, PooledInv, DialledInv, UsingInv, NoClientLeaks
  <2>2. CASE DialFails(u)
    BY <2>2
    DEF Structure, DialFails, poolMap, PoolTypeOK, PooledInv, DialledInv, UsingInv,
        NoClientLeaks
  <2>3. ASSUME NEW h \in Host, GetNone(u, h) PROVE Structure'
    BY <2>3
    DEF Structure, GetNone, poolMap, PoolTypeOK, PooledInv, DialledInv, UsingInv, NoClientLeaks
  <2> QED  BY <2>1, <2>2, <2>3
<1>2. ASSUME NEW g \in Host PROVE UsersOf(g)' = UsersOf(g)
  BY NobodyMoves DEF Dial, DialFails, GetNone, PoolTypeOK
<1>3. /\ \A v \in User : userAt[v] = "using" => has'[v] = has[v]
      /\ \A c \in Client : link[c] # "closed" => link'[c] # "closed"
      /\ UNCHANGED <<connections, refCount, kept, displaced, shut>>
  BY DEF Dial, DialFails, GetNone, poolMap, PoolTypeOK
<1>4. UsersAreCounted'
  <2> SUFFICES ASSUME ~ shut', NEW g \in Host \ displaced'
               PROVE  /\ \A v \in UsersOf(g)' :
                           has'[v] = connections'[g] /\ link'[has'[v]] # "closed"
                      /\ connections'[g] # NoClient =>
                           refCount'[g] = Cardinality(UsersOf(g))' + kept'[g]
    BY DEF UsersAreCounted
  <2>1. /\ \A v \in UsersOf(g) : has[v] = connections[g] /\ link[has[v]] # "closed"
        /\ connections[g] # NoClient => refCount[g] = Cardinality(UsersOf(g)) + kept[g]
    BY <1>3 DEF UsersAreCounted
  <2>2. UsersOf(g)' = UsersOf(g) /\ Cardinality(UsersOf(g))' = Cardinality(UsersOf(g))
    BY <1>2
  <2> QED  BY <1>3, <2>1, <2>2 DEF UsersOf, UsingInv
<1> QED  BY <1>1, <1>4 DEF Structure

(* Whoever comes second closes its own client and shares the stored one.    *)
LEMMA StoreKeeps ==
  ASSUME PoolIInv, NEW u \in User, Store(u)
  PROVE  PoolIInv'
<1> USE SSHPoolAssumption DEF PoolIInv
<1> PICK h \in Host : h = host[u]
  BY DEF PoolTypeOK
<1> DEFINE existing == connections[h]
<1>0. h \in Host /\ userAt[u] = "storing" /\ existing \in Client \cup {NoClient}
  BY DEF Store, PoolTypeOK
<1>1. CASE existing # NoClient
  <2>0. /\ Close(has[u]) /\ Use(u, h, existing) /\ Refer(h, refCount[h] + 1)
        /\ UNCHANGED <<connections, kept, displaced, shut>>
    BY <1>1 DEF Store
  <2>1. Structure'
    <3>1. idle' \in [Host -> BOOLEAN]
      BY <2>0, Zenon DEF Refer, PoolTypeOK
    <3>2. has[u] \in Client /\ \A g \in Host : connections[g] # has[u]
      BY <1>0 DEF DialledInv
    <3> QED
      BY <1>0, <1>1, <2>0, <3>1, <3>2
      DEF Structure, Close, Use, Refer, PoolTypeOK, PooledInv, DialledInv, UsingInv,
          NoClientLeaks
  <2>2. ASSUME NEW g \in Host
        PROVE  /\ u \notin UsersOf(g)
               /\ UsersOf(g)' = IF g = h THEN UsersOf(g) \cup {u} ELSE UsersOf(g)
    BY <1>0, <2>0, UserComes DEF Use
  <2>3. Cardinality(UsersOf(h))' = Cardinality(UsersOf(h)) + 1
    BY <1>0, <2>2, OneMore
  <2>4. UsersAreCounted'
    <3> SUFFICES ASSUME ~ shut', NEW g \in Host \ displaced'
                 PROVE  /\ \A v \in UsersOf(g)' :
                             has'[v] = connections'[g] /\ link'[has'[v]] # "closed"
                        /\ connections'[g] # NoClient =>
                             refCount'[g] = Cardinality(UsersOf(g))' + kept'[g]
      BY DEF UsersAreCounted
    <3>1. /\ \A v \in UsersOf(g) : has[v] = connections[g] /\ link[has[v]] # "closed"
          /\ connections[g] # NoClient => refCount[g] = Cardinality(UsersOf(g)) + kept[g]
      BY <2>0 DEF UsersAreCounted
    <3>2. \A v \in UsersOf(g)' : has'[v] = connections'[g] /\ has'[v] # NoClient
      BY <1>0, <1>1, <2>0, <2>2, <3>1, SSHPoolAssumption
      DEF Use, PoolTypeOK, UsersOf, UsingInv
    <3>3. connections'[g] # NoClient => link'[connections'[g]] \in {"up", "broken"}
      BY <2>1 DEF Structure, PooledInv
    <3>4. Cardinality(UsersOf(g)) \in Nat
      BY UsersAreFinite
    <3>5. connections'[g] # NoClient => refCount'[g] = Cardinality(UsersOf(g))' + kept'[g]
      <4>1. CASE g = h
        BY <1>1, <2>0, <2>3, <3>1, <3>4, <4>1 DEF Refer, PoolTypeOK
      <4>2. CASE g # h
        <5>1. Cardinality(UsersOf(g))' = Cardinality(UsersOf(g))
          BY <2>2, <4>2
        <5> QED  BY <2>0, <3>1, <4>2, <5>1 DEF Refer, PoolTypeOK
      <4> QED  BY <4>1, <4>2
    <3> QED  BY <3>2, <3>3, <3>5
  <2> QED  BY <2>1, <2>4 DEF Structure
<1>2. CASE existing = NoClient
  <2>0. /\ connections' = [connections EXCEPT ![h] = has[u]]
        /\ Use(u, h, has[u]) /\ Refer(h, 1)
        /\ UNCHANGED <<link, kept, displaced, shut>>
    BY <1>2 DEF Store
  <2>1. /\ has[u] \in Client /\ link[has[u]] \in {"up", "broken"}
        /\ \A g \in Host : connections[g] # has[u]
    BY <1>0 DEF DialledInv
  <2>2. Structure'
    <3>1. idle' \in [Host -> BOOLEAN]
      BY <2>0, Zenon DEF Refer, PoolTypeOK
    <3> QED
      BY <1>0, <1>2, <2>0, <2>1, <3>1
      DEF Structure, Use, Refer, PoolTypeOK, PooledInv, DialledInv, UsingInv, NoClientLeaks
  <2>3. ASSUME NEW g \in Host
        PROVE  /\ u \notin UsersOf(g)
               /\ UsersOf(g)' = IF g = h THEN UsersOf(g) \cup {u} ELSE UsersOf(g)
    BY <1>0, <2>0, UserComes DEF Use
  <2>4. Cardinality(UsersOf(h))' = Cardinality(UsersOf(h)) + 1
    BY <1>0, <2>3, OneMore
  <2>5. UsersAreCounted'
    <3> SUFFICES ASSUME ~ shut', NEW g \in Host \ displaced'
                 PROVE  /\ \A v \in UsersOf(g)' :
                             has'[v] = connections'[g] /\ link'[has'[v]] # "closed"
                        /\ connections'[g] # NoClient =>
                             refCount'[g] = Cardinality(UsersOf(g))' + kept'[g]
      BY DEF UsersAreCounted
    <3>1. /\ \A v \in UsersOf(g) : has[v] = connections[g] /\ link[has[v]] # "closed"
          /\ connections[g] # NoClient => refCount[g] = Cardinality(UsersOf(g)) + kept[g]
      BY <2>0 DEF UsersAreCounted
    <3>2. CASE g = h
      <4>1. UsersOf(g) = {} /\ kept[g] = 0
        BY <1>0, <1>2, <3>1, <3>2, SSHPoolAssumption DEF UsersOf, UsingInv, PooledInv
      <4>2. Cardinality(UsersOf(g)) = 0
        BY <4>1, FS_EmptySet
      <4> QED
        BY <1>0, <2>0, <2>1, <2>3, <2>4, <3>2, <4>1, <4>2
        DEF Use, Refer, PoolTypeOK
    <3>3. CASE g # h
      <4>1. UsersOf(g)' = UsersOf(g) /\ u \notin UsersOf(g)
        BY <2>3, <3>3
      <4>2. Cardinality(UsersOf(g))' = Cardinality(UsersOf(g))
        BY <4>1
      <4> QED  BY <2>0, <3>1, <3>3, <4>1, <4>2 DEF Use, Refer, PoolTypeOK
    <3> QED  BY <3>2, <3>3
  <2> QED  BY <2>2, <2>5 DEF Structure
<1> QED  BY <1>1, <1>2

(* A user goes, and its reference with it, or it is counted as kept.        *)
LEMMA LeaveKeeps ==
  ASSUME PoolIInv, NEW u \in User, Release(u) \/ SetupFails(u)
  PROVE  PoolIInv'
<1> USE SSHPoolAssumption DEF PoolIInv
<1> PICK h \in Host : h = host[u]
  BY DEF PoolTypeOK
<1>0. /\ userAt[u] = "using" /\ has[u] \in Client
      /\ userAt' = [userAt EXCEPT ![u] = "out"]
      /\ has' = [has EXCEPT ![u] = NoClient]
      /\ UNCHANGED <<link, connections, host, displaced, shut>>
  BY DEF Release, SetupFails, poolMap, UsingInv
<1>1. Structure'
  <2>1. CASE Release(u)
    <3>1. idle' \in [Host -> BOOLEAN]
      BY <2>1, Zenon DEF Release, Refer, PoolTypeOK
    <3> QED
      BY <2>1, <3>1
      DEF Structure, Release, Refer, PoolTypeOK, PooledInv, DialledInv, UsingInv, NoClientLeaks
  <2>2. CASE SetupFails(u)
    BY <1>0, <2>2
    DEF Structure, SetupFails, poolMap, PoolTypeOK, PooledInv, DialledInv, UsingInv,
        NoClientLeaks
  <2> QED  BY <2>1, <2>2
<1>2. ASSUME NEW g \in Host
      PROVE  /\ u \in UsersOf(g) <=> g = h
             /\ UsersOf(g)' = IF g = h THEN UsersOf(g) \ {u} ELSE UsersOf(g)
  BY <1>0, UserGoes
<1>3. Cardinality(UsersOf(h))' = Cardinality(UsersOf(h)) - 1
  BY <1>2, OneLess
<1>4. UsersAreCounted'
  <2> SUFFICES ASSUME ~ shut', NEW g \in Host \ displaced'
               PROVE  /\ \A v \in UsersOf(g)' :
                           has'[v] = connections'[g] /\ link'[has'[v]] # "closed"
                      /\ connections'[g] # NoClient =>
                           refCount'[g] = Cardinality(UsersOf(g))' + kept'[g]
    BY DEF UsersAreCounted
  <2>1. /\ \A v \in UsersOf(g) : has[v] = connections[g] /\ link[has[v]] # "closed"
        /\ connections[g] # NoClient => refCount[g] = Cardinality(UsersOf(g)) + kept[g]
    BY <1>0 DEF UsersAreCounted
  <2>2. Cardinality(UsersOf(g)) \in Nat
    BY UsersAreFinite
  <2>3. \A v \in UsersOf(g)' : v # u /\ v \in UsersOf(g)
    BY <1>2
  <2>4. \A v \in UsersOf(g)' : has'[v] = connections'[g] /\ link'[has'[v]] # "closed"
    BY <1>0, <2>1, <2>3 DEF UsersOf, PoolTypeOK
  <2>5. ASSUME connections'[g] # NoClient
        PROVE  refCount'[g] = Cardinality(UsersOf(g))' + kept'[g]
    <3>1. CASE g = h
      <4>1. has[u] = connections[g]
        BY <1>2, <2>1, <3>1
      <4>2. \/ refCount'[g] = refCount[g] - 1 /\ kept'[g] = kept[g]
            \/ refCount'[g] = refCount[g] /\ kept'[g] = kept[g] + 1
        BY <1>0, <2>5, <3>1, <4>1 DEF Release, SetupFails, Refer, poolMap, PoolTypeOK
      <4>3. kept[g] \in Nat /\ refCount[g] \in Int
        BY DEF PoolTypeOK
      <4> QED  BY <1>0, <1>3, <2>1, <2>2, <2>5, <3>1, <4>2, <4>3
    <3>2. CASE g # h
      <4>1. Cardinality(UsersOf(g))' = Cardinality(UsersOf(g))
        BY <1>2, <3>2
      <4>2. refCount'[g] = refCount[g] /\ kept'[g] = kept[g]
        BY <3>2 DEF Release, SetupFails, Refer, poolMap, PoolTypeOK
      <4> QED  BY <1>0, <2>1, <2>5, <4>1, <4>2
    <3> QED  BY <3>1, <3>2
  <2> QED  BY <2>4, <2>5
<1> QED  BY <1>1, <1>4 DEF Structure

(* The cleanup closes a connection with no reference, so with no user.      *)
LEMMA CleanupKeeps ==
  ASSUME PoolIInv, NEW h \in Host, CleanupIdle(h)
  PROVE  PoolIInv'
<1> USE SSHPoolAssumption DEF PoolIInv
<1>1. Structure'
  <2>1. idle' \in [Host -> BOOLEAN]
    <3>1. FALSE \in BOOLEAN
      BY Zenon
    <3> QED  BY <3>1, Zenon DEF CleanupIdle, Remove, PoolTypeOK
  <2> QED
    BY <2>1
    DEF Structure, CleanupIdle, Close, Remove, users, PoolTypeOK, PooledInv, DialledInv,
        UsingInv, NoClientLeaks
<1>2. ASSUME NEW g \in Host PROVE UsersOf(g)' = UsersOf(g)
  BY DEF CleanupIdle, users, UsersOf
<1>3. UsersAreCounted'
  <2> SUFFICES ASSUME ~ shut', NEW g \in Host \ displaced'
               PROVE  /\ \A v \in UsersOf(g)' :
                           has'[v] = connections'[g] /\ link'[has'[v]] # "closed"
                      /\ connections'[g] # NoClient =>
                           refCount'[g] = Cardinality(UsersOf(g))' + kept'[g]
    BY DEF UsersAreCounted
  <2>1. /\ \A v \in UsersOf(g) : has[v] = connections[g] /\ link[has[v]] # "closed"
        /\ connections[g] # NoClient => refCount[g] = Cardinality(UsersOf(g)) + kept[g]
    BY DEF UsersAreCounted, CleanupIdle
  <2>2. UsersOf(g)' = UsersOf(g) /\ Cardinality(UsersOf(g))' = Cardinality(UsersOf(g))
    BY <1>2
  <2>3. g = h => UsersOf(g) = {}
    <3>1. IsFiniteSet(UsersOf(g)) /\ Cardinality(UsersOf(g)) \in Nat
      BY UsersAreFinite
    <3>2. g = h => Cardinality(UsersOf(g)) = 0
      BY <2>1, <3>1 DEF CleanupIdle, PoolTypeOK
    <3> QED  BY <3>1, <3>2, FS_EmptySet
  <2>4. \A v \in UsersOf(g) : has[v] \in Client /\ has[v] # connections[h]
    BY <2>1, <2>3 DEF CleanupIdle, UsersOf, UsingInv, PooledInv
  <2> QED  BY <2>1, <2>2, <2>3, <2>4 DEF CleanupIdle, Close, Remove, users, PoolTypeOK
<1> QED  BY <1>1, <1>3 DEF Structure

(* CloseAll empties the pool, and closes nobody's fresh client.             *)
LEMMA CloseAllKeeps == PoolIInv /\ CloseAll => PoolIInv'
<1> SUFFICES ASSUME PoolIInv, CloseAll PROVE PoolIInv'
  OBVIOUS
<1> USE SSHPoolAssumption DEF PoolIInv
<1>1. shut' = TRUE /\ shut' \in BOOLEAN /\ idle' \in [Host -> BOOLEAN]
  BY Zenon DEF CloseAll
<1>2. /\ link' \in [Client -> {"new", "up", "broken", "closed"}]
      /\ connections' = [g \in Host |-> NoClient]
      /\ refCount' \in [Host -> Int] /\ kept' = [g \in Host |-> 0]
      /\ UNCHANGED <<userAt, host, has, displaced>>
  BY DEF CloseAll, users, PoolTypeOK
<1>3. \A c \in Client : IF \E g \in Host : connections[g] = c
                        THEN link'[c] = "closed" ELSE link'[c] = link[c]
  BY DEF CloseAll
<1>4. (PoolTypeOK /\ PooledInv /\ DialledInv /\ UsingInv)'
  BY <1>1, <1>2, <1>3 DEF PoolTypeOK, PooledInv, DialledInv, UsingInv
<1>5. NoClientLeaks'
  BY <1>2, <1>3 DEF NoClientLeaks
<1>6. UsersAreCounted'
  BY <1>1 DEF UsersAreCounted
<1> QED  BY <1>4, <1>5, <1>6

(* Time passes, and connections break: nobody looks at either here.         *)
LEMMA OutsideKeeps ==
  ASSUME PoolIInv, (\E c \in Client : Break(c)) \/ (\E h \in Host : IdleTimeout(h))
                 \/ UNCHANGED poolVars
  PROVE  PoolIInv'
<1> USE SSHPoolAssumption DEF PoolIInv
<1>0. ASSUME UNCHANGED <<connections, refCount, users, kept, displaced, shut>>,
             \A c \in Client : link[c] # "closed" => link'[c] # "closed"
      PROVE  UsersAreCounted'
  <2>1. ASSUME NEW g \in Host
        PROVE  UsersOf(g)' = UsersOf(g) /\ Cardinality(UsersOf(g))' = Cardinality(UsersOf(g))
    BY <1>0 DEF UsersOf, users
  <2>2. \A g \in Host : \A v \in UsersOf(g) : has[v] \in Client
    BY DEF UsersOf, UsingInv
  <2> QED  BY <1>0, <2>1, <2>2 DEF UsersAreCounted, users
<1>1. ASSUME NEW c \in Client, Break(c) PROVE PoolIInv'
  <2>1. UsersAreCounted'
    BY <1>0, <1>1 DEF Break, poolMap, PoolTypeOK
  <2> QED
    BY <1>1, <2>1
    DEF Break, poolMap, users, PoolTypeOK, PooledInv, DialledInv, UsingInv, NoClientLeaks
<1>2. ASSUME NEW h \in Host, IdleTimeout(h) PROVE PoolIInv'
  <2>1. idle' \in [Host -> BOOLEAN]
    <3>1. TRUE \in BOOLEAN
      BY Zenon
    <3> QED  BY <1>2, <3>1, Zenon DEF IdleTimeout, PoolTypeOK
  <2>2. UsersAreCounted'
    BY <1>0, <1>2 DEF IdleTimeout
  <2> QED
    BY <1>2, <2>1, <2>2
    DEF IdleTimeout, users, PoolTypeOK, PooledInv, DialledInv, UsingInv, NoClientLeaks
<1>3. CASE UNCHANGED poolVars
  <2>1. UsersAreCounted'
    BY <1>0, <1>3 DEF poolVars, poolMap
  <2> QED
    BY <1>3, <2>1
    DEF poolVars, poolMap, users, PoolTypeOK, PooledInv, DialledInv, UsingInv, NoClientLeaks
<1> QED  BY <1>1, <1>2, <1>3

LEMMA PoolNextIInv == PoolIInv /\ [PoolNext]_poolVars => PoolIInv'
<1> SUFFICES ASSUME PoolIInv, [PoolNext]_poolVars PROVE PoolIInv'
  OBVIOUS
<1>1. ASSUME NEW u \in User, NEW h \in Host, GetPooled(u, h) \/ GetDead(u, h) \/ GetNone(u, h)
      PROVE  PoolIInv'
  BY <1>1, GetPooledKeeps, GetDeadKeeps, DialKeeps
<1>2. ASSUME NEW u \in User,
             Dial(u) \/ DialFails(u) \/ Store(u) \/ Release(u) \/ SetupFails(u)
      PROVE  PoolIInv'
  BY <1>2, DialKeeps, StoreKeeps, LeaveKeeps
<1>3. ASSUME NEW h \in Host, CleanupIdle(h) PROVE PoolIInv'
  BY <1>3, CleanupKeeps
<1>4. CASE CloseAll
  BY <1>4, CloseAllKeeps
<1>5. CASE (\E c \in Client : Break(c)) \/ (\E h \in Host : IdleTimeout(h))
             \/ UNCHANGED poolVars
  BY <1>5, OutsideKeeps
<1> QED  BY <1>1, <1>2, <1>3, <1>4, <1>5 DEF PoolNext
-----------------------------------------------------------------------------
(* The type invariant of the pool.                                          *)
THEOREM PoolTypeCorrect == PoolSpec => []PoolTypeOK
<1>1. PoolIInv => PoolTypeOK
  BY DEF PoolIInv
<1> QED  BY PoolInitIInv, PoolNextIInv, <1>1, PTL DEF PoolSpec

(* However many users dial, share, break and give back connections at once, *)
(* none is lost, and none that was not replaced is closed under its users   *)
(* (ssh_pool.go:91, :165-198).                                              *)
THEOREM ConnectionsAreKept == PoolSpec => []PoolIsSound
<1>1. PoolIInv => PoolIsSound
  BY DEF PoolIInv, PoolIsSound
<1> QED  BY PoolInitIInv, PoolNextIInv, <1>1, PTL DEF PoolSpec
-----------------------------------------------------------------------------
(* The services together: a step of one leaves the variables of the others  *)
(* alone, so each behaviour of Services is one of each of them.             *)
LEMMA ServicesApart ==
  [Next]_vars => [BusNext]_busVars /\ [BreakerNext]_breakerVars /\ [PoolNext]_poolVars
BY DEF Next, Bus, Breaker, Pool, vars

LEMMA ServicesIInv == Spec => [](BusIInv /\ BreakerIInv /\ PoolIInv)
BY BusInitIInv, BreakerInitIInv, PoolInitIInv, BusNextIInv, BreakerNextIInv, PoolNextIInv,
   ServicesApart, PTL
DEF Spec, Init

(* The type invariant of the server's components side by side.              *)
THEOREM ServicesTypeCorrect == Spec => []TypeOK
<1>1. BusIInv /\ BreakerIInv /\ PoolIInv => TypeOK
  BY DEF BusIInv, EventInv, BreakerIInv, PoolIInv, TypeOK
<1> QED  BY ServicesIInv, <1>1, PTL

(* What is proved of each component by itself holds when their steps        *)
(* interleave in one server (they share no state):    *)
(* no event disappears and no key is let through twice, no place of the     *)
(* breaker leaks, and no pooled connection is lost.                         *)
THEOREM ServicesAreSound ==
  Spec => [](AcceptedOrQueued /\ OncePerWindow /\ NoSlotLeaks /\ PoolIsSound)
<1>1. BusIInv /\ BreakerIInv /\ PoolIInv
        => AcceptedOrQueued /\ OncePerWindow /\ NoSlotLeaks /\ PoolIsSound
  BY DEF BusIInv, EventInv, BreakerIInv, PoolIInv, PoolIsSound
<1> QED  BY ServicesIInv, <1>1, PTL
=============================================================================
