---------------------------- MODULE Link_proofs ----------------------------
(***************************************************************************)
(* Theorems about Link for all values of its constants: any clients and    *)
(* targets, any caps, interval and delay, any number of probes and of      *)
(* copies.  What the server does to its own counters is proved in          *)
(* EchoServer_proofs and cited from there.                                 *)
(***************************************************************************)
EXTENDS Link, FiniteSetTheorems, TLAPS

\* The server's proofs, about the server of this link.
P == INSTANCE EchoServer_proofs

-----------------------------------------------------------------------------
(* What is taken over from EchoServer_proofs: its sums and its finite sets *)
(* are those of this module.                                               *)

\* Three modules define finite sets and sums; they agree.
LEMMA SameFinite ==
  ASSUME NEW S
  PROVE  (P!IsFiniteSet(S) <=> IsFiniteSet(S)) /\ (Server!IsFiniteSet(S) <=> IsFiniteSet(S))
BY DEF P!IsFiniteSet, Server!IsFiniteSet, IsFiniteSet

LEMMA SameSum ==
  ASSUME NEW f, NEW S
  PROVE  /\ P!SumFunctionOnSet(f, S) = SumFunctionOnSet(f, S)
         /\ Server!SumFunctionOnSet(f, S) = SumFunctionOnSet(f, S)
<1>1. P!SumFunctionOnSet(f, S) = SumFunctionOnSet(f, S)
  BY Zenon DEF P!SumFunctionOnSet, P!FoldFunctionOnSet, P!MapThenFoldSet,
               SumFunctionOnSet, FoldFunctionOnSet, MapThenFoldSet
<1>2. Server!SumFunctionOnSet(f, S) = SumFunctionOnSet(f, S)
  BY Zenon DEF Server!SumFunctionOnSet, Server!FoldFunctionOnSet, Server!MapThenFoldSet,
               SumFunctionOnSet, FoldFunctionOnSet, MapThenFoldSet
<1>3. QED BY <1>1, <1>2

(* ServerAssumed: the server's constants are as its own theorems assume.   *)
LEMMA ServerAssumed == P!EchoServerAssumption
BY SameFinite, LinkAssumption DEF P!EchoServerAssumption, Server!EchoServerAssumption

\* What the assumptions say of each constant.
LEMMA Constants ==
  /\ IsFiniteSet(Clients) /\ allowed \subseteq Clients /\ Secret \in BOOLEAN
  /\ MaxPktsPerIP \in Nat \ {0} /\ MaxPktsGlobal \in Nat \ {0}
  /\ WindowLen \in Nat \ {0} /\ MaxReceived \in Nat
  /\ IsFiniteSet(Targets) /\ ipOf \in [Targets -> Clients]
  /\ Interval \in Nat \ {0} /\ MaxDelay \in Nat /\ MaxProbes \in Nat /\ MaxDups \in Nat
BY SameFinite, LinkAssumption DEF Server!EchoServerAssumption

\* The lemmas of EchoServer_proofs on finite sets and sums, restated here.
LEMMA SubsetInduction ==
  ASSUME NEW S, IsFiniteSet(S), NEW G,
         \A u \in SUBSET S : (\A v \in SUBSET u : v # u => v \in G) => u \in G
  PROVE  SUBSET S \subseteq G
BY P!SubsetInduction, SameFinite, ServerAssumed

LEMMA SumEmpty ==
  ASSUME NEW f
  PROVE  SumFunctionOnSet(f, {}) = 0
BY P!SumEmpty, SameSum, ServerAssumed

LEMMA SumType ==
  ASSUME NEW f, NEW S, IsFiniteSet(S), \A x \in S : f[x] \in Nat
  PROVE  SumFunctionOnSet(f, S) \in Nat
BY P!SumType, SameFinite, SameSum, ServerAssumed

LEMMA SumElement ==
  ASSUME NEW f, NEW S, IsFiniteSet(S), \A y \in S : f[y] \in Nat, NEW x \in S
  PROVE  SumFunctionOnSet(f, S) = f[x] + SumFunctionOnSet(f, S \ {x})
BY P!SumElement, SameFinite, SameSum, ServerAssumed

LEMMA SumMonotone ==
  ASSUME NEW f, NEW g, NEW S, IsFiniteSet(S),
         \A x \in S : f[x] \in Nat /\ g[x] \in Nat /\ f[x] <= g[x]
  PROVE  SumFunctionOnSet(f, S) <= SumFunctionOnSet(g, S)
BY P!SumMonotone, SameFinite, SameSum, ServerAssumed

LEMMA SumSame ==
  ASSUME NEW f, NEW g, NEW S, IsFiniteSet(S),
         \A x \in S : f[x] \in Nat /\ g[x] = f[x]
  PROVE  SumFunctionOnSet(g, S) = SumFunctionOnSet(f, S)
BY P!SumSame, SameFinite, SameSum, ServerAssumed

LEMMA SumChangesAt ==
  ASSUME NEW f, NEW g, NEW S, IsFiniteSet(S), NEW c \in S,
         \A x \in S : f[x] \in Nat /\ g[x] \in Nat,
         \A x \in S \ {c} : g[x] = f[x]
  PROVE  SumFunctionOnSet(g, S) = SumFunctionOnSet(f, S) + g[c] - f[c]
BY P!SumChangesAt, SameFinite, SameSum, ServerAssumed

LEMMA SumZero ==
  ASSUME NEW f, NEW S, IsFiniteSet(S), \A x \in S : f[x] = 0
  PROVE  SumFunctionOnSet(f, S) = 0
BY P!SumZero, SameFinite, SameSum, ServerAssumed

(* ServerStarts, ServerMoves: what the server does keeps its invariant.    *)
LEMMA ServerStarts == Server!Init => P!ServerInv
BY P!ServerInit, ServerAssumed DEF Server!Init, Server!Nothing, P!Init, P!Nothing

\* The limiter of the instance is the one of the proofs.
LEMMA SameLimit ==
  ASSUME NEW c
  PROVE  /\ Server!Limit(c) <=> P!Limit(c)
         /\ Server!HasRoom(c) <=> P!HasRoom(c)
BY DEF Server!Limit, Server!Charged, Server!HasRoom, Server!Charge, Server!Offer,
       Server!AgeAfter, Server!GlobalBefore, Server!PerIPBefore, Server!WindowOver,
       Server!Nothing, Server!limiter,
       P!Limit, P!Charged, P!HasRoom, P!Charge, P!Offer,
       P!AgeAfter, P!GlobalBefore, P!PerIPBefore, P!WindowOver, P!Nothing, P!limiter

\* A turn of the instance is one of the proofs.
LEMMA SameTurn ==
  ASSUME NEW d
  PROVE  /\ Server!Accepted(d) <=> P!Accepted(d)
         /\ Server!Count(d) <=> P!Count(d)
         /\ Server!Drop(d) <=> P!Drop(d)
         /\ Server!Echo(d) <=> P!Echo(d)
         /\ d \in Server!Datagram <=> d \in P!Datagram
<1>1. Server!Accepted(d) <=> P!Accepted(d)
  BY SameLimit DEF Server!Accepted, Server!Valid, P!Accepted, P!Valid
<1>2. Server!Count(d) <=> P!Count(d)
  BY <1>1, SameSum DEF Server!Count, P!Count, Server!Sum, P!Sum
<1>3. Server!Drop(d) <=> P!Drop(d)
  BY <1>1, SameLimit DEF Server!Drop, P!Drop
<1>4. Server!Echo(d) <=> P!Echo(d)
  BY <1>2, SameLimit DEF Server!Echo, P!Echo
<1>5. d \in Server!Datagram <=> d \in P!Datagram
  BY DEF Server!Datagram, P!Datagram, Server!Forms, P!Forms
<1>6. QED BY <1>1, <1>2, <1>3, <1>4, <1>5

\* A step of the link is one of the server's, or leaves the server alone.
LEMMA ServerMoves ==
  ASSUME P!ServerInv, Server!Next \/ UNCHANGED serverVars
  PROVE  P!ServerInv'
<1>1. P!Next \/ UNCHANGED P!vars
  <2>1. CASE UNCHANGED serverVars
    BY <2>1 DEF serverVars, P!vars, P!limiter, P!history
  <2>2. CASE \E d \in Server!Datagram : Server!Drop(d) \/ Server!Echo(d)
    BY <2>2, SameTurn DEF P!Next
  <2>3. CASE Server!Panic
    <3>1. P!Panic
      BY <2>3, SameTurn, SameLimit DEF Server!Panic, P!Panic, Server!limiter, P!limiter
    <3>2. QED BY <3>1 DEF P!Next
  <2>4. CASE Server!TimePasses
    BY <2>4 DEF Server!TimePasses, P!TimePasses, P!Next, Server!Nothing, P!Nothing
  <2>5. CASE Server!StartFails \/ Server!Listen \/ Server!CloseSocket
             \/ Server!Return \/ Server!Cancel
    BY <2>5 DEF Server!StartFails, Server!Listen, Server!CloseSocket, Server!MustClose,
                Server!Return, Server!Cancel, Server!limiter, Server!history,
                P!StartFails, P!Listen, P!CloseSocket, P!MustClose, P!Return, P!Cancel,
                P!limiter, P!history, P!Next
  <2>6. QED BY <2>1, <2>2, <2>3, <2>4, <2>5 DEF Server!Next
<1>2. QED BY <1>1, P!ServerStep, ServerAssumed

-----------------------------------------------------------------------------
(* Types.                                                                  *)

NetworkType ==
  /\ authentic \in Kinds
  /\ issued \in [Targets -> 0 .. MaxProbes]
  /\ open \in [Targets -> SUBSET Probes]
  /\ echoed \in [Targets -> SUBSET Probes] /\ lost \in [Targets -> SUBSET Probes]
  /\ since \in [Targets -> 0 .. Interval]
  /\ forward \subseteq [t : Targets, seq : Probes, age : 0 .. MaxDelay, copy : 0 .. MaxDups]
  /\ IsFiniteSet(forward)
  /\ back \subseteq [t : Targets, seq : Probes] /\ IsFiniteSet(back)
  /\ vanished \in [Clients -> Nat] /\ dups \in 0 .. MaxDups

Base == P!ServerInv /\ NetworkType

\* A link starts with both ends in their types.
LEMMA BaseInit == Init => Base
<1> SUFFICES ASSUME Init PROVE Base
  OBVIOUS
<1>1. NetworkType
  BY Constants, FS_EmptySet DEF Init, NetworkType, Probes
<1>2. QED BY <1>1, ServerStarts DEF Init, Base

\* The server's part of each step.
LEMMA BaseServer ==
  ASSUME Base, Next
  PROVE  P!ServerInv'
<1>1. ASSUME NEW m \in forward PROVE Datagram(m) \in Server!Datagram
  <2>1. m.t \in Targets /\ ipOf[m.t] \in Clients
    BY Constants DEF Base, NetworkType
  <2>2. authentic \in Server!Forms
    BY Constants DEF Base, NetworkType, Kinds, Server!Forms
  <2>3. QED BY <2>1, <2>2 DEF Datagram, Server!Datagram
<1>2. Server!Next \/ UNCHANGED serverVars
  <2>1. CASE \E t \in Targets : Send(t) \/ Timeout(t)
    BY <2>1 DEF Send, Timeout
  <2>2. CASE \E e \in back : TakeEcho(e)
    BY <2>2 DEF TakeEcho
  <2>3. CASE \E m \in forward : Vanish(m) \/ Duplicate(m)
    BY <2>3 DEF Vanish, Duplicate
  <2>4. CASE \E m \in forward : Refuse(m) \/ Reflect(m)
    BY <2>4, <1>1 DEF Refuse, Reflect, Server!Next
  <2>5. CASE \E m \in forward : PanicOn(m)
    BY <2>5 DEF PanicOn, Server!Next
  <2>6. CASE ServerRuns
    BY <2>6 DEF ServerRuns, Server!Next
  <2>7. CASE TimePasses
    BY <2>7 DEF TimePasses, Server!Next
  <2>8. QED BY <2>1, <2>2, <2>3, <2>4, <2>5, <2>6, <2>7 DEF Next
<1>3. QED BY <1>2, ServerMoves DEF Base

\* Forwarded datagrams stay a finite set of them.
LEMMA TypeTargets ==
  ASSUME NetworkType, NEW t \in Targets, Send(t) \/ Timeout(t)
  PROVE  NetworkType'
<1> USE Constants DEF NetworkType, Probes
<1>1. CASE Send(t)
  <2> DEFINE m == [t |-> t, seq |-> issued'[t], age |-> 0, copy |-> 0]
  <2>1. issued' \in [Targets -> 0 .. MaxProbes] /\ issued'[t] \in 1 .. MaxProbes
    BY <1>1 DEF Send
  <2>2. /\ forward' \subseteq [t : Targets, seq : Probes, age : 0 .. MaxDelay, copy : 0 .. MaxDups]
        /\ IsFiniteSet(forward')
    <3>1. m \in [t : Targets, seq : Probes, age : 0 .. MaxDelay, copy : 0 .. MaxDups]
      BY <2>1
    <3>2. forward' = forward \cup {m}
      BY <1>1 DEF Send
    <3> HIDE DEF m
    <3>3. QED BY <3>1, <3>2, FS_AddElement
  <2>3. open' \in [Targets -> SUBSET Probes]
    BY <1>1, <2>1 DEF Send
  <2>4. since' \in [Targets -> 0 .. Interval]
    BY <1>1 DEF Send
  <2>5. QED BY <1>1, <2>1, <2>2, <2>3, <2>4 DEF Send
<1>2. CASE Timeout(t)
  BY <1>2 DEF Timeout, network
<1>3. QED BY <1>1, <1>2

\* The network alone keeps the types.
LEMMA TypeNetwork ==
  ASSUME NetworkType, NEW m \in forward, Vanish(m) \/ Duplicate(m)
  PROVE  NetworkType'
<1> USE Constants DEF NetworkType, ledgers
<1>1. CASE Vanish(m)
  BY <1>1, FS_RemoveElement DEF Vanish
<1>2. CASE Duplicate(m)
  <2> DEFINE n == [m EXCEPT !.copy = dups']
  <2>1. dups' \in 0 .. MaxDups
    BY <1>2 DEF Duplicate
  <2>2. n \in [t : Targets, seq : Probes, age : 0 .. MaxDelay, copy : 0 .. MaxDups]
    BY <2>1
  <2>3. forward' = forward \cup {n}
    BY <1>2 DEF Duplicate
  <2> HIDE DEF n
  <2>4. IsFiniteSet(forward')
    BY <2>3, FS_AddElement
  <2>5. QED BY <1>2, <2>1, <2>2, <2>3, <2>4 DEF Duplicate
<1>3. QED BY <1>1, <1>2

\* So does the server, with the datagram it takes.
LEMMA TypeServed ==
  ASSUME NetworkType, NEW m \in forward, Refuse(m) \/ Reflect(m) \/ PanicOn(m)
  PROVE  NetworkType'
<1> USE Constants DEF NetworkType, ledgers
<1>1. IsFiniteSet(forward \ {m}) /\ IsFiniteSet(back \cup {EchoOf(m)})
  BY FS_RemoveElement, FS_AddElement
<1>2. EchoOf(m) \in [t : Targets, seq : Probes]
  BY DEF EchoOf
<1>3. CASE Refuse(m)
  BY <1>1, <1>3 DEF Refuse, WrittenOnDrop
<1>4. CASE Reflect(m)
  BY <1>1, <1>2, <1>4 DEF Reflect
<1>5. CASE PanicOn(m)
  BY <1>1, <1>5 DEF PanicOn
<1>6. QED BY <1>3, <1>4, <1>5

\* A datagram, one tick older.
Older(m) == [m EXCEPT !.age = @ + 1]

\* Ageing loses no datagram and joins no two.
LEMMA OlderSet ==
  ASSUME NEW F, IsFiniteSet(F),
         F \subseteq [t : Targets, seq : Probes, age : 0 .. MaxDelay, copy : 0 .. MaxDups]
  PROVE  /\ IsFiniteSet({Older(m) : m \in F})
         /\ Cardinality({Older(m) : m \in F}) = Cardinality(F)
<1> DEFINE T == {Older(m) : m \in F}
           f == [m \in F |-> Older(m)]
<1>1. f \in Surjection(F, T)
  BY DEF Surjection
<1>2. f \in Injection(F, T)
  <2>1. ASSUME NEW m \in F, NEW n \in F, Older(m) = Older(n) PROVE m = n
    <3>1. /\ Older(m).t = m.t /\ Older(m).seq = m.seq
          /\ Older(m).age = m.age + 1 /\ Older(m).copy = m.copy
          /\ Older(n).t = n.t /\ Older(n).seq = n.seq
          /\ Older(n).age = n.age + 1 /\ Older(n).copy = n.copy
      BY DEF Older
    <3>2. m.t = n.t /\ m.seq = n.seq /\ m.age = n.age /\ m.copy = n.copy
      BY <2>1, <3>1, Constants
    <3>3. QED BY <3>2
  <2>2. f \in [F -> T] /\ \A m, n \in DOMAIN f : f[m] = f[n] => m = n
    BY <2>1
  <2> HIDE DEF f, T
  <2>3. QED BY <2>2 DEF Injection, IsInjective
<1> HIDE DEF f, T
<1>3. IsFiniteSet(T) /\ Cardinality(T) = Cardinality(F)
  BY <1>1, <1>2, FS_Surjection
<1>4. QED BY <1>3 DEF T

\* So does a tick.
LEMMA TypeTime ==
  ASSUME NetworkType, TimePasses
  PROVE  NetworkType'
<1> USE Constants DEF NetworkType, ledgers
<1>1. forward' = {Older(m) : m \in forward}
  BY DEF TimePasses, Older
<1>2. IsFiniteSet(forward')
  BY <1>1, OlderSet
<1>3. forward' \subseteq [t : Targets, seq : Probes, age : 0 .. MaxDelay, copy : 0 .. MaxDups]
  <2> SUFFICES ASSUME NEW m \in forward
               PROVE  Older(m) \in [t : Targets, seq : Probes, age : 0 .. MaxDelay, copy : 0 .. MaxDups]
    BY <1>1
  <2>1. m.age + 1 \in 0 .. MaxDelay
    BY DEF TimePasses
  <2>2. QED BY <2>1 DEF Older
<1>4. since' \in [Targets -> 0 .. Interval]
  BY DEF TimePasses
<1>5. QED BY <1>2, <1>3, <1>4 DEF TimePasses

\* Base is inductive.
LEMMA BaseStep ==
  ASSUME Base, [Next]_vars
  PROVE  Base'
<1>1. CASE UNCHANGED vars
  <2>1. P!ServerInv'
    BY <1>1, ServerMoves DEF Base, vars
  <2>2. NetworkType'
    BY <1>1 DEF Base, NetworkType, vars, ledgers, network
  <2>3. QED BY <2>1, <2>2 DEF Base
<1>2. CASE Next
  <2>1. P!ServerInv'
    BY <1>2, BaseServer
  <2>2. NetworkType'
    <3>1. CASE \E t \in Targets : Send(t) \/ Timeout(t)
      BY <3>1, TypeTargets DEF Base
    <3>2. CASE \E e \in back : TakeEcho(e)
      BY <3>2 DEF Base, NetworkType, TakeEcho, Matches, network
    <3>3. CASE \E m \in forward : Vanish(m) \/ Duplicate(m)
      BY <3>3, TypeNetwork DEF Base
    <3>4. CASE \E m \in forward : Refuse(m) \/ Reflect(m) \/ PanicOn(m)
      BY <3>4, TypeServed DEF Base
    <3>5. CASE ServerRuns
      BY <3>5 DEF Base, NetworkType, ServerRuns, ledgers, network
    <3>6. CASE TimePasses
      BY <3>6, TypeTime DEF Base
    <3>7. QED BY <1>2, <3>1, <3>2, <3>3, <3>4, <3>5, <3>6 DEF Next
  <2>3. QED BY <2>1, <2>2 DEF Base
<1>3. QED BY <1>1, <1>2

\* Base holds in every state.
LEMMA BaseAlways == Spec => []Base
BY BaseInit, BaseStep, PTL DEF Spec

(* TypeOK: both ends and the network have their types, the server's        *)
(* counters their caps.                                                    *)
THEOREM TypeCorrect == Spec => []TypeOK
<1>1. Base => TypeOK
  <2> SUFFICES ASSUME Base PROVE TypeOK
    OBVIOUS
  <2>1. Server!TypeOK
    <3>1. P!TypeOK
      BY P!ServerTypes, ServerAssumed DEF Base
    <3>2. QED BY <3>1 DEF P!TypeOK, Server!TypeOK
  <2>2. authentic \in Server!Forms
    BY Constants DEF Base, NetworkType, Kinds, Server!Forms
  <2>3. QED BY <2>1, <2>2 DEF Base, NetworkType, TypeOK
<1>2. QED BY <1>1, BaseAlways, PTL

-----------------------------------------------------------------------------
(* Round trips.                                                            *)

\* The different echoes of a target's probes that the server wrote.
Written(t) == {e \in back : e.t = t}
WrittenTo(c) == Total([t \in Targets |-> Cardinality(Written(t))], c)

\* A round trip is one of them, and each of them was counted before.
RoundTripsWritten == \A t \in Targets : \A s \in echoed[t] : [t |-> t, seq |-> s] \in back
WrittenCounted == \A c \in Clients : WrittenTo(c) <= received[c]

\* The sums over the targets of a client are finite ones of numbers.
LEMMA TargetsOfFinite ==
  ASSUME NEW c
  PROVE  IsFiniteSet(TargetsOf(c)) /\ TargetsOf(c) \subseteq Targets
BY Constants, FS_Subset DEF TargetsOf

LEMMA ReceivedType == Base => received \in [Clients -> Nat]
BY DEF Base, P!ServerInv, P!EchoesCounted

LEMMA WrittenType ==
  ASSUME NetworkType
  PROVE  /\ \A t \in Targets : IsFiniteSet(Written(t)) /\ Cardinality(Written(t)) \in Nat
         /\ \A c \in Clients : WrittenTo(c) \in Nat
<1>1. ASSUME NEW t \in Targets PROVE IsFiniteSet(Written(t)) /\ Cardinality(Written(t)) \in Nat
  <2>1. IsFiniteSet(Written(t))
    BY FS_Subset DEF NetworkType, Written
  <2>2. QED BY <2>1, FS_CardinalityType
<1>2. ASSUME NEW c \in Clients PROVE WrittenTo(c) \in Nat
  <2> DEFINE f == [t \in Targets |-> Cardinality(Written(t))]
  <2>1. \A t \in TargetsOf(c) : f[t] \in Nat
    BY <1>1, TargetsOfFinite
  <2> HIDE DEF f
  <2>2. SumFunctionOnSet(f, TargetsOf(c)) \in Nat
    BY <2>1, TargetsOfFinite, SumType
  <2>3. QED BY <2>2 DEF WrittenTo, Total, f
<1>3. QED BY <1>1, <1>2

\* At first nothing is written or counted.
LEMMA CountedInit == Init => RoundTripsWritten /\ WrittenCounted
<1> SUFFICES ASSUME Init PROVE RoundTripsWritten /\ WrittenCounted
  OBVIOUS
<1>1. RoundTripsWritten
  BY DEF Init, RoundTripsWritten
<1>2. ASSUME NEW c \in Clients PROVE WrittenTo(c) = 0
  <2> DEFINE f == [t \in Targets |-> Cardinality(Written(t))]
  <2>1. ASSUME NEW t \in TargetsOf(c) PROVE f[t] = 0
    <3>1. Written(t) = {} /\ t \in Targets
      BY TargetsOfFinite DEF Init, Written
    <3>2. QED BY <3>1, FS_EmptySet
  <2> HIDE DEF f
  <2>2. SumFunctionOnSet(f, TargetsOf(c)) = 0
    BY <2>1, TargetsOfFinite, SumZero
  <2>3. QED BY <2>2 DEF WrittenTo, Total, f
<1>3. \A c \in Clients : received[c] = 0
  BY DEF Init, Server!Init, Server!Nothing
<1>4. QED BY <1>1, <1>2, <1>3 DEF WrittenCounted

\* An element joins a finite set: one more, or none.
LEMMA OneMoreAtMost ==
  ASSUME NEW S, NEW x, IsFiniteSet(S)
  PROVE  Cardinality(S \cup {x}) <= Cardinality(S) + 1
<1>1. Cardinality(S) \in Nat
  BY FS_CardinalityType
<1>2. Cardinality(S \cup {x}) = IF x \in S THEN Cardinality(S) ELSE Cardinality(S) + 1
  BY FS_AddElement
<1>3. QED BY <1>1, <1>2

\* A datagram that is echoed was counted in the same step.
LEMMA ReflectCounts ==
  ASSUME Base, Base', WrittenCounted, NEW m \in forward, Reflect(m)
  PROVE  WrittenCounted'
<1> SUFFICES ASSUME NEW c \in Clients PROVE WrittenTo(c)' <= received'[c]
  BY DEF WrittenCounted
<1> DEFINE f == [t \in Targets |-> Cardinality(Written(t))]
           g == [t \in Targets |-> Cardinality(Written(t)')]
           u == m.t
<1>1. /\ u \in Targets /\ u \in TargetsOf(ipOf[u]) /\ ipOf[u] \in Clients
      /\ received' = [received EXCEPT ![ipOf[u]] = @ + 1]
      /\ back' = back \/ back' = back \cup {EchoOf(m)}
  BY Constants DEF Reflect, Server!Echo, Server!Count, Datagram, Base, NetworkType, TargetsOf
<1>2. /\ \A t \in Targets : f[t] \in Nat /\ g[t] \in Nat
      /\ WrittenTo(c) = SumFunctionOnSet(f, TargetsOf(c)) /\ WrittenTo(c) \in Nat
      /\ WrittenTo(c)' = SumFunctionOnSet(g, TargetsOf(c))
  <2>1. /\ \A t \in Targets : Cardinality(Written(t)) \in Nat
        /\ WrittenTo(c) \in Nat
    BY WrittenType DEF Base
  <2>2. \A t \in Targets : Cardinality(Written(t)') \in Nat
    <3>1. ASSUME NEW t \in Targets PROVE Cardinality(Written(t)') \in Nat
      <4>1. Written(t)' = {e \in back' : e.t = t} /\ IsFiniteSet(back')
        BY DEF Written, Base, NetworkType
      <4>2. IsFiniteSet(Written(t)')
        BY <4>1, FS_Subset
      <4>3. QED BY <4>2, FS_CardinalityType
    <3>2. QED BY <3>1
  <2>3. QED BY <2>1, <2>2 DEF WrittenTo, Total, TargetsOf
<1>3. \A t \in Targets \ {u} : g[t] = f[t]
  <2>1. ASSUME NEW t \in Targets \ {u} PROVE Written(t)' = Written(t)
    BY <1>1 DEF Written, EchoOf
  <2>2. QED BY <2>1
<1>4. g[u] <= f[u] + 1
  <2>1. Written(u)' = Written(u) \/ Written(u)' = Written(u) \cup {EchoOf(m)}
    BY <1>1 DEF Written, EchoOf
  <2>2. IsFiniteSet(Written(u)) /\ Cardinality(Written(u)) \in Nat
    BY <1>1, WrittenType DEF Base
  <2>3. Cardinality(Written(u)') <= Cardinality(Written(u)) + 1
    <3>1. CASE Written(u)' = Written(u)
      BY <2>2, <3>1
    <3>2. CASE Written(u)' = Written(u) \cup {EchoOf(m)}
      BY <2>2, <3>2, OneMoreAtMost
    <3>3. QED BY <2>1, <3>1, <3>2
  <2>4. QED BY <1>1, <2>3
<1>5. IsFiniteSet(TargetsOf(c)) /\ TargetsOf(c) \subseteq Targets
  BY TargetsOfFinite
<1>6. WrittenTo(c) <= received[c] /\ received[c] \in Nat
  BY ReceivedType DEF WrittenCounted
<1>7. received \in [Clients -> Nat]
  BY ReceivedType
<1> HIDE DEF f, g, u
<1>8. CASE ipOf[u] = c
  <2>1. u \in TargetsOf(c) /\ received'[c] = received[c] + 1
    BY <1>1, <1>7, <1>8
  <2>2. SumFunctionOnSet(g, TargetsOf(c)) = SumFunctionOnSet(f, TargetsOf(c)) + g[u] - f[u]
    BY <1>2, <1>3, <1>5, <2>1, SumChangesAt
  <2>3. f[u] \in Nat /\ g[u] \in Nat
    BY <1>1, <1>2
  <2>4. QED BY <1>2, <1>4, <1>6, <2>1, <2>2, <2>3
<1>9. CASE ipOf[u] # c
  <2>1. u \notin TargetsOf(c) /\ received'[c] = received[c]
    BY <1>1, <1>7, <1>9 DEF TargetsOf
  <2>2. \A t \in TargetsOf(c) : f[t] \in Nat /\ g[t] = f[t]
    BY <1>2, <1>3, <1>5, <2>1
  <2>3. SumFunctionOnSet(g, TargetsOf(c)) = SumFunctionOnSet(f, TargetsOf(c))
    BY <1>5, <2>2, SumSame
  <2>4. QED BY <1>2, <1>6, <2>1, <2>3
<1>10. QED BY <1>8, <1>9

\* Both facts survive every step.
LEMMA CountedStep ==
  ASSUME Base, Base', RoundTripsWritten, WrittenCounted, [Next]_vars
  PROVE  RoundTripsWritten' /\ WrittenCounted'
<1>1. ASSUME back' = back, \A c \in Clients : received[c] <= received'[c]
      PROVE  WrittenCounted'
  <2>1. \A c \in Clients : received[c] \in Nat /\ received'[c] \in Nat /\ WrittenTo(c) \in Nat
    <3>1. received' \in [Clients -> Nat]
      BY DEF Base, P!ServerInv, P!EchoesCounted
    <3>2. QED BY <3>1, ReceivedType, WrittenType DEF Base
  <2>2. \A c \in Clients : WrittenTo(c)' = WrittenTo(c)
    BY <1>1 DEF WrittenTo, Total, Written, TargetsOf
  <2>3. QED BY <1>1, <2>1, <2>2 DEF WrittenCounted
<1>2. ASSUME received' = received PROVE \A c \in Clients : received[c] <= received'[c]
  BY <1>2, ReceivedType
<1>3. CASE UNCHANGED vars
  <2>1. UNCHANGED <<echoed, back, received>>
    BY <1>3 DEF vars, serverVars, ledgers, network
  <2>2. QED BY <1>1, <1>2, <2>1 DEF RoundTripsWritten
<1>4. CASE \E t \in Targets : Send(t) \/ Timeout(t)
  <2>1. UNCHANGED <<echoed, back, received>>
    BY <1>4 DEF Send, Timeout, serverVars, network
  <2>2. QED BY <1>1, <1>2, <2>1 DEF RoundTripsWritten
<1>5. CASE \E e \in back : TakeEcho(e)
  <2>1. PICK e \in back : TakeEcho(e)
    BY <1>5
  <2>2. UNCHANGED <<back, received>> /\ echoed' = [echoed EXCEPT ![e.t] = @ \cup {e.seq}]
    BY <2>1 DEF TakeEcho, serverVars, network
  <2>3. e = [t |-> e.t, seq |-> e.seq]
    BY DEF Base, NetworkType
  <2>4. RoundTripsWritten'
    BY <2>2, <2>3 DEF Base, NetworkType, RoundTripsWritten
  <2>5. QED BY <1>1, <1>2, <2>2, <2>4
<1>6. CASE \E m \in forward : Vanish(m) \/ Duplicate(m) \/ Refuse(m)
  <2>1. UNCHANGED <<echoed, back, received>>
    BY <1>6 DEF Vanish, Duplicate, Refuse, WrittenOnDrop, Server!Drop, serverVars, ledgers
  <2>2. QED BY <1>1, <1>2, <2>1 DEF RoundTripsWritten
<1>7. CASE \E m \in forward : Reflect(m)
  <2>1. PICK m \in forward : Reflect(m)
    BY <1>7
  <2>2. WrittenCounted'
    BY <2>1, ReflectCounts
  <2>3. echoed' = echoed /\ back \subseteq back'
    BY <2>1 DEF Reflect, ledgers
  <2>4. QED BY <2>2, <2>3 DEF RoundTripsWritten
<1>8. CASE \E m \in forward : PanicOn(m)
  <2>1. PICK m \in forward : PanicOn(m)
    BY <1>8
  <2>2. UNCHANGED <<echoed, back>>
    BY <2>1 DEF PanicOn, ledgers
  <2>3. \A c \in Clients : received[c] <= received'[c]
    BY <2>1, ReceivedType DEF PanicOn
  <2>4. QED BY <1>1, <2>2, <2>3 DEF RoundTripsWritten
<1>9. CASE ServerRuns \/ TimePasses
  <2>1. UNCHANGED <<echoed, back, received>>
    BY <1>9 DEF ServerRuns, TimePasses, Server!StartFails, Server!Listen, Server!CloseSocket,
                Server!Return, Server!Cancel, Server!TimePasses, ledgers, network
  <2>2. QED BY <1>1, <1>2, <2>1 DEF RoundTripsWritten
<1>10. QED BY <1>3, <1>4, <1>5, <1>6, <1>7, <1>8, <1>9 DEF Next

\* Both facts hold in every state.
LEMMA CountedAlways == Spec => [](Base /\ RoundTripsWritten /\ WrittenCounted)
<1>1. Init => Base /\ RoundTripsWritten /\ WrittenCounted
  BY BaseInit, CountedInit
<1>2. Base /\ RoundTripsWritten /\ WrittenCounted /\ [Next]_vars
        => (Base /\ RoundTripsWritten /\ WrittenCounted)'
  BY BaseStep, CountedStep
<1>3. QED BY <1>1, <1>2, PTL DEF Spec

(* EchoedWasCounted: no client counts more round trips than the server     *)
(* counted of its probes (link_rtt_seconds_count never exceeds             *)
(* link_server_probes_received_total).                                     *)
THEOREM RoundTripsCounted == Spec => []EchoedWasCounted
<1>1. Base /\ RoundTripsWritten /\ WrittenCounted => EchoedWasCounted
  <2> SUFFICES ASSUME Base, RoundTripsWritten, WrittenCounted, NEW c \in Clients
               PROVE  RoundTrips(c) <= received[c]
    BY DEF EchoedWasCounted
  <2> DEFINE f == [t \in Targets |-> Cardinality(echoed[t])]
             g == [t \in Targets |-> Cardinality(Written(t))]
  <2>1. ASSUME NEW t \in TargetsOf(c)
        PROVE  f[t] \in Nat /\ g[t] \in Nat /\ f[t] <= g[t]
    <3> DEFINE h == [s \in echoed[t] |-> [t |-> t, seq |-> s]]
    <3>1. t \in Targets
      BY TargetsOfFinite
    <3>2. h \in Injection(echoed[t], Written(t))
      <4>1. \A s \in echoed[t] : [t |-> t, seq |-> s] \in Written(t)
        BY <3>1 DEF RoundTripsWritten, Written
      <4>2. \A r, s \in echoed[t] : h[r] = h[s] => r = s
        <5>1. ASSUME NEW r \in echoed[t], NEW s \in echoed[t], h[r] = h[s] PROVE r = s
          <6>1. h[r].seq = r /\ h[s].seq = s
            OBVIOUS
          <6>2. QED BY <5>1, <6>1
        <5>2. QED BY <5>1
      <4>3. h \in [echoed[t] -> Written(t)] /\ DOMAIN h = echoed[t]
        BY <4>1
      <4> HIDE DEF h
      <4>4. QED BY <4>2, <4>3 DEF Injection, IsInjective
    <3> HIDE DEF h
    <3>3. IsFiniteSet(Written(t)) /\ Cardinality(Written(t)) \in Nat
      BY <3>1, WrittenType DEF Base
    <3>4. IsFiniteSet(echoed[t]) /\ Cardinality(echoed[t]) <= Cardinality(Written(t))
      BY <3>2, <3>3, FS_Injection
    <3>5. Cardinality(echoed[t]) \in Nat
      BY <3>4, FS_CardinalityType
    <3>6. QED BY <3>1, <3>3, <3>4, <3>5
  <2> HIDE DEF f, g
  <2>2. SumFunctionOnSet(f, TargetsOf(c)) <= SumFunctionOnSet(g, TargetsOf(c))
    BY <2>1, TargetsOfFinite, SumMonotone
  <2>3. SumFunctionOnSet(f, TargetsOf(c)) \in Nat
    BY <2>1, TargetsOfFinite, SumType
  <2>4. RoundTrips(c) = SumFunctionOnSet(f, TargetsOf(c))
        /\ WrittenTo(c) = SumFunctionOnSet(g, TargetsOf(c))
    BY DEF RoundTrips, WrittenTo, Total, f, g
  <2>5. WrittenTo(c) <= received[c] /\ received[c] \in Nat /\ WrittenTo(c) \in Nat
    BY ReceivedType, WrittenType DEF WrittenCounted, Base
  <2>6. QED BY <2>2, <2>3, <2>4, <2>5
<1>2. QED BY <1>1, CountedAlways, PTL

-----------------------------------------------------------------------------
(* What delay can crowd into a window.                                     *)

\* How many probes of a target can have reached the server in a window that
\* has run for w ticks, or be on their way to it, if the last was sent s ago:
\* those sent in the window and up to MaxDelay before it, Interval apart.
Allowance(s, w) == IF s > w + MaxDelay THEN 0 ELSE (w + MaxDelay - s) \div Interval + 1

\* An allowance is a number.
LEMMA AllowanceType ==
  ASSUME NEW s \in 0 .. Interval, NEW w \in Nat
  PROVE  Allowance(s, w) \in Nat
<1>1. CASE s > w + MaxDelay
  BY <1>1 DEF Allowance
<1>2. CASE ~(s > w + MaxDelay)
  <2>1. w + MaxDelay - s \in Nat
    BY <1>2, Constants
  <2>2. (w + MaxDelay - s) \div Interval \in Nat
    BY <2>1, Constants
  <2>3. QED BY <1>2, <2>2 DEF Allowance
<1>3. QED BY <1>1, <1>2

\* A probe sent when the interval is over is one more.
LEMMA AllowanceOfSend ==
  ASSUME NEW w \in Nat
  PROVE  Allowance(0, w) = Allowance(Interval, w) + 1
<1> DEFINE x == w + MaxDelay
<1>1. x \in Nat /\ Interval \in Nat \ {0}
  BY Constants
<1>2. Allowance(0, w) = x \div Interval + 1
  BY <1>1, Constants DEF Allowance
<1>3. CASE Interval > x
  <2>1. x \div Interval = 0
    BY <1>1, <1>3
  <2>2. Allowance(Interval, w) = 0
    BY <1>3 DEF Allowance
  <2>3. QED BY <1>2, <2>1, <2>2
<1>4. CASE ~(Interval > x)
  <2> DEFINE y == w + MaxDelay - Interval
  <2>1. Allowance(Interval, w) = y \div Interval + 1
    BY <1>4 DEF Allowance
  <2>2. y \in Nat /\ x = y + Interval
    BY <1>1, <1>4, Constants
  <2> HIDE DEF x, y
  <2>3. (y + Interval) \div Interval = y \div Interval + 1 /\ y \div Interval \in Nat
    BY <1>1, <2>2
  <2>4. QED BY <1>2, <2>1, <2>2, <2>3
<1>5. QED BY <1>3, <1>4

\* As time passes there is never less.
LEMMA AllowanceOfTime ==
  ASSUME NEW s \in 0 .. Interval, NEW w \in Nat
  PROVE  Allowance(s, w) <= Allowance(IF s < Interval THEN s + 1 ELSE s, w + 1)
<1> USE Constants
<1>1. CASE s < Interval
  <2>1. (w + 1) + MaxDelay - (s + 1) = w + MaxDelay - s
        /\ (s + 1 > (w + 1) + MaxDelay <=> s > w + MaxDelay)
    OBVIOUS
  <2>2. Allowance(s + 1, w + 1) = Allowance(s, w)
    BY <2>1 DEF Allowance
  <2>3. QED BY <1>1, <2>2, AllowanceType
<1>2. CASE s = Interval
  <2>1. CASE s > w + MaxDelay
    <3>1. Allowance(s, w) = 0 /\ Allowance(s, w + 1) \in Nat
      BY <2>1, AllowanceType DEF Allowance
    <3>2. QED BY <1>2, <3>1
  <2>2. CASE ~(s > w + MaxDelay)
    <3> DEFINE x == w + MaxDelay - s
               y == (w + 1) + MaxDelay - s
    <3>1. x \in Nat /\ y \in Nat /\ x <= y /\ Interval \in Nat \ {0}
          /\ ~(s > (w + 1) + MaxDelay)
      BY <2>2
    <3>2. Allowance(s, w) = x \div Interval + 1 /\ Allowance(s, w + 1) = y \div Interval + 1
      BY <2>2, <3>1 DEF Allowance
    <3> HIDE DEF x, y
    <3>3. x \div Interval <= y \div Interval /\ x \div Interval \in Nat /\ y \div Interval \in Nat
      BY <3>1
    <3>4. QED BY <1>2, <3>2, <3>3
  <2>3. QED BY <2>1, <2>2
<1>3. QED BY <1>1, <1>2

LEMMA PerWindowType == PerWindow \in Nat
<1>1. WindowLen + MaxDelay - 1 \in Nat /\ Interval \in Nat \ {0}
  BY Constants
<1>2. (WindowLen + MaxDelay - 1) \div Interval \in Nat
  BY <1>1
<1>3. QED BY <1>2 DEF PerWindow

\* PerWindow is the most there is before the window is over.
LEMMA AllowanceMax ==
  ASSUME NEW s \in 0 .. Interval, NEW w \in 0 .. WindowLen - 1
  PROVE  Allowance(s, w) <= PerWindow
<1> USE Constants
<1>1. CASE s > w + MaxDelay
  BY <1>1, PerWindowType DEF Allowance
<1>2. CASE ~(s > w + MaxDelay)
  <2> DEFINE x == w + MaxDelay - s
             y == WindowLen + MaxDelay - 1
  <2>1. x \in Nat /\ y \in Nat /\ x <= y /\ Interval \in Nat \ {0}
    BY <1>2
  <2>2. Allowance(s, w) = x \div Interval + 1 /\ PerWindow = y \div Interval + 1
    BY <1>2 DEF Allowance, PerWindow
  <2> HIDE DEF x, y
  <2>3. x \div Interval <= y \div Interval /\ x \div Interval \in Nat /\ y \div Interval \in Nat
    BY <2>1
  <2>4. QED BY <2>2, <2>3
<1>3. QED BY <1>1, <1>2

\* The same for a set of targets.
Room(s, w, T) == SumFunctionOnSet([t \in Targets |-> Allowance(s[t], w)], T)

\* What a set of targets may bring is a number.
LEMMA RoomType ==
  ASSUME NEW s \in [Targets -> 0 .. Interval], NEW w \in Nat, NEW T \in SUBSET Targets
  PROVE  Room(s, w, T) \in Nat
<1> DEFINE f == [t \in Targets |-> Allowance(s[t], w)]
<1>1. IsFiniteSet(T)
  BY Constants, FS_Subset
<1>2. \A t \in T : f[t] \in Nat
  BY AllowanceType
<1> HIDE DEF f
<1>3. SumFunctionOnSet(f, T) \in Nat
  BY <1>1, <1>2, SumType
<1>4. QED BY <1>3 DEF Room, f

\* A probe sent takes its place in the room of its own target.
LEMMA RoomOfSend ==
  ASSUME NEW s \in [Targets -> 0 .. Interval], NEW w \in Nat, NEW T \in SUBSET Targets,
         NEW u \in Targets, s[u] = Interval,
         NEW r \in [Targets -> 0 .. Interval], r[u] = 0, \A t \in Targets \ {u} : r[t] = s[t]
  PROVE  Room(r, w, T) = Room(s, w, T) + (IF u \in T THEN 1 ELSE 0)
<1> DEFINE f == [t \in Targets |-> Allowance(s[t], w)]
           g == [t \in Targets |-> Allowance(r[t], w)]
<1>1. IsFiniteSet(T)
  BY Constants, FS_Subset
<1>2. Room(s, w, T) = SumFunctionOnSet(f, T) /\ Room(r, w, T) = SumFunctionOnSet(g, T)
      /\ Room(s, w, T) \in Nat
  BY RoomType DEF Room
<1>3. \A t \in Targets : f[t] \in Nat /\ g[t] \in Nat
  BY AllowanceType
<1>4. \A t \in Targets \ {u} : g[t] = f[t]
  OBVIOUS
<1>5. g[u] = f[u] + 1 /\ f[u] \in Nat
  BY <1>3, AllowanceOfSend
<1>6. T \subseteq Targets
  OBVIOUS
<1> HIDE DEF f, g
<1>7. CASE u \in T
  <2>1. SumFunctionOnSet(g, T) = SumFunctionOnSet(f, T) + g[u] - f[u]
    BY <1>1, <1>3, <1>4, <1>6, <1>7, SumChangesAt
  <2>2. QED BY <1>2, <1>5, <1>7, <2>1
<1>8. CASE u \notin T
  <2>1. \A t \in T : f[t] \in Nat /\ g[t] = f[t]
    BY <1>3, <1>4, <1>6, <1>8
  <2>2. SumFunctionOnSet(g, T) = SumFunctionOnSet(f, T)
    BY <1>1, <2>1, SumSame
  <2>3. QED BY <1>2, <1>8, <2>2
<1>9. QED BY <1>7, <1>8

\* A tick leaves no set of targets less room.
LEMMA RoomOfTime ==
  ASSUME NEW s \in [Targets -> 0 .. Interval], NEW w \in Nat, NEW T \in SUBSET Targets,
         NEW r \in [Targets -> 0 .. Interval],
         \A t \in Targets : r[t] = IF s[t] < Interval THEN s[t] + 1 ELSE s[t]
  PROVE  Room(s, w, T) <= Room(r, w + 1, T)
<1> DEFINE f == [t \in Targets |-> Allowance(s[t], w)]
           g == [t \in Targets |-> Allowance(r[t], w + 1)]
<1>1. IsFiniteSet(T)
  BY Constants, FS_Subset
<1>2. \A t \in T : f[t] \in Nat /\ g[t] \in Nat /\ f[t] <= g[t]
  <2> SUFFICES ASSUME NEW t \in T PROVE f[t] \in Nat /\ g[t] \in Nat /\ f[t] <= g[t]
    OBVIOUS
  <2>1. s[t] \in 0 .. Interval /\ r[t] \in 0 .. Interval /\ w + 1 \in Nat
    OBVIOUS
  <2>2. Allowance(s[t], w) <= Allowance(r[t], w + 1)
    BY <2>1, AllowanceOfTime
  <2>3. QED BY <2>1, <2>2, AllowanceType
<1> HIDE DEF f, g
<1>3. SumFunctionOnSet(f, T) <= SumFunctionOnSet(g, T)
  BY <1>1, <1>2, SumMonotone
<1>4. QED BY <1>3 DEF Room, f, g

\* A sum of equal terms.
LEMMA SumBounded ==
  ASSUME NEW f, NEW S, IsFiniteSet(S), NEW k \in Nat,
         \A x \in S : f[x] \in Nat /\ f[x] <= k
  PROVE  SumFunctionOnSet(f, S) <= Cardinality(S) * k
<1> DEFINE G == {U \in SUBSET S : SumFunctionOnSet(f, U) <= Cardinality(U) * k}
<1>1. ASSUME NEW U \in SUBSET S, \A V \in SUBSET U : V # U => V \in G
      PROVE  U \in G
  <2>1. CASE U = {}
    BY <2>1, SumEmpty, FS_EmptySet
  <2>2. CASE U # {}
    <3>1. PICK x \in U : TRUE
      BY <2>2
    <3> DEFINE V == U \ {x}
    <3>2. V \in G /\ IsFiniteSet(U) /\ IsFiniteSet(V)
      BY <1>1, <3>1, FS_Subset
    <3>3. SumFunctionOnSet(f, U) = f[x] + SumFunctionOnSet(f, V)
      BY <3>1, <3>2, SumElement
    <3>4. Cardinality(V) \in Nat /\ Cardinality(U) \in Nat
      BY <3>2, FS_CardinalityType
    <3>5. Cardinality(V) = Cardinality(U) - 1
      BY <3>1, <3>2, FS_RemoveElement
    <3>6. SumFunctionOnSet(f, V) \in Nat
      BY <3>2, SumType
    <3>7. SumFunctionOnSet(f, V) <= Cardinality(V) * k
      BY <3>2
    <3>8. f[x] \in Nat /\ f[x] <= k
      BY <3>1
    <3>9. f[x] + SumFunctionOnSet(f, V) <= (Cardinality(V) + 1) * k
      BY <3>4, <3>6, <3>7, <3>8
    <3>10. (Cardinality(V) + 1) = Cardinality(U)
      BY <3>4, <3>5
    <3>11. QED BY <3>3, <3>9, <3>10
  <2>3. QED BY <2>1, <2>2
<1>2. SUBSET S \subseteq G
  <2> HIDE DEF G
  <2>1. QED BY <1>1, SubsetInduction
<1>3. QED BY <1>2

\* Before the window is over no target has room for more than PerWindow.
LEMMA RoomMax ==
  ASSUME NEW s \in [Targets -> 0 .. Interval], NEW w \in 0 .. WindowLen - 1,
         NEW T \in SUBSET Targets
  PROVE  Room(s, w, T) <= Cardinality(T) * PerWindow
<1> DEFINE f == [t \in Targets |-> Allowance(s[t], w)]
<1>1. IsFiniteSet(T) /\ w \in Nat
  BY Constants, FS_Subset
<1>2. \A t \in T : f[t] \in Nat /\ f[t] <= PerWindow
  BY <1>1, AllowanceType, AllowanceMax
<1> HIDE DEF f
<1>3. SumFunctionOnSet(f, T) <= Cardinality(T) * PerWindow
  BY <1>1, <1>2, PerWindowType, SumBounded
<1>4. QED BY <1>3 DEF Room, f

-----------------------------------------------------------------------------
(* Counting what is on its way.                                            *)

\* The datagrams of F that are probes of the targets in T.
In(F, T) == {m \in F : m.t \in T}

\* The datagrams of some targets on the wire are a finite set.
LEMMA InType ==
  ASSUME NEW F, IsFiniteSet(F), NEW T
  PROVE  IsFiniteSet(In(F, T)) /\ Cardinality(In(F, T)) \in Nat
<1>1. IsFiniteSet(In(F, T))
  BY FS_Subset DEF In
<1>2. QED BY <1>1, FS_CardinalityType

\* It grows by one when a datagram of those targets is put on the wire.
LEMMA InAdd ==
  ASSUME NEW F, IsFiniteSet(F), NEW m, m \notin F, NEW T
  PROVE  Cardinality(In(F \cup {m}, T)) = Cardinality(In(F, T)) + (IF m.t \in T THEN 1 ELSE 0)
<1>1. IsFiniteSet(In(F, T)) /\ Cardinality(In(F, T)) \in Nat
  BY InType
<1>2. CASE m.t \in T
  <2>1. In(F \cup {m}, T) = In(F, T) \cup {m} /\ m \notin In(F, T)
    BY <1>2 DEF In
  <2>2. QED BY <1>1, <1>2, <2>1, FS_AddElement
<1>3. CASE m.t \notin T
  <2>1. In(F \cup {m}, T) = In(F, T)
    BY <1>3 DEF In
  <2>2. QED BY <1>1, <1>3, <2>1
<1>4. QED BY <1>2, <1>3

\* It shrinks by one when such a datagram is taken off.
LEMMA InRemove ==
  ASSUME NEW F, IsFiniteSet(F), NEW m \in F, NEW T
  PROVE  Cardinality(In(F \ {m}, T)) = Cardinality(In(F, T)) - (IF m.t \in T THEN 1 ELSE 0)
<1>1. IsFiniteSet(F \ {m}) /\ m \notin F \ {m} /\ (F \ {m}) \cup {m} = F
  BY FS_RemoveElement
<1>2. Cardinality(In(F, T)) = Cardinality(In(F \ {m}, T)) + (IF m.t \in T THEN 1 ELSE 0)
  BY <1>1, InAdd
<1>3. Cardinality(In(F \ {m}, T)) \in Nat
  BY <1>1, InType
<1>4. QED BY <1>2, <1>3

\* A tick does not change its size.
LEMMA InOlder ==
  ASSUME NEW F, IsFiniteSet(F), NEW T,
         F \subseteq [t : Targets, seq : Probes, age : 0 .. MaxDelay, copy : 0 .. MaxDups]
  PROVE  Cardinality(In({Older(m) : m \in F}, T)) = Cardinality(In(F, T))
<1>1. In({Older(m) : m \in F}, T) = {Older(m) : m \in In(F, T)}
  <2>1. \A m \in F : Older(m).t = m.t
    BY DEF Older
  <2>2. QED BY <2>1 DEF In
<1>2. In(F, T) \subseteq F
  BY DEF In
<1>3. Cardinality({Older(m) : m \in In(F, T)}) = Cardinality(In(F, T))
  BY <1>2, InType, OlderSet
<1>4. QED BY <1>1, <1>3

\* Two finite sets without a common element: the sizes add up.
LEMMA DisjointUnion ==
  ASSUME NEW A, IsFiniteSet(A), NEW B, IsFiniteSet(B), A \cap B = {}
  PROVE  Cardinality(A \cup B) = Cardinality(A) + Cardinality(B)
<1>1. Cardinality(A) \in Nat /\ Cardinality(B) \in Nat /\ Cardinality({}) = 0
  BY FS_CardinalityType, FS_EmptySet
<1>2. Cardinality(A \cup B) = Cardinality(A) + Cardinality(B) - Cardinality(A \cap B)
  BY FS_Union
<1>3. Cardinality(A \cap B) = 0
  BY <1>1, Zenon
<1>4. QED BY <1>1, <1>2, <1>3

\* There are no more than all the targets can have there together.
LEMMA InParts ==
  ASSUME NEW F, IsFiniteSet(F), NEW g, NEW S, IsFiniteSet(S),
         \A t \in S : g[t] \in Nat /\ Cardinality(In(F, {t})) <= g[t]
  PROVE  Cardinality(In(F, S)) <= SumFunctionOnSet(g, S)
<1> DEFINE G == {U \in SUBSET S : Cardinality(In(F, U)) <= SumFunctionOnSet(g, U)}
<1>1. ASSUME NEW U \in SUBSET S, \A V \in SUBSET U : V # U => V \in G
      PROVE  U \in G
  <2>1. CASE U = {}
    <3>1. In(F, U) = {}
      BY <2>1 DEF In
    <3>2. QED BY <2>1, <3>1, SumEmpty, FS_EmptySet
  <2>2. CASE U # {}
    <3>1. PICK x \in U : TRUE
      BY <2>2
    <3> DEFINE V == U \ {x}
    <3>2. V \in G /\ IsFiniteSet(U) /\ IsFiniteSet(V)
      BY <1>1, <3>1, FS_Subset
    <3>3. SumFunctionOnSet(g, U) = g[x] + SumFunctionOnSet(g, V)
      BY <3>1, <3>2, SumElement
    <3>4. In(F, U) = In(F, V) \cup In(F, {x}) /\ In(F, V) \cap In(F, {x}) = {}
      BY <3>1 DEF In
    <3>5. /\ IsFiniteSet(In(F, V)) /\ Cardinality(In(F, V)) \in Nat
          /\ IsFiniteSet(In(F, {x})) /\ Cardinality(In(F, {x})) \in Nat
      BY InType
    <3>6. Cardinality(In(F, U)) = Cardinality(In(F, V)) + Cardinality(In(F, {x}))
      BY <3>4, <3>5, DisjointUnion
    <3>7. SumFunctionOnSet(g, V) \in Nat /\ g[x] \in Nat /\ Cardinality(In(F, {x})) <= g[x]
      BY <3>1, <3>2, SumType
    <3>8. Cardinality(In(F, V)) <= SumFunctionOnSet(g, V)
      BY <3>2
    <3>9. QED BY <3>3, <3>5, <3>6, <3>7, <3>8
  <2>3. QED BY <2>1, <2>2
<1>2. SUBSET S \subseteq G
  <2> HIDE DEF G
  <2>1. QED BY <1>1, SubsetInduction
<1>3. QED BY <1>2

-----------------------------------------------------------------------------
(* The mismatch.                                                           *)

\* The promise is made for a link like this one.
Sized == Agree /\ CapsAreSized /\ dups = 0

\* The probes of a target on their way were sent Interval apart, and have
\* aged since.
Aged ==
  \A m \in forward :
    /\ m.copy = 0 /\ m.seq <= issued[m.t]
    /\ since[m.t] + (issued[m.t] - m.seq) * Interval <= m.age
Distinct == \A m, n \in forward : m.t = n.t /\ m.seq = n.seq => m = n

Balanced == \A c \in allowed : Sent(c) = received[c] + vanished[c] + OnTheWay(c)

\* If n of the probes of T were charged in the running window, those on
\* their way have room for themselves in it.
Fits(n, T) == n + Cardinality(In(forward, T)) <= Room(since, windowAge, T)
WindowFits == (\A c \in Clients : Fits(perIP[c], TargetsOf(c))) /\ Fits(global, Targets)

FreshStart == status = "idle" => windowAge = WindowLen

Wire ==
  /\ FreshStart
  /\ Sized =>
       /\ Aged /\ Distinct /\ Balanced
       /\ status = "serving" /\ windowAge < WindowLen => WindowFits

\* What a target has on its way fits in the first tick of a window.
LEMMA AgedFits ==
  ASSUME NetworkType, Aged, Distinct, NEW T \in SUBSET Targets
  PROVE  Cardinality(In(forward, T)) <= Room(since, 0, T)
<1> DEFINE g == [t \in Targets |-> Allowance(since[t], 0)]
<1>1. \A t \in T : g[t] \in Nat
  BY AllowanceType DEF NetworkType
<1>2. ASSUME NEW t \in T PROVE Cardinality(In(forward, {t})) <= Allowance(since[t], 0)
  <2> DEFINE A == In(forward, {t})
             n == (MaxDelay - since[t]) \div Interval
             h == [m \in A |-> issued[t] - m.seq]
  <2>1. /\ since[t] \in 0 .. Interval /\ issued[t] \in Nat
        /\ Interval \in Nat \ {0} /\ MaxDelay \in Nat
    BY Constants DEF NetworkType
  <2>2. \A m \in A : /\ m \in forward /\ m.t = t /\ m.seq \in Nat /\ m.age \in 0 .. MaxDelay
                     /\ issued[t] - m.seq \in Nat
                     /\ since[t] + (issued[t] - m.seq) * Interval <= MaxDelay
    <3> SUFFICES ASSUME NEW m \in A
                 PROVE  /\ m \in forward /\ m.t = t /\ m.seq \in Nat /\ m.age \in 0 .. MaxDelay
                        /\ issued[t] - m.seq \in Nat
                        /\ since[t] + (issued[t] - m.seq) * Interval <= MaxDelay
      OBVIOUS
    <3>1. m \in forward /\ m.t = t
      BY DEF In
    <3>2. m.seq \in Nat /\ m.age \in 0 .. MaxDelay
      BY <3>1, Constants DEF NetworkType, Probes
    <3>3. m.seq <= issued[t] /\ since[t] + (issued[t] - m.seq) * Interval <= m.age
      BY <3>1 DEF Aged
    <3>4. issued[t] - m.seq \in Nat
      BY <2>1, <3>2, <3>3
    <3> DEFINE k == issued[t] - m.seq
    <3>5. k * Interval \in Nat
      BY <2>1, <3>4
    <3> HIDE DEF k
    <3>6. since[t] + k * Interval <= MaxDelay
      BY <2>1, <3>2, <3>3, <3>5 DEF k
    <3>7. QED BY <3>1, <3>2, <3>4, <3>6 DEF k
  <2>3. CASE since[t] > MaxDelay
    <3>1. A = {}
      <4>1. ASSUME NEW m \in A PROVE FALSE
        <5> DEFINE k == issued[t] - m.seq
        <5>1. k \in Nat /\ since[t] + k * Interval <= MaxDelay
          BY <2>2
        <5> HIDE DEF k
        <5>2. k * Interval \in Nat
          BY <2>1, <5>1
        <5>3. QED BY <2>1, <2>3, <5>1, <5>2
      <4>2. QED BY <4>1
    <3>2. Cardinality(A) = 0
      BY <3>1, FS_EmptySet
    <3>3. Allowance(since[t], 0) \in Nat
      BY <2>1, AllowanceType
    <3>4. QED BY <3>2, <3>3
  <2>4. CASE ~(since[t] > MaxDelay)
    <3>1. MaxDelay - since[t] \in Nat /\ n \in Nat
      BY <2>1, <2>4
    <3>2. \A m \in A : h[m] \in 0 .. n
      <4> SUFFICES ASSUME NEW m \in A PROVE issued[t] - m.seq \in 0 .. n
        OBVIOUS
      <4> DEFINE k == issued[t] - m.seq
                 x == MaxDelay - since[t]
      <4>1. k \in Nat /\ k * Interval <= x /\ x \in Nat
        <5>1. k \in Nat /\ since[t] + k * Interval <= MaxDelay
          BY <2>2
        <5> HIDE DEF k
        <5>2. k * Interval \in Nat
          BY <2>1, <5>1
        <5>3. QED BY <2>1, <3>1, <5>1, <5>2
      <4> HIDE DEF k, x
      <4>2. k <= x \div Interval
        BY <2>1, <4>1
      <4>3. QED BY <3>1, <4>1, <4>2 DEF k, x
    <3>3. \A l, m \in A : h[l] = h[m] => l = m
      <4>1. ASSUME NEW l \in A, NEW m \in A, issued[t] - l.seq = issued[t] - m.seq PROVE l = m
        <5>1. l \in forward /\ l.t = t /\ l.seq \in Nat /\ m \in forward /\ m.t = t /\ m.seq \in Nat
          BY <2>2
        <5>2. l.seq = m.seq
          BY <2>1, <4>1, <5>1
        <5>3. QED BY <5>1, <5>2 DEF Distinct
      <4>2. QED BY <4>1
    <3>4. h \in [A -> 0 .. n] /\ DOMAIN h = A
      BY <3>2
    <3> HIDE DEF h, A, n
    <3>5. h \in Injection(A, 0 .. n)
      BY <3>3, <3>4 DEF Injection, IsInjective
    <3>6. IsFiniteSet(0 .. n) /\ Cardinality(0 .. n) = n + 1
      BY <3>1, FS_Interval
    <3>7. Cardinality(A) <= n + 1
      BY <3>5, <3>6, FS_Injection
    <3>8. Allowance(since[t], 0) = n + 1
      <4>1. 0 + MaxDelay - since[t] = MaxDelay - since[t] /\ ~(since[t] > 0 + MaxDelay)
        BY <2>1, <2>4
      <4>2. QED BY <4>1 DEF Allowance, n
    <3>9. QED BY <3>7, <3>8 DEF A
  <2>5. QED BY <2>3, <2>4
<1>3. IsFiniteSet(T) /\ IsFiniteSet(forward)
  BY Constants, FS_Subset DEF NetworkType
<1>4. \A t \in T : g[t] \in Nat /\ Cardinality(In(forward, {t})) <= g[t]
  BY <1>1, <1>2
<1> HIDE DEF g
<1>5. Cardinality(In(forward, T)) <= SumFunctionOnSet(g, T)
  BY <1>3, <1>4, InParts
<1>6. QED BY <1>5 DEF Room, g

\* A probe of an allowed client is never refused.
LEMMA NoRefusal ==
  ASSUME Base, Wire, Sized, status = "serving", NEW m \in forward, ipOf[m.t] \in allowed
  PROVE  Server!Accepted(Datagram(m))
<1> DEFINE c == ipOf[m.t]
<1>1. /\ m.t \in Targets /\ c \in Clients /\ IsFiniteSet(forward)
      /\ since \in [Targets -> 0 .. Interval]
  BY Constants DEF Base, NetworkType
<1>2. /\ windowAge \in 0 .. WindowLen
      /\ perIP \in [Clients -> 0 .. MaxPktsPerIP] /\ global \in 0 .. MaxPktsGlobal
  BY DEF Base, P!ServerInv, P!LimiterInv
<1>3. Server!HasRoom(c)
  <2>1. CASE windowAge = WindowLen
    BY <1>1, <2>1, Constants
       DEF Server!HasRoom, Server!WindowOver, Server!GlobalBefore, Server!PerIPBefore, Server!Nothing
  <2>2. CASE windowAge < WindowLen
    <3> DEFINE T == TargetsOf(c)
    <3>1. WindowFits /\ windowAge \in 0 .. WindowLen - 1
      BY <1>2, <2>2, Constants DEF Wire
    <3>2. T \in SUBSET Targets /\ Targets \in SUBSET Targets /\ m.t \in T
      BY <1>1 DEF TargetsOf
    <3>3. ASSUME NEW U \in SUBSET Targets, m.t \in U, NEW n \in Nat, Fits(n, U),
                 NEW k \in Nat, Cardinality(U) * PerWindow <= k
          PROVE  n < k
      <4>1. In(forward, U) # {}
        BY <3>3 DEF In
      <4>2. IsFiniteSet(In(forward, U)) /\ Cardinality(In(forward, U)) \in Nat
        BY <1>1, InType
      <4>3. Cardinality(In(forward, U)) > 0
        <5>1. Cardinality(In(forward, U)) # 0
          BY <4>1, <4>2, FS_EmptySet
        <5>2. QED BY <4>2, <5>1
      <4>4. Room(since, windowAge, U) <= Cardinality(U) * PerWindow
        BY <1>1, <3>1, RoomMax
      <4>5. Room(since, windowAge, U) \in Nat
        BY <1>1, <1>2, Constants, RoomType
      <4>6. Cardinality(U) \in Nat /\ PerWindow \in Nat /\ Cardinality(U) * PerWindow \in Nat
        <5>1. Cardinality(U) \in Nat /\ PerWindow \in Nat
          BY Constants, FS_Subset, FS_CardinalityType, PerWindowType
        <5>2. QED BY <5>1
      <4>7. n + Cardinality(In(forward, U)) <= Room(since, windowAge, U)
        BY <3>3 DEF Fits
      <4>8. QED
        <5> DEFINE a == Cardinality(In(forward, U))
                   r == Room(since, windowAge, U)
                   p == Cardinality(U) * PerWindow
        <5>1. a \in Nat /\ a > 0 /\ r \in Nat /\ p \in Nat /\ n + a <= r /\ r <= p /\ p <= k
          BY <3>3, <4>2, <4>3, <4>4, <4>5, <4>6, <4>7
        <5> HIDE DEF a, r, p
        <5>2. QED BY <5>1
    <3>4. perIP[c] < MaxPktsPerIP
      <4>1. Fits(perIP[c], T) /\ perIP[c] \in Nat /\ MaxPktsPerIP \in Nat
        BY <1>1, <1>2, <3>1, Constants DEF WindowFits
      <4>2. Cardinality(T) * PerWindow <= MaxPktsPerIP
        BY <1>1 DEF Sized, CapsAreSized
      <4>3. QED BY <3>2, <3>3, <4>1, <4>2
    <3>5. global < MaxPktsGlobal
      <4>1. Fits(global, Targets) /\ global \in Nat /\ MaxPktsGlobal \in Nat
        BY <1>2, <3>1, Constants DEF WindowFits
      <4>2. Cardinality(Targets) * PerWindow <= MaxPktsGlobal
        BY DEF Sized, CapsAreSized
      <4>3. QED BY <1>1, <3>2, <3>3, <4>1, <4>2
    <3>6. ~(windowAge >= WindowLen)
      BY <1>2, <2>2, Constants
    <3>7. QED
      BY <3>4, <3>5, <3>6
         DEF Server!HasRoom, Server!WindowOver, Server!GlobalBefore, Server!PerIPBefore
  <2>3. QED BY <1>2, <2>1, <2>2, Constants
<1>4. Server!Valid(Datagram(m))
  BY DEF Base, NetworkType, Sized, Agree, Kinds, Datagram, Server!Valid
<1>5. QED BY <1>3, <1>4 DEF Server!Accepted, Datagram

\* What a client has on the way are the datagrams of its targets.
LEMMA OnTheWayIn == NetworkType => \A c \in Clients : OnTheWay(c) = Cardinality(In(forward, TargetsOf(c)))
<1> SUFFICES ASSUME NetworkType, NEW c \in Clients
             PROVE  {m \in forward : ipOf[m.t] = c} = In(forward, TargetsOf(c))
  BY DEF OnTheWay
<1>1. \A m \in forward : m.t \in Targets
  BY DEF NetworkType
<1>2. QED BY <1>1 DEF In, TargetsOf

LEMMA SentType ==
  ASSUME NetworkType, NEW c
  PROVE  Sent(c) \in Nat
<1>1. \A t \in TargetsOf(c) : issued[t] \in Nat
  BY TargetsOfFinite, Constants DEF NetworkType
<1>2. QED BY <1>1, TargetsOfFinite, SumType DEF Sent, Total

\* The numbers of the mismatch.
LEMMA CountTypes ==
  ASSUME Base, NEW c \in Clients
  PROVE  /\ Sent(c) \in Nat /\ received[c] \in Nat /\ vanished[c] \in Nat /\ OnTheWay(c) \in Nat
         /\ OnTheWay(c) = Cardinality(In(forward, TargetsOf(c)))
<1>1. OnTheWay(c) = Cardinality(In(forward, TargetsOf(c)))
  BY OnTheWayIn DEF Base
<1>2. Cardinality(In(forward, TargetsOf(c))) \in Nat
  BY InType DEF Base, NetworkType
<1>3. received[c] \in Nat /\ vanished[c] \in Nat /\ Sent(c) \in Nat
  BY ReceivedType, SentType DEF Base, NetworkType
<1>4. QED BY <1>1, <1>2, <1>3

\* One of the datagrams of target t less on the way, as the server and the
\* client of t see it.
LEMMA OneLess ==
  ASSUME Base, Base', NEW m \in forward, forward' = forward \ {m}
  PROVE  /\ m.t \in Targets /\ ipOf[m.t] \in Clients
         /\ \A c \in Clients :
              OnTheWay(c)' = OnTheWay(c) - (IF c = ipOf[m.t] THEN 1 ELSE 0)
         /\ \A T : Cardinality(In(forward', T))
                     = Cardinality(In(forward, T)) - (IF m.t \in T THEN 1 ELSE 0)
<1>1. m.t \in Targets /\ ipOf[m.t] \in Clients /\ IsFiniteSet(forward)
  BY Constants DEF Base, NetworkType
<1>2. \A T : Cardinality(In(forward', T))
               = Cardinality(In(forward, T)) - (IF m.t \in T THEN 1 ELSE 0)
  BY <1>1, InRemove
<1>3. ASSUME NEW c \in Clients
      PROVE  OnTheWay(c)' = OnTheWay(c) - (IF c = ipOf[m.t] THEN 1 ELSE 0)
  <2>1. OnTheWay(c) = Cardinality(In(forward, TargetsOf(c)))
    BY CountTypes
  <2>2. OnTheWay(c)' = Cardinality(In(forward', TargetsOf(c)))
    <3>1. \A n \in forward' : n.t \in Targets
      BY DEF Base, NetworkType
    <3>2. {n \in forward' : ipOf[n.t] = c} = In(forward', TargetsOf(c))
      BY <3>1 DEF In, TargetsOf
    <3>3. QED BY <3>2 DEF OnTheWay
  <2>3. m.t \in TargetsOf(c) <=> c = ipOf[m.t]
    BY <1>1 DEF TargetsOf
  <2>4. QED BY <1>2, <2>1, <2>2, <2>3
<1>4. QED BY <1>1, <1>2, <1>3

\* What is true of the datagrams on their way is true of some of them.
LEMMA FewerOnTheWay ==
  ASSUME Aged, Distinct, forward' \subseteq forward, UNCHANGED <<issued, since>>
  PROVE  Aged' /\ Distinct'
BY DEF Aged, Distinct

\* At first nothing is sent, nothing is on the wire and no window was used.
LEMMA WireInit == Init => Wire
<1> SUFFICES ASSUME Init PROVE Wire
  OBVIOUS
<1>1. FreshStart /\ status # "serving"
  BY DEF Init, Server!Init, FreshStart
<1>2. Aged /\ Distinct
  BY DEF Init, Aged, Distinct
<1>3. Balanced
  <2> SUFFICES ASSUME NEW c \in allowed PROVE Sent(c) = received[c] + vanished[c] + OnTheWay(c)
    BY DEF Balanced
  <2>1. c \in Clients /\ received[c] = 0 /\ vanished[c] = 0
    BY Constants DEF Init, Server!Init, Server!Nothing
  <2>2. OnTheWay(c) = 0
    <3>1. {m \in forward : ipOf[m.t] = c} = {}
      BY DEF Init
    <3>2. QED BY <3>1, FS_EmptySet DEF OnTheWay
  <2>3. Sent(c) = 0
    <3>1. \A t \in TargetsOf(c) : issued[t] = 0
      BY TargetsOfFinite DEF Init
    <3>2. QED BY <3>1, TargetsOfFinite, SumZero DEF Sent, Total
  <2>4. QED BY <2>1, <2>2, <2>3
<1>4. QED BY <1>1, <1>2, <1>3 DEF Wire

\* The steps that move nothing on the link.
LEMMA WireIdles ==
  ASSUME Wire, UNCHANGED <<authentic, dups, forward, issued, since, vanished, received,
                           windowAge, perIP, global>>,
         status' = "idle" => status = "idle",
         status' = "serving" => status = "serving" \/ windowAge = WindowLen,
         Base
  PROVE  Wire'
<1>1. FreshStart'
  BY DEF Wire, FreshStart
<1>2. ASSUME Sized'
      PROVE  (Aged /\ Distinct /\ Balanced
              /\ (status = "serving" /\ windowAge < WindowLen => WindowFits))'
  <2>1. Sized
    BY <1>2 DEF Sized, Agree
  <2>2. Aged' /\ Distinct' /\ Balanced'
    BY <2>1 DEF Wire, Aged, Distinct, Balanced, Sent, OnTheWay, Total, TargetsOf
  <2>3. ASSUME status' = "serving", windowAge' < WindowLen PROVE WindowFits'
    <3>1. windowAge < WindowLen /\ status = "serving"
      BY <2>3, Constants DEF Base, P!ServerInv, P!LimiterInv
    <3>2. WindowFits
      BY <2>1, <3>1 DEF Wire
    <3>3. QED BY <3>2 DEF WindowFits, Fits, In, Room, Allowance, TargetsOf
  <2>4. QED BY <2>2, <2>3
<1>3. QED BY <1>1, <1>2 DEF Wire

\* A probe is written: there is one more, and Interval later room for it.
LEMMA WireSend ==
  ASSUME Base, Base', Wire, NEW t \in Targets, Send(t)
  PROVE  Wire'
<1> DEFINE m == [t |-> t, seq |-> issued[t] + 1, age |-> 0, copy |-> 0]
           c == ipOf[t]
<1>1. /\ issued[t] \in Nat /\ issued'[t] = issued[t] + 1 /\ c \in Clients
      /\ \A u \in Targets : issued[u] \in Nat /\ issued'[u] \in Nat
      /\ \A u \in Targets \ {t} : issued'[u] = issued[u] /\ since'[u] = since[u]
      /\ since[t] = Interval /\ since'[t] = 0
  <2>1. /\ issued' = [issued EXCEPT ![t] = @ + 1] /\ since' = [since EXCEPT ![t] = 0]
        /\ since[t] = Interval
    BY DEF Send
  <2>2. /\ issued \in [Targets -> Nat] /\ since \in [Targets -> 0 .. Interval]
        /\ c \in Clients /\ issued' \in [Targets -> Nat]
    BY Constants DEF Base, NetworkType
  <2>3. QED BY <2>1, <2>2
<1>2. forward' = forward \cup {m}
  BY <1>1 DEF Send
<1>3. UNCHANGED <<serverVars, authentic, vanished, dups>>
  BY DEF Send
<1>4. FreshStart'
  BY <1>3 DEF Wire, FreshStart, serverVars
<1>5. ASSUME Sized'
      PROVE  (Aged /\ Distinct /\ Balanced
              /\ (status = "serving" /\ windowAge < WindowLen => WindowFits))'
  <2>1. Sized /\ Aged /\ Distinct /\ Balanced
    BY <1>3, <1>5 DEF Wire, Sized, Agree
  <2>2. \A n \in forward : n.t = t => n.seq # issued[t] + 1
    <3>1. \A n \in forward : n.t = t => n.seq <= issued[t] /\ n.seq \in Nat
      BY <2>1, Constants DEF Aged, Base, NetworkType, Probes
    <3>2. QED BY <1>1, <3>1
  <2>3. m.t = t /\ m.seq = issued[t] + 1 /\ m.age = 0 /\ m.copy = 0 /\ m \notin forward
    BY <2>2
  <2> HIDE DEF m
  <2>4. Aged'
    <3> SUFFICES ASSUME NEW n \in forward'
                 PROVE  /\ n.copy = 0 /\ n.seq <= issued'[n.t]
                        /\ since'[n.t] + (issued'[n.t] - n.seq) * Interval <= n.age
      BY DEF Aged
    <3>1. CASE n = m
      <4>1. issued'[n.t] - n.seq = 0
        BY <1>1, <2>3, <3>1
      <4>2. QED BY <1>1, <2>3, <3>1, <4>1, Constants
    <3>2. CASE n \in forward /\ n.t = t
      <4> DEFINE k == issued[t] - n.seq
                 j == issued'[t] - n.seq
      <4>1. /\ n.copy = 0 /\ n.seq <= issued[t] /\ since[t] + k * Interval <= n.age
            /\ n.seq \in Nat /\ n.age \in Nat
        BY <2>1, <3>2, Constants DEF Aged, Base, NetworkType, Probes
      <4>2. k \in Nat /\ j = k + 1 /\ n.seq <= issued'[t]
        BY <1>1, <4>1
      <4> HIDE DEF k, j
      <4>3. j * Interval = k * Interval + Interval /\ k * Interval \in Nat
        BY <4>2, Constants
      <4>4. since'[t] + j * Interval <= n.age
        BY <1>1, <4>1, <4>3, Constants
      <4>5. QED BY <3>2, <4>1, <4>2, <4>4 DEF j
    <3>3. CASE n \in forward /\ n.t # t
      <4>1. n.t \in Targets
        BY <3>3 DEF Base, NetworkType
      <4>2. issued'[n.t] = issued[n.t] /\ since'[n.t] = since[n.t]
        BY <1>1, <3>3, <4>1
      <4>3. QED BY <2>1, <3>3, <4>2 DEF Aged
    <3>4. QED BY <1>2, <3>1, <3>2, <3>3
  <2>5. Distinct'
    BY <1>2, <2>1, <2>2, <2>3 DEF Distinct
  <2>6. \A T : Cardinality(In(forward', T))
                 = Cardinality(In(forward, T)) + (IF t \in T THEN 1 ELSE 0)
    <3>1. IsFiniteSet(forward)
      BY DEF Base, NetworkType
    <3>2. \A T : Cardinality(In(forward \cup {m}, T))
                   = Cardinality(In(forward, T)) + (IF t \in T THEN 1 ELSE 0)
      BY <2>3, <3>1, InAdd
    <3>3. QED BY <1>2, <3>2
  <2>7. Balanced'
    <3> SUFFICES ASSUME NEW b \in allowed
                 PROVE  Sent(b)' = received'[b] + vanished'[b] + OnTheWay(b)'
      BY DEF Balanced
    <3>1. b \in Clients /\ received' = received /\ vanished' = vanished
      BY <1>3, Constants DEF serverVars
    <3>2. OnTheWay(b)' = OnTheWay(b) + (IF b = c THEN 1 ELSE 0)
      <4>1. OnTheWay(b) = Cardinality(In(forward, TargetsOf(b)))
        BY <3>1, CountTypes
      <4>2. {n \in forward' : ipOf[n.t] = b} = In(forward', TargetsOf(b))
        <5>1. \A n \in forward' : n.t \in Targets
          BY DEF Base, NetworkType
        <5>2. QED BY <5>1 DEF In, TargetsOf
      <4>3. t \in TargetsOf(b) <=> b = c
        BY DEF TargetsOf
      <4>4. QED BY <2>6, <4>1, <4>2, <4>3 DEF OnTheWay
    <3>3. Sent(b)' = Sent(b) + (IF b = c THEN 1 ELSE 0)
      <4>1. Sent(b) = SumFunctionOnSet(issued, TargetsOf(b))
            /\ Sent(b)' = SumFunctionOnSet(issued', TargetsOf(b))
        BY DEF Sent, Total, TargetsOf
      <4>2. /\ \A u \in TargetsOf(b) : issued[u] \in Nat /\ issued'[u] \in Nat
            /\ IsFiniteSet(TargetsOf(b))
        BY <1>1, TargetsOfFinite
      <4>3. CASE b = c
        <5>1. t \in TargetsOf(b) /\ \A u \in TargetsOf(b) \ {t} : issued'[u] = issued[u]
          BY <1>1, <4>3, TargetsOfFinite DEF TargetsOf
        <5>2. SumFunctionOnSet(issued', TargetsOf(b))
                = SumFunctionOnSet(issued, TargetsOf(b)) + issued'[t] - issued[t]
          BY <4>2, <5>1, SumChangesAt
        <5>3. Sent(b) \in Nat
          BY SentType DEF Base
        <5>4. QED BY <1>1, <4>1, <4>3, <5>2, <5>3
      <4>4. CASE b # c
        <5>1. \A u \in TargetsOf(b) : issued'[u] = issued[u]
          BY <1>1, <4>4 DEF TargetsOf
        <5>2. SumFunctionOnSet(issued', TargetsOf(b)) = SumFunctionOnSet(issued, TargetsOf(b))
          BY <4>2, <5>1, SumSame
        <5>3. Sent(b) \in Nat
          BY SentType DEF Base
        <5>4. QED BY <4>1, <4>4, <5>2, <5>3
      <4>5. QED BY <4>3, <4>4
    <3>4. Sent(b) = received[b] + vanished[b] + OnTheWay(b)
      BY <2>1 DEF Balanced
    <3>5. QED BY <3>1, <3>2, <3>3, <3>4, CountTypes
  <2>8. ASSUME status' = "serving", windowAge' < WindowLen PROVE WindowFits'
    <3>1. WindowFits /\ UNCHANGED <<windowAge, perIP, global>>
      BY <1>3, <2>1, <2>8 DEF Wire, serverVars
    <3>2. ASSUME NEW T \in SUBSET Targets, NEW n \in Nat, Fits(n, T)
          PROVE  n + Cardinality(In(forward', T)) <= Room(since', windowAge', T)
      <4>1. /\ windowAge \in Nat /\ windowAge' = windowAge /\ IsFiniteSet(forward)
            /\ since \in [Targets -> 0 .. Interval] /\ since' \in [Targets -> 0 .. Interval]
        BY <3>1, Constants DEF Base, P!ServerInv, P!LimiterInv, NetworkType
      <4>2. Room(since', windowAge, T)
              = Room(since, windowAge, T) + (IF t \in T THEN 1 ELSE 0)
        BY <1>1, <4>1, RoomOfSend
      <4>3. Room(since', windowAge', T)
              = Room(since, windowAge, T) + (IF t \in T THEN 1 ELSE 0)
        BY <4>1, <4>2
      <4>4. Room(since, windowAge, T) \in Nat /\ Cardinality(In(forward, T)) \in Nat
        BY <4>1, RoomType, InType
      <4>5. n + Cardinality(In(forward, T)) <= Room(since, windowAge, T)
        BY <3>2 DEF Fits
      <4>6. QED BY <2>6, <4>3, <4>4, <4>5
    <3>3. /\ \A b \in Clients : perIP[b] \in Nat /\ TargetsOf(b) \in SUBSET Targets
          /\ global \in Nat
      BY Constants DEF Base, P!ServerInv, P!LimiterInv, TargetsOf
    <3>4. \A b \in Clients :
            perIP'[b] + Cardinality(In(forward', TargetsOf(b))) <= Room(since', windowAge', TargetsOf(b))
      BY <3>1, <3>2, <3>3 DEF WindowFits
    <3>5. global' + Cardinality(In(forward', Targets)) <= Room(since', windowAge', Targets)
      BY <3>1, <3>2, <3>3 DEF WindowFits
    <3>6. QED BY <3>4, <3>5 DEF WindowFits, Fits, In, Room, Allowance, TargetsOf
  <2>9. QED BY <2>4, <2>5, <2>7, <2>8
<1>6. QED BY <1>4, <1>5 DEF Wire

\* WindowFits of the next state, with its definitions in place.
LEMMA FitsNext ==
  ASSUME \A c \in Clients : perIP'[c] + Cardinality(In(forward', TargetsOf(c)))
                              <= Room(since', windowAge', TargetsOf(c)),
         global' + Cardinality(In(forward', Targets)) <= Room(since', windowAge', Targets)
  PROVE  WindowFits'
BY DEF WindowFits, Fits, In, Room, Allowance, TargetsOf

\* A datagram that left the network may be charged in the running window.
LEMMA FitsServed ==
  ASSUME Base, Base', NEW m \in forward, forward' = forward \ {m},
         since' = since, windowAge' = windowAge, WindowFits,
         perIP' = perIP \/ perIP' = [perIP EXCEPT ![ipOf[m.t]] = @ + 1],
         global' = global \/ global' = global + 1
  PROVE  WindowFits'
<1>1. /\ m.t \in Targets /\ ipOf[m.t] \in Clients
      /\ \A T : Cardinality(In(forward', T))
                  = Cardinality(In(forward, T)) - (IF m.t \in T THEN 1 ELSE 0)
  BY OneLess
<1>2. IsFiniteSet(forward) /\ windowAge \in Nat /\ since \in [Targets -> 0 .. Interval]
  BY Constants DEF Base, NetworkType, P!ServerInv, P!LimiterInv
<1>3. perIP \in [Clients -> Nat] /\ global \in Nat
  BY Constants DEF Base, P!ServerInv, P!LimiterInv
<1>4. ASSUME NEW T \in SUBSET Targets, NEW n \in Nat, Fits(n, T), NEW k \in Nat,
             k <= n + (IF m.t \in T THEN 1 ELSE 0)
      PROVE  k + Cardinality(In(forward', T)) <= Room(since', windowAge', T)
  <2>1. Room(since', windowAge', T) = Room(since, windowAge, T) /\ Room(since, windowAge, T) \in Nat
    BY <1>2, RoomType
  <2>2. Cardinality(In(forward, T)) \in Nat
    BY <1>2, InType
  <2>3. n + Cardinality(In(forward, T)) <= Room(since, windowAge, T)
    BY <1>4 DEF Fits
  <2>4. Cardinality(In(forward', T)) = Cardinality(In(forward, T)) - (IF m.t \in T THEN 1 ELSE 0)
    BY <1>1
  <2>5. QED BY <1>4, <2>1, <2>2, <2>3, <2>4
<1>5. ASSUME NEW c \in Clients
      PROVE  perIP'[c] + Cardinality(In(forward', TargetsOf(c)))
               <= Room(since', windowAge', TargetsOf(c))
  <2>1. TargetsOf(c) \in SUBSET Targets /\ (m.t \in TargetsOf(c) <=> c = ipOf[m.t])
    BY <1>1 DEF TargetsOf
  <2>2. perIP[c] \in Nat /\ perIP'[c] \in Nat
        /\ perIP'[c] <= perIP[c] + (IF c = ipOf[m.t] THEN 1 ELSE 0)
    BY <1>3
  <2>3. Fits(perIP[c], TargetsOf(c))
    BY DEF WindowFits
  <2>4. perIP'[c] <= perIP[c] + (IF m.t \in TargetsOf(c) THEN 1 ELSE 0)
    BY <2>1, <2>2
  <2>5. QED BY <1>4, <2>1, <2>2, <2>3, <2>4
<1>6. global' + Cardinality(In(forward', Targets)) <= Room(since', windowAge', Targets)
  <2>1. Fits(global, Targets)
    BY DEF WindowFits
  <2>2. global' \in Nat /\ global' <= global + (IF m.t \in Targets THEN 1 ELSE 0)
    BY <1>1, <1>3
  <2>3. QED BY <1>3, <1>4, <2>1, <2>2
<1>7. QED BY <1>5, <1>6, FitsNext

\* Its first charge in a new window fits with all that is on its way.
LEMMA FitsRestarted ==
  ASSUME Base, Base', Aged, Distinct, NEW m \in forward, forward' = forward \ {m},
         since' = since, windowAge' = 0,
         perIP' = [c \in Clients |-> IF c = ipOf[m.t] THEN 1 ELSE 0], global' = 1
  PROVE  WindowFits'
<1>1. /\ m.t \in Targets /\ ipOf[m.t] \in Clients
      /\ \A T : Cardinality(In(forward', T))
                  = Cardinality(In(forward, T)) - (IF m.t \in T THEN 1 ELSE 0)
  BY OneLess
<1>2. NetworkType /\ IsFiniteSet(forward) /\ since \in [Targets -> 0 .. Interval]
  BY DEF Base, NetworkType
<1>3. ASSUME NEW T \in SUBSET Targets
      PROVE  (IF m.t \in T THEN 1 ELSE 0) + Cardinality(In(forward', T))
               <= Room(since', windowAge', T)
  <2>1. Room(since', windowAge', T) = Room(since, 0, T) /\ Room(since, 0, T) \in Nat
    BY <1>2, RoomType
  <2>2. Cardinality(In(forward, T)) \in Nat
    BY <1>2, InType
  <2>3. Cardinality(In(forward, T)) <= Room(since, 0, T)
    BY <1>2, AgedFits
  <2>4. Cardinality(In(forward', T)) = Cardinality(In(forward, T)) - (IF m.t \in T THEN 1 ELSE 0)
    BY <1>1
  <2>5. QED BY <2>1, <2>2, <2>3, <2>4
<1>4. ASSUME NEW c \in Clients
      PROVE  perIP'[c] + Cardinality(In(forward', TargetsOf(c)))
               <= Room(since', windowAge', TargetsOf(c))
  <2>1. TargetsOf(c) \in SUBSET Targets /\ (m.t \in TargetsOf(c) <=> c = ipOf[m.t])
    BY <1>1 DEF TargetsOf
  <2>2. perIP'[c] = IF m.t \in TargetsOf(c) THEN 1 ELSE 0
    BY <2>1
  <2>3. QED BY <1>3, <2>1, <2>2
<1>5. global' + Cardinality(In(forward', Targets)) <= Room(since', windowAge', Targets)
  <2>1. global' = IF m.t \in Targets THEN 1 ELSE 0
    BY <1>1
  <2>2. QED BY <1>3, <2>1
<1>6. QED BY <1>4, <1>5, FitsNext

\* A datagram that left the network is counted once, if its client is allowed.
LEMMA BalancedServed ==
  ASSUME Base, Base', Balanced, NEW m \in forward, forward' = forward \ {m}, issued' = issued,
         \A c \in allowed : received'[c] + vanished'[c]
                              = received[c] + vanished[c] + (IF c = ipOf[m.t] THEN 1 ELSE 0)
  PROVE  Balanced'
<1> SUFFICES ASSUME NEW c \in allowed
             PROVE  Sent(c)' = received'[c] + vanished'[c] + OnTheWay(c)'
  BY DEF Balanced
<1>1. c \in Clients
  BY Constants
<1>2. OnTheWay(c)' = OnTheWay(c) - (IF c = ipOf[m.t] THEN 1 ELSE 0)
  BY <1>1, OneLess
<1>3. Sent(c)' = Sent(c)
  BY DEF Sent, Total, TargetsOf
<1>4. Sent(c) = received[c] + vanished[c] + OnTheWay(c)
  BY DEF Balanced
<1>5. received'[c] \in Nat /\ vanished'[c] \in Nat
  BY <1>1 DEF Base, NetworkType, P!ServerInv, P!EchoesCounted
<1>6. received'[c] + vanished'[c] = received[c] + vanished[c] + (IF c = ipOf[m.t] THEN 1 ELSE 0)
  OBVIOUS
<1>7. /\ received[c] \in Nat /\ vanished[c] \in Nat /\ OnTheWay(c) \in Nat
  BY <1>1, CountTypes
<1>8. QED
  <2>1. CASE c = ipOf[m.t]
    <3>1. OnTheWay(c)' = OnTheWay(c) - 1
          /\ received'[c] + vanished'[c] = received[c] + vanished[c] + 1
      BY <1>2, <1>6, <2>1
    <3>2. QED BY <1>3, <1>4, <1>5, <1>7, <3>1
  <2>2. CASE c # ipOf[m.t]
    <3>1. OnTheWay(c)' = OnTheWay(c) /\ received'[c] + vanished'[c] = received[c] + vanished[c]
      BY <1>2, <1>5, <1>6, <1>7, <2>2
    <3>2. QED BY <1>3, <1>4, <1>5, <1>7, <3>1
  <2>3. QED BY <2>1, <2>2

LEMMA WireVanish ==
  ASSUME Base, Base', Wire, NEW m \in forward, Vanish(m)
  PROVE  Wire'
<1>1. /\ forward' = forward \ {m} /\ vanished' = [vanished EXCEPT ![ipOf[m.t]] = @ + 1]
      /\ UNCHANGED <<serverVars, authentic, issued, since, dups>>
  BY DEF Vanish, ledgers
<1>2. FreshStart'
  BY <1>1 DEF Wire, FreshStart, serverVars
<1>3. ASSUME Sized'
      PROVE  (Aged /\ Distinct /\ Balanced
              /\ (status = "serving" /\ windowAge < WindowLen => WindowFits))'
  <2>1. Sized /\ Aged /\ Distinct /\ Balanced
    BY <1>1, <1>3 DEF Wire, Sized, Agree
  <2>2. Aged' /\ Distinct'
    BY <1>1, <2>1, FewerOnTheWay
  <2>3. \A c \in allowed : received'[c] + vanished'[c]
                             = received[c] + vanished[c] + (IF c = ipOf[m.t] THEN 1 ELSE 0)
    <3>1. vanished \in [Clients -> Nat] /\ received \in [Clients -> Nat] /\ received' = received
      BY <1>1, ReceivedType DEF Base, NetworkType, serverVars
    <3>2. QED BY <1>1, <3>1, Constants
  <2>4. Balanced'
    BY <1>1, <2>1, <2>3, BalancedServed
  <2>5. ASSUME status' = "serving", windowAge' < WindowLen PROVE WindowFits'
    <3>1. WindowFits /\ UNCHANGED <<windowAge, perIP, global>>
      BY <1>1, <2>1, <2>5 DEF Wire, serverVars
    <3>2. QED BY <1>1, <3>1, FitsServed
  <2>6. QED BY <2>2, <2>4, <2>5
<1>4. QED BY <1>2, <1>3 DEF Wire

\* Only those who are not allowed are refused.
LEMMA WireRefuse ==
  ASSUME Base, Base', Wire, NEW m \in forward, Refuse(m)
  PROVE  Wire'
<1>1. /\ forward' = forward \ {m} /\ status = "serving" /\ status' = status
      /\ UNCHANGED <<received, authentic, issued, since, vanished, dups>>
      /\ ~Server!Accepted(Datagram(m)) /\ Server!Limit(ipOf[m.t])
  BY DEF Refuse, Server!Drop, Datagram, ledgers
<1>2. FreshStart'
  BY <1>1 DEF FreshStart
<1>3. ASSUME Sized'
      PROVE  (Aged /\ Distinct /\ Balanced
              /\ (status = "serving" /\ windowAge < WindowLen => WindowFits))'
  <2>1. Sized /\ Aged /\ Distinct /\ Balanced
    BY <1>1, <1>3 DEF Wire, Sized, Agree
  <2>2. Aged' /\ Distinct'
    BY <1>1, <2>1, FewerOnTheWay
  <2>3. ipOf[m.t] \notin allowed
    BY <1>1, <2>1, NoRefusal
  <2>4. UNCHANGED <<windowAge, perIP, global>>
    BY <1>1, <2>3 DEF Server!Limit, Server!Charged, Server!limiter
  <2>5. \A c \in allowed : received'[c] + vanished'[c]
                             = received[c] + vanished[c] + (IF c = ipOf[m.t] THEN 1 ELSE 0)
    <3>1. vanished \in [Clients -> Nat] /\ received \in [Clients -> Nat]
      BY ReceivedType DEF Base, NetworkType
    <3>2. QED BY <1>1, <2>3, <3>1, Constants
  <2>6. Balanced'
    BY <1>1, <2>1, <2>5, BalancedServed
  <2>7. ASSUME windowAge' < WindowLen PROVE WindowFits'
    <3>1. WindowFits
      BY <1>1, <2>1, <2>4, <2>7 DEF Wire
    <3>2. QED BY <1>1, <2>4, <3>1, FitsServed
  <2>8. QED BY <2>2, <2>6, <2>7
<1>4. QED BY <1>2, <1>3 DEF Wire

\* A probe that is accepted is counted and charged.
LEMMA WireReflect ==
  ASSUME Base, Base', Wire, NEW m \in forward, Reflect(m)
  PROVE  Wire'
<1> DEFINE c == ipOf[m.t]
<1>1. /\ forward' = forward \ {m} /\ status = "serving" /\ status' = status
      /\ UNCHANGED <<authentic, issued, since, vanished, dups>>
      /\ received' = [received EXCEPT ![c] = @ + 1]
      /\ Server!Accepted(Datagram(m)) /\ Server!Limit(c)
  BY DEF Reflect, Server!Echo, Server!Count, Datagram, ledgers
<1>2. FreshStart'
  BY <1>1 DEF FreshStart
<1>3. ASSUME Sized'
      PROVE  (Aged /\ Distinct /\ Balanced
              /\ (status = "serving" /\ windowAge < WindowLen => WindowFits))'
  <2>1. Sized /\ Aged /\ Distinct /\ Balanced
    BY <1>1, <1>3 DEF Wire, Sized, Agree
  <2>2. Aged' /\ Distinct'
    BY <1>1, <2>1, FewerOnTheWay
  <2>3. c \in Clients /\ c \in allowed /\ Server!HasRoom(c)
    BY <1>1, Constants DEF Server!Accepted, Datagram, Base, NetworkType
  <2>4. \A b \in allowed : received'[b] + vanished'[b]
                             = received[b] + vanished[b] + (IF b = c THEN 1 ELSE 0)
    <3>1. vanished \in [Clients -> Nat] /\ received \in [Clients -> Nat]
      BY ReceivedType DEF Base, NetworkType
    <3>2. QED BY <1>1, <3>1, Constants
  <2>5. Balanced'
    BY <1>1, <2>1, <2>4, BalancedServed
  <2>6. P!Charges(c) \/ P!Restarts(c)
    <3>1. P!Limit(c) /\ P!HasRoom(c) /\ P!LimiterInv
      BY <1>1, <2>3, SameLimit DEF Base, P!ServerInv
    <3>2. QED BY <2>3, <3>1, P!LimitCases, ServerAssumed
  <2>7. ASSUME windowAge' < WindowLen PROVE WindowFits'
    <3>1. CASE P!Charges(c)
      <4>1. /\ windowAge < WindowLen /\ windowAge' = windowAge
            /\ perIP' = [perIP EXCEPT ![c] = @ + 1] /\ global' = global + 1
        BY <3>1 DEF P!Charges
      <4>2. WindowFits
        BY <1>1, <2>1, <4>1 DEF Wire
      <4>3. QED BY <1>1, <4>1, <4>2, FitsServed
    <3>2. CASE P!Restarts(c)
      <4>1. windowAge' = 0 /\ global' = 1
            /\ perIP' = [b \in Clients |-> IF b = c THEN 1 ELSE 0]
        BY <2>3, <3>2 DEF P!Restarts, P!Nothing
      <4>2. QED BY <1>1, <2>1, <4>1, FitsRestarted
    <3>3. QED BY <2>6, <3>1, <3>2
  <2>8. QED BY <2>2, <2>5, <2>7
<1>4. QED BY <1>2, <1>3 DEF Wire

\* A panic ends the server; the datagram was counted or as good as lost.
LEMMA WirePanic ==
  ASSUME Base, Base', Wire, NEW m \in forward, PanicOn(m)
  PROVE  Wire'
<1> DEFINE c == ipOf[m.t]
<1>1. /\ forward' = forward \ {m} /\ status' = "error"
      /\ UNCHANGED <<authentic, issued, since, dups>>
      /\ \/ received' = received /\ vanished' = [vanished EXCEPT ![c] = @ + 1]
         \/ received' = [received EXCEPT ![c] = @ + 1] /\ vanished' = vanished
  BY DEF PanicOn, Server!Panic, ledgers
<1>2. FreshStart' /\ status' # "serving"
  BY <1>1 DEF FreshStart
<1>3. ASSUME Sized' PROVE (Aged /\ Distinct /\ Balanced)'
  <2>1. Sized /\ Aged /\ Distinct /\ Balanced
    BY <1>1, <1>3 DEF Wire, Sized, Agree
  <2>2. Aged' /\ Distinct'
    BY <1>1, <2>1, FewerOnTheWay
  <2>3. vanished \in [Clients -> Nat] /\ received \in [Clients -> Nat]
    BY ReceivedType DEF Base, NetworkType
  <2>4. \A b \in allowed : received'[b] + vanished'[b]
                             = received[b] + vanished[b] + (IF b = c THEN 1 ELSE 0)
    <3>1. CASE received' = received /\ vanished' = [vanished EXCEPT ![c] = @ + 1]
      BY <2>3, <3>1, Constants
    <3>2. CASE received' = [received EXCEPT ![c] = @ + 1] /\ vanished' = vanished
      BY <2>3, <3>2, Constants
    <3>3. QED BY <1>1, <3>1, <3>2
  <2>5. QED BY <1>1, <2>1, <2>2, <2>4, BalancedServed
<1>4. QED BY <1>2, <1>3 DEF Wire

\* Time makes datagrams older and windows roomier.
LEMMA WireTime ==
  ASSUME Base, Base', Wire, TimePasses
  PROVE  Wire'
<1>1. /\ UNCHANGED <<status, perIP, global, received, authentic, issued, vanished, dups>>
      /\ windowAge' = IF windowAge < WindowLen THEN windowAge + 1 ELSE windowAge
      /\ since' = [t \in Targets |-> IF since[t] < Interval THEN since[t] + 1 ELSE since[t]]
      /\ forward' = {Older(m) : m \in forward}
  BY DEF TimePasses, Server!TimePasses, ledgers, Older
<1>2. /\ IsFiniteSet(forward) /\ windowAge \in 0 .. WindowLen
      /\ since \in [Targets -> 0 .. Interval] /\ since' \in [Targets -> 0 .. Interval]
      /\ forward \subseteq [t : Targets, seq : Probes, age : 0 .. MaxDelay, copy : 0 .. MaxDups]
  BY DEF Base, NetworkType, P!ServerInv, P!LimiterInv
<1>3. FreshStart'
  BY <1>1, <1>2 DEF Wire, FreshStart
<1>4. \A T : Cardinality(In(forward', T)) = Cardinality(In(forward, T))
  BY <1>1, <1>2, InOlder
<1>5. ASSUME Sized'
      PROVE  (Aged /\ Distinct /\ Balanced
              /\ (status = "serving" /\ windowAge < WindowLen => WindowFits))'
  <2>1. Sized /\ Aged /\ Distinct /\ Balanced
    BY <1>1, <1>5 DEF Wire, Sized, Agree
  <2>2. \A m \in forward : /\ Older(m).t = m.t /\ Older(m).seq = m.seq
                           /\ Older(m).age = m.age + 1 /\ Older(m).copy = m.copy
    BY <1>2 DEF Older
  <2>3. Aged'
    <3> SUFFICES ASSUME NEW m \in forward
                 PROVE  /\ m.copy = 0 /\ m.seq <= issued[m.t]
                        /\ since'[m.t] + (issued[m.t] - m.seq) * Interval <= m.age + 1
      BY <1>1, <2>2 DEF Aged
    <3> DEFINE k == issued[m.t] - m.seq
    <3>1. /\ m.copy = 0 /\ m.seq <= issued[m.t]
          /\ since[m.t] + k * Interval <= m.age
      BY <2>1 DEF Aged
    <3>2. /\ m.t \in Targets /\ m.age \in Nat /\ m.seq \in Nat /\ issued[m.t] \in Nat
          /\ since[m.t] \in Nat /\ since'[m.t] \in Nat /\ since'[m.t] <= since[m.t] + 1
      BY <1>1, <1>2, Constants DEF Base, NetworkType, Probes
    <3>3. k * Interval \in Int
      <4>1. k \in Int
        BY <3>2
      <4>2. QED BY <4>1, Constants
    <3> HIDE DEF k
    <3>4. since'[m.t] + k * Interval <= m.age + 1
      BY <3>1, <3>2, <3>3
    <3>5. QED BY <3>1, <3>4 DEF k
  <2>4. Distinct'
    <3> SUFFICES ASSUME NEW m \in forward, NEW n \in forward, m.t = n.t, m.seq = n.seq
                 PROVE  Older(m) = Older(n)
      BY <1>1, <2>2 DEF Distinct
    <3>1. QED BY <2>1 DEF Distinct
  <2>5. Balanced'
    <3> SUFFICES ASSUME NEW c \in allowed
                 PROVE  Sent(c)' = received'[c] + vanished'[c] + OnTheWay(c)'
      BY DEF Balanced
    <3>1. OnTheWay(c)' = OnTheWay(c)
      <4>1. OnTheWay(c) = Cardinality(In(forward, TargetsOf(c)))
        BY Constants, CountTypes
      <4>2. {n \in forward' : ipOf[n.t] = c} = In(forward', TargetsOf(c))
        <5>1. \A n \in forward' : n.t \in Targets
          BY DEF Base, NetworkType
        <5>2. QED BY <5>1 DEF In, TargetsOf
      <4>3. QED BY <1>4, <4>1, <4>2 DEF OnTheWay
    <3>2. Sent(c)' = Sent(c)
      BY <1>1 DEF Sent, Total, TargetsOf
    <3>3. QED BY <1>1, <2>1, <3>1, <3>2 DEF Balanced
  <2>6. ASSUME status' = "serving", windowAge' < WindowLen PROVE WindowFits'
    <3>1. windowAge < WindowLen /\ windowAge' = windowAge + 1 /\ windowAge \in Nat /\ WindowFits
      <4>1. windowAge < WindowLen
        BY <1>1, <1>2, <2>6, Constants
      <4>2. QED BY <1>1, <1>2, <2>1, <2>6, <4>1 DEF Wire
    <3>2. ASSUME NEW T \in SUBSET Targets, NEW n \in Nat, Fits(n, T)
          PROVE  n + Cardinality(In(forward', T)) <= Room(since', windowAge', T)
      <4>1. Room(since, windowAge, T) <= Room(since', windowAge', T)
        <5>1. \A t \in Targets : since'[t] = IF since[t] < Interval THEN since[t] + 1 ELSE since[t]
          BY <1>1
        <5>2. Room(since, windowAge, T) <= Room(since', windowAge + 1, T)
          BY <1>2, <3>1, <5>1, RoomOfTime
        <5>3. QED BY <3>1, <5>2
      <4>2. Room(since, windowAge, T) \in Nat /\ Room(since', windowAge', T) \in Nat
            /\ Cardinality(In(forward, T)) \in Nat
        <5>1. windowAge' \in Nat
          BY <3>1
        <5>2. QED BY <1>2, <3>1, <5>1, RoomType, InType
      <4>3. n + Cardinality(In(forward, T)) <= Room(since, windowAge, T)
        BY <3>2 DEF Fits
      <4>4. Cardinality(In(forward', T)) = Cardinality(In(forward, T))
        BY <1>4
      <4>5. QED BY <4>1, <4>2, <4>3, <4>4
    <3>3. /\ \A c \in Clients : perIP[c] \in Nat /\ TargetsOf(c) \in SUBSET Targets
          /\ global \in Nat
      BY Constants DEF Base, P!ServerInv, P!LimiterInv, TargetsOf
    <3>4. \A c \in Clients : perIP'[c] + Cardinality(In(forward', TargetsOf(c)))
                               <= Room(since', windowAge', TargetsOf(c))
      BY <1>1, <3>1, <3>2, <3>3 DEF WindowFits
    <3>5. global' + Cardinality(In(forward', Targets)) <= Room(since', windowAge', Targets)
      BY <1>1, <3>1, <3>2, <3>3 DEF WindowFits
    <3>6. QED BY <3>4, <3>5, FitsNext
  <2>7. QED BY <2>3, <2>4, <2>5, <2>6
<1>6. QED BY <1>3, <1>5 DEF Wire

\* A second copy is no case of the promise.
LEMMA WireDuplicate ==
  ASSUME Base, Wire, NEW m \in forward, Duplicate(m)
  PROVE  Wire'
<1>1. UNCHANGED <<status, windowAge>> /\ dups' = dups + 1
  BY DEF Duplicate, serverVars
<1>2. dups' # 0
  BY <1>1, Constants DEF Base, NetworkType
<1>3. QED BY <1>1, <1>2 DEF Wire, FreshStart, Sized

\* Wire is inductive relative to Base.
LEMMA WireStep ==
  ASSUME Base, Base', Wire, [Next]_vars
  PROVE  Wire'
<1>1. CASE UNCHANGED vars
  BY <1>1, WireIdles DEF vars, serverVars, ledgers, network
<1>2. CASE \E t \in Targets : Send(t)
  BY <1>2, WireSend
<1>3. CASE (\E t \in Targets : Timeout(t)) \/ (\E e \in back : TakeEcho(e))
  <2>1. UNCHANGED <<serverVars, authentic, issued, since, network>>
    BY <1>3 DEF Timeout, TakeEcho
  <2>2. QED BY <2>1, WireIdles DEF serverVars, network
<1>4. CASE \E m \in forward : Vanish(m) \/ Duplicate(m)
  BY <1>4, WireVanish, WireDuplicate
<1>5. CASE \E m \in forward : Refuse(m) \/ Reflect(m) \/ PanicOn(m)
  BY <1>5, WireRefuse, WireReflect, WirePanic
<1>6. CASE ServerRuns
  <2>1. /\ UNCHANGED <<authentic, dups, forward, issued, since, vanished, received,
                       windowAge, perIP, global>>
        /\ status' = "idle" => status = "idle"
        /\ status' = "serving" => status = "serving" \/ status = "idle"
    BY <1>6 DEF ServerRuns, Server!StartFails, Server!Listen, Server!CloseSocket, Server!Return,
                Server!Cancel, Server!limiter, ledgers, network
  <2>2. status = "idle" => windowAge = WindowLen
    BY DEF Wire, FreshStart
  <2>3. QED BY <2>1, <2>2, WireIdles
<1>7. CASE TimePasses
  BY <1>7, WireTime
<1>8. QED BY <1>1, <1>2, <1>3, <1>4, <1>5, <1>6, <1>7 DEF Next

(* MismatchIsTheWire: for an allowed client whose secret and clock agree   *)
(* with the server's, at caps that have room for what delay can crowd into *)
(* a window and with no copies made, the difference of the two counters is *)
(* what the network has or has lost: no probe is refused.                  *)
THEOREM MismatchExplained == Spec => []MismatchIsTheWire
<1>1. Base /\ Wire => MismatchIsTheWire
  <2> SUFFICES ASSUME Base, Wire, Sized, NEW c \in allowed
               PROVE  Sent(c) - received[c] = vanished[c] + OnTheWay(c)
    BY DEF MismatchIsTheWire, Sized
  <2>1. Sent(c) = received[c] + vanished[c] + OnTheWay(c)
    BY DEF Wire, Balanced
  <2>2. /\ Sent(c) \in Nat /\ received[c] \in Nat
        /\ vanished[c] \in Nat /\ OnTheWay(c) \in Nat
    BY Constants, CountTypes
  <2>3. QED BY <2>1, <2>2
<1>2. Init => Base /\ Wire
  BY BaseInit, WireInit
<1>3. Base /\ Wire /\ [Next]_vars => (Base /\ Wire)'
  BY BaseStep, WireStep
<1>4. QED BY <1>1, <1>2, <1>3, PTL DEF Spec

=============================================================================
