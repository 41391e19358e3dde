-------------------------- MODULE UpdatedClientProofs --------------------------
(***************************************************************************)
(* NeverGoesBack for any number of reconcilers, objects and writers and    *)
(* any size of the cache; and NothingLost when no object is updated by two *)
(* reconcilers and the cache holds all of them.                            *)
(***************************************************************************)
EXTENDS UpdatedClient, FiniteSetTheorems, TLAPS

\* What a reconciler last saw of an object is still there to be read, or has been lost.
StillThere(c, k) ==
    obj[c][k] <= informer[k] \/ obj[c][k] <= cached[k] \/ obj[c][k] <= lost[k]

\* A lookup under way will not find less than what its reconciler last saw, unless that
\* has been lost.
LookupGood(c) ==
    pc[c] = "lookup" =>
        /\ hand[c] <= informer[key[c]]
        /\ \/ obj[c][key[c]] <= hand[c]
           \/ obj[c][key[c]] <= cached[key[c]]
           \/ obj[c][key[c]] <= lost[key[c]]

\* An update under way is newer than what its reconciler saw before.
StoreGood(c) == pc[c] = "store" => obj[c][key[c]] <= hand[c]

IInv ==
    /\ VersionsType /\ CallsType
    /\ \A c \in Clients : LookupGood(c) /\ StoreGood(c)
    /\ \A c \in Clients, k \in Keys : StillThere(c, k)

BackOnlyIfLost ==
    \A c \in Clients, k \in Keys : obj'[c][k] < obj[c][k] => obj[c][k] <= lost[k]

LEMMA InitIInv == Init => IInv
BY VersionAssumption DEF Init, IInv, VersionsType, CallsType, LookupGood, StoreGood, StillThere

LEMMA GetStep ==
    ASSUME IInv, NEW c \in Clients, NEW k \in Keys, Get(c, k)
    PROVE  IInv' /\ BackOnlyIfLost
BY VersionAssumption DEF Get, IInv, VersionsType, CallsType, LookupGood, StoreGood,
                         StillThere, BackOnlyIfLost

LEMMA LookupStep ==
    ASSUME IInv, NEW c \in Clients, Lookup(c)
    PROVE  IInv' /\ BackOnlyIfLost
<1> DEFINE new == Newest(key[c], hand[c])
<1>1. VersionsType /\ CallsType /\ key[c] \in Keys /\ pc[c] = "lookup"
  BY DEF Lookup, IInv, CallsType
<1>2. /\ new \in 0..MaxVersion /\ hand[c] <= new /\ cached[key[c]] <= new
      /\ new <= informer[key[c]] \/ new <= cached[key[c]]
      /\ new < obj[c][key[c]] => obj[c][key[c]] <= lost[key[c]]
  BY <1>1, VersionAssumption DEF Newest, IInv, LookupGood, VersionsType, CallsType
<1>3. /\ pc' = [pc EXCEPT ![c] = "idle"] /\ hand' = [hand EXCEPT ![c] = 0]
      /\ obj' = [obj EXCEPT ![c][key[c]] = new]
      /\ UNCHANGED <<server, informer, cached, key, lost>>
  BY DEF Lookup
<1> HIDE DEF new
<1>4. VersionsType' /\ CallsType'
  BY <1>1, <1>2, <1>3, VersionAssumption DEF VersionsType, CallsType
<1>5. \A d \in Clients : LookupGood(d)' /\ StoreGood(d)'
  BY <1>1, <1>3 DEF IInv, CallsType, LookupGood, StoreGood
<1>6. \A d \in Clients, k \in Keys : StillThere(d, k)'
  BY <1>1, <1>2, <1>3 DEF IInv, CallsType, StillThere
<1>7. BackOnlyIfLost
  BY <1>1, <1>2, <1>3 DEF CallsType, BackOnlyIfLost
<1> QED
  BY <1>4, <1>5, <1>6, <1>7 DEF IInv

LEMMA UpdateStep ==
    ASSUME IInv, NEW c \in Clients, NEW k \in Keys, Update(c, k)
    PROVE  IInv' /\ BackOnlyIfLost
<1>1. VersionsType /\ CallsType
  BY DEF IInv
<1>2. /\ pc' = [pc EXCEPT ![c] = "store"] /\ key' = [key EXCEPT ![c] = k]
      /\ hand' = [hand EXCEPT ![c] = server[k] + 1] /\ obj[c][k] = server[k]
      /\ UNCHANGED <<informer, cached, obj, lost>>
  BY DEF Update
<1>3. VersionsType' /\ CallsType'
  BY <1>1, VersionAssumption DEF Update, VersionsType, CallsType
<1>4. \A d \in Clients : LookupGood(d)'
  BY <1>1, <1>2 DEF IInv, CallsType, LookupGood
<1>5. \A d \in Clients : StoreGood(d)'
  BY <1>1, <1>2 DEF IInv, VersionsType, CallsType, StoreGood
<1>6. (\A d \in Clients, j \in Keys : StillThere(d, j)') /\ BackOnlyIfLost
  BY <1>1, <1>2 DEF IInv, CallsType, StillThere, BackOnlyIfLost
<1> QED
  BY <1>3, <1>4, <1>5, <1>6 DEF IInv

\* Whatever the LRU cache evicts or overwrites, what it held is cached or lost after it.
LEMMA StoreKeeps ==
    ASSUME IInv, NEW c \in Clients, Store(c)
    PROVE  /\ VersionsType' /\ CallsType'
           /\ cached'[key[c]] = hand[c]
           /\ \A k \in Keys : lost[k] <= lost'[k]
           /\ \A k \in Keys : cached[k] <= cached'[k] \/ cached[k] <= lost'[k]
<1>1. /\ key[c] \in Keys /\ hand[c] \in 0..MaxVersion
      /\ cached \in [Keys -> 0..MaxVersion] /\ lost \in [Keys -> 0..MaxVersion]
  BY DEF IInv, VersionsType, CallsType
<1>2. cached' \in [Keys -> 0..MaxVersion] /\ cached'[key[c]] = hand[c]
  <2> DEFINE out == Head(Touch(key[c]))
  <2>1. cached' = [j \in Keys |-> IF j = key[c] THEN hand[c]
                                  ELSE IF Full(key[c]) /\ j = out THEN 0 ELSE cached[j]]
    BY DEF Store, Add
  <2> HIDE DEF out
  <2> QED
    BY <1>1, <2>1, VersionAssumption
<1>3. /\ lost' \in [Keys -> 0..MaxVersion]
      /\ \A k \in Keys : lost[k] <= lost'[k]
      /\ \A k \in Keys : cached[k] <= cached'[k] \/ cached[k] <= lost'[k]
  BY <1>1, <1>2, VersionAssumption DEF Store, Lose
<1> QED
  BY <1>1, <1>2, <1>3, VersionAssumption DEF Store, IInv, VersionsType, CallsType

LEMMA StoreStep ==
    ASSUME IInv, NEW c \in Clients, Store(c)
    PROVE  IInv' /\ BackOnlyIfLost
<1>1. /\ VersionsType /\ CallsType /\ VersionsType' /\ CallsType'
      /\ cached'[key[c]] = hand[c]
      /\ \A k \in Keys : lost[k] <= lost'[k]
      /\ \A k \in Keys : cached[k] <= cached'[k] \/ cached[k] <= lost'[k]
  BY StoreKeeps DEF IInv
<1>2. /\ pc[c] = "store" /\ pc' = [pc EXCEPT ![c] = "idle"]
      /\ obj' = [obj EXCEPT ![c][key[c]] = hand[c]]
      /\ hand' = [hand EXCEPT ![c] = 0]
      /\ informer' = informer /\ key' = key
  BY DEF Store
<1>3. \A d \in Clients : LookupGood(d)' /\ StoreGood(d)'
  <2> SUFFICES ASSUME NEW d \in Clients PROVE LookupGood(d)' /\ StoreGood(d)'
    OBVIOUS
  <2>1. CASE d = c
    BY <1>1, <1>2, <2>1 DEF CallsType, LookupGood, StoreGood
  <2>2. CASE d # c
    <3>1. /\ pc'[d] = pc[d] /\ hand'[d] = hand[d] /\ key'[d] = key[d]
          /\ obj'[d][key[d]] = obj[d][key[d]] /\ obj[d][key[d]] \in Nat /\ hand[d] \in Nat
          /\ key[d] \in Keys
      BY <1>1, <1>2, <2>2 DEF CallsType
    <3>2. /\ cached[key[d]] \in Nat /\ lost[key[d]] \in Nat
          /\ cached'[key[d]] \in Nat /\ lost'[key[d]] \in Nat
      BY <1>1, <3>1 DEF VersionsType
    <3>3. LookupGood(d) /\ StoreGood(d)
      BY DEF IInv
    <3> QED
      BY <1>1, <1>2, <3>1, <3>2, <3>3 DEF LookupGood, StoreGood
  <2> QED
    BY <2>1, <2>2
<1>4. \A d \in Clients, k \in Keys : StillThere(d, k)'
  <2> SUFFICES ASSUME NEW d \in Clients, NEW k \in Keys PROVE StillThere(d, k)'
    OBVIOUS
  <2>1. StillThere(d, k)
    BY DEF IInv
  <2>2. CASE d = c /\ k = key[c]
    <3>1. obj'[d][k] = cached'[k] /\ cached'[k] \in Nat
      BY <1>1, <1>2, <2>2 DEF VersionsType, CallsType
    <3> QED
      BY <3>1 DEF StillThere
  <2>3. CASE ~(d = c /\ k = key[c])
    <3>1. obj'[d][k] = obj[d][k] /\ obj[d][k] \in Nat
      BY <1>1, <1>2, <2>3 DEF CallsType
    <3>2. /\ informer[k] \in Nat /\ cached[k] \in Nat /\ lost[k] \in Nat
          /\ cached'[k] \in Nat /\ lost'[k] \in Nat
      BY <1>1 DEF VersionsType
    <3> QED
      BY <1>1, <1>2, <2>1, <3>1, <3>2 DEF StillThere
  <2> QED
    BY <2>2, <2>3
<1>5. BackOnlyIfLost
  <2>1. obj[c][key[c]] <= hand[c]
    BY <1>2 DEF IInv, StoreGood
  <2> SUFFICES ASSUME NEW d \in Clients, NEW k \in Keys PROVE ~(obj'[d][k] < obj[d][k])
    BY DEF BackOnlyIfLost
  <2> QED
    BY <1>1, <1>2, <2>1 DEF CallsType
<1> QED
  BY <1>1, <1>3, <1>4, <1>5 DEF IInv

LEMMA OutsideStep ==
    ASSUME IInv, NEW k \in Keys, OtherWrite(k) \/ Deliver(k)
    PROVE  IInv' /\ BackOnlyIfLost
<1>1. CASE OtherWrite(k)
  BY <1>1, VersionAssumption DEF OtherWrite, IInv, VersionsType, CallsType, LookupGood,
                                 StoreGood, StillThere, BackOnlyIfLost
<1>2. CASE Deliver(k)
  <2>1. informer' \in [Keys -> 1..MaxVersion] /\ \A j \in Keys : informer[j] <= informer'[j]
    BY <1>2, VersionAssumption DEF Deliver, IInv, VersionsType
  <2> QED
    BY <1>2, <2>1, VersionAssumption DEF Deliver, IInv, VersionsType, CallsType, LookupGood,
                                         StoreGood, StillThere, BackOnlyIfLost
<1> QED
  BY <1>1, <1>2

LEMMA NextIInv == IInv /\ [Next]_vars => IInv' /\ [BackOnlyIfLost]_vars
<1> SUFFICES ASSUME IInv, [Next]_vars PROVE IInv' /\ [BackOnlyIfLost]_vars
  OBVIOUS
<1>1. CASE UNCHANGED vars
  BY <1>1 DEF vars, IInv, VersionsType, CallsType, LookupGood, StoreGood, StillThere
<1>2. CASE Next
  BY <1>2, GetStep, LookupStep, UpdateStep, StoreStep, OutsideStep DEF Next, Call
<1> QED
  BY <1>1, <1>2

LEMMA AlwaysIInv == Spec => []IInv
BY InitIInv, NextIInv, PTL DEF Spec

\* UpdatedClient gives monotonic reads of what its cache has not lost: whoever updates
\* an object, whatever the informer's delay and however small the LRU cache, a Get
\* returns less than its reconciler read or wrote before only if that version was
\* evicted or overwritten by an older one.
THEOREM MonotonicReads == Spec => NeverGoesBack
<1>1. IInv /\ [Next]_vars => [BackOnlyIfLost]_vars
  BY NextIInv
<1> QED
  BY AlwaysIInv, <1>1, PTL DEF Spec, NeverGoesBack, BackOnlyIfLost

--------------------------------------------------------------------------------
(* When no version is lost.                                                   *)

OneWriterPerKey ==
    \A c, d \in Clients : c # d => Writes[c] \cap Writes[d] = {}

LargeEnough == Cardinality(Keys) <= Capacity

\* An update under way is newer than everything cached for its object, and is its
\* writer's.
Ahead(c) ==
    pc[c] = "store" =>
        /\ key[c] \in Writes[c]
        /\ cached[key[c]] <= hand[c] /\ hand[c] <= server[key[c]]

RoomInv ==
    /\ NothingLost
    /\ \A k \in Keys : cached[k] <= server[k]
    /\ \A c \in Clients : Ahead(c)

\* A cache with room for every object evicts none.
LEMMA NeverFull ==
    ASSUME LargeEnough, NEW k \in Keys
    PROVE  ~Full(k)
<1>1. Held \cup {k} \subseteq Keys
  BY DEF Held
<1>2. Cardinality(Held \cup {k}) <= Cardinality(Keys) /\ IsFiniteSet(Held \cup {k})
  BY <1>1, KeysAssumption, FS_Subset
<1>3. Cardinality(Held \cup {k}) \in Nat /\ Cardinality(Keys) \in Nat
  BY <1>2, KeysAssumption, FS_CardinalityType
<1> QED
  BY <1>2, <1>3, CapacityAssumption DEF Full, LargeEnough

LEMMA RoomStore ==
    ASSUME OneWriterPerKey, LargeEnough, IInv, RoomInv, NEW c \in Clients, Store(c)
    PROVE  RoomInv'
<1>1. key[c] \in Keys
  BY DEF IInv, CallsType
<1>2. cached' = [cached EXCEPT ![key[c]] = hand[c]]
  BY <1>1, NeverFull DEF Store, Add, IInv, VersionsType
<1>3. NothingLost'
  BY <1>1, <1>2 DEF Store, Lose, IInv, VersionsType, CallsType, RoomInv, NothingLost, Ahead
<1>4. \A k \in Keys : cached'[k] <= server'[k]
  BY <1>1, <1>2 DEF Store, IInv, VersionsType, RoomInv, Ahead
<1>5. \A d \in Clients : Ahead(d)'
  BY <1>1, <1>2 DEF Store, IInv, VersionsType, CallsType, RoomInv, Ahead, OneWriterPerKey
<1> QED
  BY <1>3, <1>4, <1>5 DEF RoomInv

LEMMA RoomNext ==
    ASSUME OneWriterPerKey, LargeEnough
    PROVE  IInv /\ RoomInv /\ [Next]_vars => RoomInv'
<1> SUFFICES ASSUME IInv, RoomInv, [Next]_vars PROVE RoomInv'
  OBVIOUS
<1> USE DEF RoomInv, NothingLost, Ahead
<1>1. ASSUME NEW c \in Clients, NEW k \in Keys, Get(c, k) PROVE RoomInv'
  BY <1>1 DEF Get, IInv, VersionsType, CallsType
<1>2. ASSUME NEW c \in Clients, NEW k \in Keys, Update(c, k) PROVE RoomInv'
  BY <1>2 DEF Update, IInv, VersionsType, CallsType
<1>3. ASSUME NEW c \in Clients, Lookup(c) PROVE RoomInv'
  BY <1>3 DEF Lookup, IInv, VersionsType, CallsType
<1>4. ASSUME NEW k \in Keys, OtherWrite(k) \/ Deliver(k) PROVE RoomInv'
  <2>1. CASE OtherWrite(k)
    BY <2>1 DEF OtherWrite, IInv, VersionsType, CallsType
  <2>2. CASE Deliver(k)
    BY <2>2 DEF Deliver
  <2> QED
    BY <1>4, <2>1, <2>2
<1>5. CASE UNCHANGED vars
  BY <1>5 DEF vars
<1> QED
  BY <1>1, <1>2, <1>3, <1>4, <1>5, RoomStore DEF Next, Call

\* With one writer for each object and room for all of them the cache loses no version;
\* with MonotonicReads, no reconciler then ever reads less than it has seen.
THEOREM RoomLosesNothing ==
    ASSUME OneWriterPerKey, LargeEnough
    PROVE  Spec => []NothingLost
<1>1. Init => RoomInv
  BY DEF Init, RoomInv, NothingLost, Ahead
<1>2. IInv /\ RoomInv /\ [Next]_vars => RoomInv'
  BY RoomNext
<1>3. RoomInv => NothingLost
  BY DEF RoomInv
<1> QED
  BY AlwaysIInv, <1>1, <1>2, <1>3, PTL DEF Spec
================================================================================
