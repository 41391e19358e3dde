----------------------------- MODULE UpdatedClient -----------------------------
(***************************************************************************)
(* The Kubernetes client of the controller manager                         *)
(* (cmd/chaos-controller-manager/provider/updated_client.go).  Reads come  *)
(* from the informer, which lags behind the API server; every successful   *)
(* Update is also put into an LRU cache, and a Get answers with the cached *)
(* object unless the informer's is newer.                                  *)
(*                                                                         *)
(* Get and Update each touch two shared places one after the other, so     *)
(* each is two actions.  An object is its resourceVersion, counted per     *)
(* key: the code compares only versions of the same object.                *)
(***************************************************************************)
EXTENDS Naturals, Sequences, FiniteSets

CONSTANTS
    Keys,         \* the objects
    Clients,      \* the reconcilers that share the client
    Writes,       \* Writes[c]: the objects that reconciler c updates
    Capacity,     \* size of the LRU cache (100 in NewClient)
    MaxVersion    \* bound on the versions of an object

ASSUME KeysAssumption == IsFiniteSet(Keys) /\ Keys # {}
ASSUME WritesAssumption == Writes \in [Clients -> SUBSET Keys]
ASSUME CapacityAssumption == Capacity \in Nat \ {0}
ASSUME VersionAssumption == MaxVersion \in Nat \ {0}

VARIABLES
    server,       \* the version of each object in the API server
    informer,     \* the version the informer has of it
    cached,       \* the version in the LRU cache, 0 if there is none
    recent,       \* the keys in the cache, the least recently used first
    pc,           \* the half of a call each reconciler has done
    key,          \* the object of that call
    hand,         \* the version in hand between the two halves
    obj,          \* obj[c][k]: the version of k that c last read or wrote
    lost          \* the newest version that left the cache (history, for a property only)

vars == <<server, informer, cached, recent, pc, key, hand, obj, lost>>

VersionsType ==
    /\ server \in [Keys -> 1..MaxVersion]
    /\ informer \in [Keys -> 1..MaxVersion]
    /\ cached \in [Keys -> 0..MaxVersion]
    /\ lost \in [Keys -> 0..MaxVersion]

CallsType ==
    /\ pc \in [Clients -> {"idle", "lookup", "store"}]
    /\ key \in [Clients -> Keys]
    /\ hand \in [Clients -> 0..MaxVersion]
    /\ obj \in [Clients -> [Keys -> 0..MaxVersion]]

Held == {k \in Keys : cached[k] # 0}

\* What each variable may hold; the LRU order lists exactly the cached keys.
TypeOK ==
    /\ VersionsType
    /\ CallsType
    /\ recent \in Seq(Keys)
    /\ Len(recent) = Cardinality(Held) /\ Len(recent) <= Capacity
    /\ \A k \in Held : \E i \in 1..Len(recent) : recent[i] = k

--------------------------------------------------------------------------------
\* k becomes the most recently used key.
Touch(k) == Append(SelectSeq(recent, LAMBDA j : j # k), k)

Full(k) == Cardinality(Held \cup {k}) > Capacity

\* A version leaves the cache when its key is evicted, or when an older one is put over
\* it by a reconciler that stores late.
Lose ==
    lost' = [j \in Keys |-> IF cached'[j] < cached[j] /\ lost[j] < cached[j] THEN cached[j]
                            ELSE lost[j]]

\* Mutant: the object is stored without a place in the LRU order.
AddUnordered(k, v) ==
    /\ recent' = recent
    /\ cached' = [cached EXCEPT ![k] = v]

\* cache.Add: k becomes the most recent key, and the least recent one is evicted
\* when the cache is full.
Add(k, v) ==
    /\ recent' = IF Full(k) THEN Tail(Touch(k)) ELSE Touch(k)
    /\ cached' = [j \in Keys |-> IF j = k THEN v
                                 ELSE IF Full(k) /\ j = Head(Touch(k)) THEN 0
                                 ELSE cached[j]]

\* Get, first half: the read of the informer.
Get(c, k) ==
    /\ pc[c] = "idle"
    /\ pc' = [pc EXCEPT ![c] = "lookup"]
    /\ key' = [key EXCEPT ![c] = k]
    /\ hand' = [hand EXCEPT ![c] = informer[k]]
    /\ UNCHANGED <<server, informer, cached, recent, obj, lost>>

\* Mutant: the cached object is used only when the informer has none.
NewestFromInformer(k, v) == v

\* The cached object wins unless it is older.
Newest(k, v) == IF cached[k] >= v THEN cached[k] ELSE v

\* Get, second half: the lookup in the LRU cache, which counts as a use.
Lookup(c) ==
    /\ pc[c] = "lookup"
    /\ pc' = [pc EXCEPT ![c] = "idle"]
    /\ obj' = [obj EXCEPT ![c][key[c]] = Newest(key[c], hand[c])]
    /\ hand' = [hand EXCEPT ![c] = 0]
    /\ recent' = IF key[c] \in Held THEN Touch(key[c]) ELSE recent
    /\ UNCHANGED <<server, informer, cached, key, lost>>

\* Update, first half: the API server accepts it only if it is based on the
\* latest version, and answers with the new one.  A conflict changes nothing.
Update(c, k) ==
    /\ pc[c] = "idle" /\ k \in Writes[c]
    /\ obj[c][k] = server[k] /\ server[k] < MaxVersion
    /\ server' = [server EXCEPT ![k] = server[k] + 1]
    /\ hand' = [hand EXCEPT ![c] = server[k] + 1]
    /\ key' = [key EXCEPT ![c] = k]
    /\ pc' = [pc EXCEPT ![c] = "store"]
    /\ UNCHANGED <<informer, cached, recent, obj, lost>>

\* Update, second half: writeCache.
Store(c) ==
    /\ pc[c] = "store"
    /\ Add(key[c], hand[c]) /\ Lose
    /\ obj' = [obj EXCEPT ![c][key[c]] = hand[c]]
    /\ hand' = [hand EXCEPT ![c] = 0]
    /\ pc' = [pc EXCEPT ![c] = "idle"]
    /\ UNCHANGED <<server, informer, key>>

\* Users and other programs write too.
OtherWrite(k) ==
    /\ server[k] < MaxVersion
    /\ server' = [server EXCEPT ![k] = server[k] + 1]
    /\ UNCHANGED <<informer, cached, recent, pc, key, hand, obj, lost>>

\* The informer receives the next event of an object.
Deliver(k) ==
    /\ informer[k] < server[k]
    /\ informer' = [informer EXCEPT ![k] = informer[k] + 1]
    /\ UNCHANGED <<server, cached, recent, pc, key, hand, obj, lost>>

Init ==
    /\ server = [k \in Keys |-> 1]
    /\ informer = [k \in Keys |-> 1]
    /\ cached = [k \in Keys |-> 0]
    /\ recent = <<>>
    /\ pc = [c \in Clients |-> "idle"]
    /\ key \in {[c \in Clients |-> k] : k \in Keys}
    /\ hand = [c \in Clients |-> 0]
    /\ obj = [c \in Clients |-> [k \in Keys |-> 0]]
    /\ lost = [k \in Keys |-> 0]

Call(c) ==
    \/ \E k \in Keys : Get(c, k) \/ Update(c, k)
    \/ Lookup(c)
    \/ Store(c)

Next ==
    \/ \E c \in Clients : Call(c)
    \/ \E k \in Keys : OtherWrite(k) \/ Deliver(k)

Spec == Init /\ [][Next]_vars

--------------------------------------------------------------------------------
\* The purpose of the cache: a reconciler never reads an object older than one it has
\* read or written before, whatever the delay of the informer and whoever else writes
\* the object.  The only exception is a version that has left the cache.
NeverGoesBack ==
    [][\A c \in Clients, k \in Keys : obj'[c][k] < obj[c][k] => obj[c][k] <= lost[k]]_vars

\* A cache with room for all objects, each updated by one reconciler, loses no version:
\* reads are then monotonic without exception.
NothingLost == \A k \in Keys : lost[k] = 0
================================================================================
