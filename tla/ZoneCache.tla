----------------------------- MODULE ZoneCache -----------------------------
(***************************************************************************)
(* The solver's TTL cache of zone IDs (src/internal/solver/zonecache.go),  *)
(* as operations on one store.  Every operation holds the cache's mutex    *)
(* from end to end, so each is one atomic step of its caller.              *)
(*                                                                         *)
(* An entry's expiresAt is kept as the time left until it: left = 0 at the *)
(* instant expiresAt and left = -1 at any later one.  The entry is dead    *)
(* when now.After(expiresAt), so it still answers at expiresAt itself.     *)
(***************************************************************************)
EXTENDS Integers

CONSTANTS
  ZoneCacheTTL,   \* zoneCacheTTL, in clock units
  NoEntry         \* the map has no entry for a key

\* newZoneCache replaces a TTL that is not positive by the default.
ASSUME ZoneCacheTTLAssumption == ZoneCacheTTL \in Nat /\ ZoneCacheTTL > 0

\* Mutations: a key without one of its two fields.
KeyWithoutZone(secretRef, zoneName) == <<secretRef>>

KeyWithoutSecret(secretRef, zoneName) == <<zoneName>>

\* zoneCacheKey{secretRef, zoneName}
ZoneCacheKey(secretRef, zoneName) == <<secretRef, zoneName>>

EmptyStore(keys) == [k \in keys |-> NoEntry]

Expired(entry) == entry.left < 0

\* Mutation: Lookup does not look at expiresAt.
HitWithoutExpiry(store, key) == store[key] # NoEntry

Hit(store, key) == store[key] # NoEntry /\ ~Expired(store[key])

\* Lookup deletes the entry it finds expired.
AfterLookup(store, key) ==
  IF Hit(store, key) THEN store ELSE [store EXCEPT ![key] = NoEntry]

Store(store, key, zoneID) ==
  [store EXCEPT ![key] = [id |-> zoneID, left |-> ZoneCacheTTL]]

Invalidate(store, key) == [store EXCEPT ![key] = NoEntry]

\* The clock moves on by one unit.
AgeEntry(entry) ==
  IF entry = NoEntry \/ Expired(entry)
    THEN entry
    ELSE [entry EXCEPT !.left = @ - 1]

Aged(store) == [k \in DOMAIN store |-> AgeEntry(store[k])]

============================================================================
