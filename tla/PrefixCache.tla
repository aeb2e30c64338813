---------------------------- MODULE PrefixCache ----------------------------
(***************************************************************************)
(* What kvcache/base.py promises of a prefix cache, without nodes: a map   *)
(* from cached prefixes to pages and, for every client, the prefix it has  *)
(* locked.  A locked prefix and all its own prefixes stay; anything else   *)
(* may be evicted as long as every prefix of a cached prefix is cached.    *)
(***************************************************************************)
EXTENDS Integers, FiniteSets, Sequences, SequencesExt

CONSTANTS
  Clients,  \* the requests that hold handles
  Keys      \* the keys looked up and inserted: non-empty sequences of chunks

VARIABLES
  cached,   \* prefix -> the page of its last chunk, named by who supplied it
  locked    \* client -> the prefix it has locked, <<>> when none

cacheVars == <<cached, locked>>

CacheInit ==
  /\ cached = [p \in {} |-> {}]
  /\ locked = [c \in Clients |-> <<>>]

IsLocked(p) == \E c \in Clients : IsPrefix(p, locked[c])

IsLongestCached(p, key) ==
  /\ IsPrefix(p, key) /\ p \in DOMAIN cached \cup {<<>>}
  /\ \A q \in DOMAIN cached : IsPrefix(q, key) => Len(q) <= Len(p)

\* match_prefix and lock: nothing is cached or dropped by looking.
MatchAndLock(c, key) ==
  /\ locked[c] = <<>>
  /\ \E p \in Prefixes(key) :
       /\ IsLongestCached(p, key)
       /\ locked' = [locked EXCEPT ![c] = p]
  /\ UNCHANGED cached

\* insert_prefix: what was cached keeps its page, the rest gets the client's.
Inserted(c, key) ==
  [p \in DOMAIN cached \cup (Prefixes(key) \ {<<>>}) |->
     IF p \in DOMAIN cached THEN cached[p] ELSE c]

InsertAndRelock(c, key) ==
  /\ IsPrefix(locked[c], key)
  /\ cached' = Inserted(c, key)
  /\ locked' = [locked EXCEPT ![c] = key]

InsertAndUnlock(c, key) ==
  /\ IsPrefix(locked[c], key)
  /\ cached' = Inserted(c, key)
  /\ locked' = [locked EXCEPT ![c] = <<>>]

\* One prefix, with everything cached beyond it, or a part of an unlocked tail.
Evict ==
  \E S \in SUBSET {p \in DOMAIN cached : ~IsLocked(p)} :
    /\ S # {} /\ \A p \in S, q \in DOMAIN cached : IsPrefix(p, q) => q \in S
    /\ cached' = [p \in DOMAIN cached \ S |-> cached[p]]
    /\ UNCHANGED locked

CacheNext ==
  \/ \E c \in Clients, key \in Keys :
       MatchAndLock(c, key) \/ InsertAndRelock(c, key) \/ InsertAndUnlock(c, key)
  \/ Evict

CacheSpec == CacheInit /\ [][CacheNext]_cacheVars

=============================================================================
