--------------------------- MODULE InferenceCache ---------------------------
(***************************************************************************)
(* The response cache of inference/cache.rs: a concurrent map of entries   *)
(* and, under a lock of its own, the keys in order of use.  A call takes   *)
(* the two one after the other and never both ("decouple locks to prevent  *)
(* ABBA deadlock"), so each access to one of them is an action.            *)
(*                                                                         *)
(* Values are abstracted to whether an entry is fresh or past its time to  *)
(* live; the hit and miss counters are left out.  DashMap is external: its *)
(* per-key operations and clear are taken as atomic.                       *)
(***************************************************************************)
EXTENDS Integers, Sequences, FiniteSets

CONSTANTS
  Keys, Threads,
  MaxEntries,   \* config.max_entries
  MaxCalls      \* bound of the model: calls made in all

ASSUME CacheAssumption ==
  /\ IsFiniteSet(Keys) /\ IsFiniteSet(Threads) /\ Threads # {}
  /\ MaxEntries \in Nat
  /\ MaxCalls \in Nat

VARIABLES
  entries,  \* entries[k]: the state of the entry of k, "none" without one
  lru,      \* the keys in order of use, the most recently used first
  pc, key, victim,  \* of each thread: position, argument, key to evict
  calls,    \* calls made so far
  interleaved,  \* history: two calls were in progress at the same time
  aged          \* history: an entry expired, or clear was called

locals       == <<key, victim>>
cacheHistory == <<interleaved, aged>>
cacheVars    == <<entries, lru, pc, locals, calls, cacheHistory>>

CacheInit ==
  /\ entries = [k \in Keys |-> "none"]
  /\ lru = <<>>
  /\ pc = [t \in Threads |-> "idle"]
  /\ key \in [Threads -> Keys]
  /\ victim = key
  /\ calls = 0
  /\ interleaved = FALSE /\ aged = FALSE

Quiet == \A t \in Threads : pc[t] = "idle"

Present == {k \in Keys : entries[k] # "none"}
Listed  == {lru[i] : i \in DOMAIN lru}

\* The part of a sequence at the positions in K.
KeepAt(q, K) ==
  LET part[i \in 0..Len(q)] ==
        IF i = 0 THEN <<>>
        ELSE IF i \in K THEN Append(part[i - 1], q[i]) ELSE part[i - 1]
  IN  part[Len(q)]

\* retain: the order without k.
Unlisted(k) == KeepAt(lru, {i \in DOMAIN lru : lru[i] # k})

Goto(t, here, next) == pc[t] = here /\ pc' = [pc EXCEPT ![t] = next]

Begin(t, k, next) ==
  /\ calls < MaxCalls
  /\ calls' = calls + 1
  /\ Goto(t, "idle", next)
  /\ key' = [key EXCEPT ![t] = k]
  /\ interleaved' = (interleaved \/ ~Quiet)
  /\ UNCHANGED victim

-----------------------------------------------------------------------------
\* get: a fresh entry is a hit, anything else goes on to the cleanup.
Get(t, k) ==
  /\ Begin(t, k, IF entries[k] = "fresh" THEN "touch" ELSE "cleanup")
  /\ UNCHANGED <<entries, lru, aged>>

\* Fault: the key is put in front and stays at its old place as well.
TouchTwice(t) ==
  /\ Goto(t, "touch", "idle")
  /\ lru' = <<key[t]>> \o lru
  /\ UNCHANGED <<entries, locals, calls, cacheHistory>>

\* Also the last step of set: the key moves to the front of the order.
Touch(t) ==
  /\ Goto(t, "touch", "idle")
  /\ lru' = <<key[t]>> \o Unlisted(key[t])
  /\ UNCHANGED <<entries, locals, calls, cacheHistory>>

\* remove_if: the entry may have been replaced since phase 1.
Cleanup(t) ==
  /\ Goto(t, "cleanup", IF entries[key[t]] = "expired" THEN "unlist" ELSE "idle")
  /\ entries' = [entries EXCEPT ![key[t]] = IF @ = "expired" THEN "none" ELSE @]
  /\ UNCHANGED <<lru, locals, calls, cacheHistory>>

\* Fault: the order keeps the key of the entry that was removed.
UnlistForgotten(t) ==
  /\ Goto(t, "unlist", "idle")
  /\ UNCHANGED <<entries, lru, locals, calls, cacheHistory>>

Unlist(t) ==
  /\ Goto(t, "unlist", "idle")
  /\ lru' = Unlisted(key[t])
  /\ UNCHANGED <<entries, locals, calls, cacheHistory>>

-----------------------------------------------------------------------------
Set(t, k) ==
  /\ Begin(t, k, "check")
  /\ UNCHANGED <<entries, lru, aged>>

\* Fault: the loop lets one entry too many in.
CheckFullOffByOne(t) ==
  /\ Goto(t, "check", IF Cardinality(Present) > MaxEntries THEN "evict" ELSE "insert")
  /\ UNCHANGED <<entries, lru, locals, calls, cacheHistory>>

\* The condition of the while loop of set.
CheckFull(t) ==
  /\ Goto(t, "check", IF Cardinality(Present) >= MaxEntries THEN "evict" ELSE "insert")
  /\ UNCHANGED <<entries, lru, locals, calls, cacheHistory>>

\* evict_lru pops the last key; with none to pop the loop tries again.
PopOldest(t) ==
  /\ IF lru = <<>>
     THEN Goto(t, "evict", "check") /\ UNCHANGED <<lru, victim>>
     ELSE /\ Goto(t, "evict", "remove")
          /\ victim' = [victim EXCEPT ![t] = lru[Len(lru)]]
          /\ lru' = SubSeq(lru, 1, Len(lru) - 1)
  /\ UNCHANGED <<entries, key, calls, cacheHistory>>

\* Fault: the key leaves the order and its entry stays.
RemoveVictimForgotten(t) ==
  /\ Goto(t, "remove", "check")
  /\ UNCHANGED <<entries, lru, locals, calls, cacheHistory>>

RemoveVictim(t) ==
  /\ Goto(t, "remove", "check")
  /\ entries' = [entries EXCEPT ![victim[t]] = "none"]
  /\ UNCHANGED <<lru, locals, calls, cacheHistory>>

Insert(t) ==
  /\ Goto(t, "insert", "touch")
  /\ entries' = [entries EXCEPT ![key[t]] = "fresh"]
  /\ UNCHANGED <<lru, locals, calls, cacheHistory>>

-----------------------------------------------------------------------------
ClearEntries(t) ==
  /\ \E k \in Keys : Begin(t, k, "clear")
  /\ entries' = [k \in Keys |-> "none"]
  /\ aged' = TRUE
  /\ UNCHANGED lru

ClearOrder(t) ==
  /\ Goto(t, "clear", "idle")
  /\ lru' = <<>>
  /\ UNCHANGED <<entries, locals, calls, cacheHistory>>

\* Time passes for an entry.
Expire(k) ==
  /\ entries[k] = "fresh"
  /\ entries' = [entries EXCEPT ![k] = "expired"]
  /\ aged' = TRUE
  /\ UNCHANGED <<lru, pc, locals, calls, interleaved>>

Step(t) ==
  \/ Touch(t) \/ Cleanup(t) \/ Unlist(t) \/ ClearOrder(t)
  \/ CheckFull(t) \/ PopOldest(t) \/ RemoveVictim(t) \/ Insert(t)

CacheNext ==
  \/ \E t \in Threads :
       \/ \E k \in Keys : Get(t, k) \/ Set(t, k)
       \/ ClearEntries(t)
       \/ Step(t)
  \/ \E k \in Keys : Expire(k)

CacheSpec == CacheInit /\ [][CacheNext]_cacheVars

-----------------------------------------------------------------------------
Pcs == {"idle", "touch", "cleanup", "unlist", "check", "evict", "remove", "insert", "clear"}

\* Types, and no key is listed twice.
CacheTypeOK ==
  /\ entries \in [Keys -> {"none", "fresh", "expired"}]
  /\ lru \in Seq(Keys)
  /\ Len(lru) = Cardinality(Listed)
  /\ pc \in [Threads -> Pcs]
  /\ key \in [Threads -> Keys]
  /\ victim \in [Threads -> Keys]
  /\ calls \in 0..MaxCalls

Inserting == {t \in Threads : pc[t] = "insert"}

\* The loop of set and the insertion are separate, so concurrent calls of set
\* pass the limit, but by at most one entry for each other call in progress.
OvershootBounded ==
  Cardinality(Present) + Cardinality(Inserting) <= MaxEntries + Cardinality(Threads) - 1

\* Between calls every entry is in the order, where evict_lru can find it; one
\* that is not in the order occupies its place until its key is used again.
EntriesEvictable == Quiet => Present \subseteq Listed

\* The entries and their order agree as far as the two locks allow: wholly while
\* calls come one at a time, and where nothing expires or is cleared in that the
\* order knows every entry.
OrderAgrees ==
  /\ ~interleaved => (Quiet => Present = Listed)
  /\ ~aged => EntriesEvictable

\* Every call of set ends, because its loop finds something to evict; unless calls
\* interleaved with the end of an entry, which may leave one that is not found.
SetsReturn == \A t \in Threads : pc[t] = "check" ~> pc[t] = "idle" \/ (interleaved /\ aged)
=============================================================================
