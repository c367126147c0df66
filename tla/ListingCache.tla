----------------------------- MODULE ListingCache -----------------------------
(* BoundedReadCache (src/src/bounded-read-cache.mjs) with its two users: the  *)
(* search for files (readListing in src/src/server-file-discovery.mjs), whose *)
(* refreshes wait for older loads, and the schema of a database (readMetadata *)
(* in src/src/mysql-plugin-runtime.mjs), whose refreshes do not, and which is *)
(* cleared when everything closes.  Each has a cache of its own.              *)
(*                                                                            *)
(* What is listed is a version of the remote content, read at some moment of  *)
(* a load.                                                                    *)
EXTENDS Naturals, FiniteSets, FiniteSetsExt, Functions, Sequences, Selections

CONSTANTS
  Askers, Keys,
  Bytes,        \* size of the listing of each key
  MaxBytes, MaxEntries, MaxPending,
  MaxVersion,   \* bound: versions of the content
  MaxCleared,   \* bound: times everything closes
  None

\* A cache has room for an entry, and there is somebody else than nobody.
CacheAssumption ==
  /\ IsFiniteSet(Keys) /\ Bytes \in [Keys -> Nat] /\ None \notin Askers
  /\ MaxBytes \in Nat /\ MaxEntries \in Nat \ {0} /\ MaxVersion \in Nat /\ MaxCleared \in Nat

VARIABLES
  user,        \* whose cache it is
  content,     \* the version of what the server has
  cleared,     \* how often everything was closed
  entries,     \* Map entries, oldest first
  bytes,
  pending,     \* pending of the cache: the asker whose load it is
  refreshes,   \* refreshes of the search: the asker who started it
  ask          \* the calls

vars == <<user, content, cleared, entries, bytes, pending, refreshes, ask>>

NoAsk == [at |-> "idle", key |-> None, of |-> None, refresh |-> FALSE,
          since |-> 0, value |-> None, epoch |-> 0]

Init ==
  /\ user \in {"search", "schema"}
  /\ content = 0 /\ cleared = 0
  /\ entries = <<>> /\ bytes = 0
  /\ pending = [k \in Keys |-> None]
  /\ refreshes = [k \in Keys |-> None]
  /\ ask = [a \in Askers |-> NoAsk]

-----------------------------------------------------------------------------
(* read of the cache.  Settled loads answer their askers in the same step.    *)

Held(es) == {e.key : e \in Range(es)}
Total(es) == MapThenSumSet(LAMBDA k : Bytes[k], Held(es))
Fresh(es) == Selected(es, {n \in DOMAIN es : ~es[n].expired})
Others(es, k) == Selected(es, {n \in DOMAIN es : es[n].key # k})

\* remove: the counter follows the entries.
Holds(es) == entries' = es /\ bytes' = bytes - Total(entries) + Total(es)

\* A refresh that is answered remembers since when it was asked for.
Answers(q, v) ==
  IF q.refresh THEN [NoAsk EXCEPT !.at = "done", !.refresh = TRUE, !.since = q.since, !.value = v]
  ELSE NoAsk

\* All who wait for the call of a, and a itself.
Followers(a) ==
  LET joined == {b \in Askers : ask[b].at = "joined" /\ ask[b].of = a} \cup {a}
  IN joined \cup {b \in Askers : ask[b].at = "follows" /\ ask[b].of \in joined}
Owning(S) == [k \in Keys |-> IF refreshes[k] \in S THEN None ELSE refreshes[k]]

\* The load of a call, from the look at the entries on.
Consults(a, q) ==
  LET k == q.key
      es == IF q.refresh THEN Others(Fresh(entries), k) ELSE Fresh(entries)
      hit == {e \in Range(es) : e.key = k}
      full == Cardinality({j \in Keys : pending[j] # None}) >= MaxPending
  IN \/ /\ hit # {}
        /\ \E e \in hit : /\ Holds(Append(Others(es, k), e))
                          /\ ask' = [ask EXCEPT ![a] = Answers(q, e.value)]
        /\ UNCHANGED <<pending, refreshes>>
     \/ /\ hit = {} /\ pending[k] # None
        /\ ask' = [ask EXCEPT ![a] = [q EXCEPT !.at = "joined", !.of = pending[k]]]
        /\ Holds(es) /\ UNCHANGED <<pending, refreshes>>
     \/ /\ hit = {} /\ pending[k] = None /\ full
        /\ ask' = [b \in Askers |-> IF b \in Followers(a) THEN NoAsk ELSE ask[b]]
        /\ refreshes' = Owning({a})
        /\ Holds(es) /\ UNCHANGED pending
     \/ /\ hit = {} /\ pending[k] = None /\ ~full
        /\ ask' = [ask EXCEPT ![a] = [q EXCEPT !.at = "loading", !.epoch = cleared]]
        /\ pending' = [pending EXCEPT ![k] = a]
        /\ Holds(es) /\ UNCHANGED refreshes

Asked(k, refresh) ==
  [NoAsk EXCEPT !.key = k, !.refresh = refresh, !.since = IF refresh THEN content ELSE 0]

Read(a, k) ==
  /\ ask[a].at = "idle"
  /\ Consults(a, Asked(k, FALSE))
  /\ UNCHANGED <<user, content, cleared>>

\* The load reads what the server has.
Loads(a) ==
  /\ ask[a].at = "loading" /\ ask[a].value = None
  /\ ask' = [ask EXCEPT ![a].value = content]
  /\ UNCHANGED <<user, content, cleared, entries, bytes, pending, refreshes>>

\* Room for a listing: the oldest entries go.
Room(es, k) ==
  LET fits(n) == /\ Len(es) - n < MaxEntries
                 /\ Total(SubSeq(es, n + 1, Len(es))) + Bytes[k] <= MaxBytes
  IN SubSeq(es, Min({n \in 0..Len(es) : fits(n)}) + 1, Len(es))

\* Mutant: a load fills the cache though it is not the pending one any more.
PendingOrNot(a) == TRUE

StillPending(a) == pending[ask[a].key] = a

Filled(a) ==
  LET k == ask[a].key
  IN IF StillPending(a) /\ Bytes[k] <= MaxBytes
       THEN Holds(Append(Room(entries, k),
                         [key |-> k, value |-> ask[a].value, expired |-> FALSE, epoch |-> ask[a].epoch]))
       ELSE UNCHANGED <<entries, bytes>>

Unpended(a) == [k \in Keys |-> IF pending[k] = a THEN None ELSE pending[k]]

LoadEnds(a) ==
  LET S == Followers(a)
      waiting == {b \in Askers : ask[b].at = "waits" /\ ask[b].of = a}
  IN /\ ask[a].at = "loading"
     /\ \/ /\ ask[a].value # None /\ Filled(a)
           /\ ask' = [b \in Askers |-> IF b \in S THEN Answers(ask[b], ask[a].value)
                                       ELSE IF b \in waiting THEN [ask[b] EXCEPT !.of = None]
                                       ELSE ask[b]]
        \/ /\ UNCHANGED <<entries, bytes>>
           /\ ask' = [b \in Askers |-> IF b \in S THEN NoAsk
                                       ELSE IF b \in waiting THEN [ask[b] EXCEPT !.of = None]
                                       ELSE ask[b]]
     /\ pending' = Unpended(a) /\ refreshes' = Owning(S)
     /\ UNCHANGED <<user, content, cleared>>

-----------------------------------------------------------------------------
(* Refreshes.                                                                 *)

\* Mutant: the refresh does not wait for the load that is under way.
OlderIgnored(k) == None

\* readListing: the load under way when the refresh is asked for.
Older(k) == pending[k]

RefreshListing(a, k) ==
  /\ user = "search" /\ ask[a].at = "idle"
  /\ IF refreshes[k] # None
       THEN /\ ask' = [ask EXCEPT ![a] = [Asked(k, TRUE) EXCEPT !.at = "follows", !.of = refreshes[k],
                                                                !.since = ask[refreshes[k]].since]]
            /\ UNCHANGED refreshes
       ELSE /\ Cardinality({j \in Keys : refreshes[j] # None}) < MaxPending
            /\ ask' = [ask EXCEPT ![a] = [Asked(k, TRUE) EXCEPT !.at = "waits", !.of = Older(k)]]
            /\ refreshes' = [refreshes EXCEPT ![k] = a]
  /\ UNCHANGED <<user, content, cleared, entries, bytes, pending>>

RefreshGoes(a) ==
  /\ ask[a].at = "waits" /\ ask[a].of = None
  /\ Consults(a, ask[a])
  /\ UNCHANGED <<user, content, cleared>>

\* readMetadata: the cache is asked directly.
RefreshMetadata(a, k) ==
  /\ user = "schema" /\ ask[a].at = "idle"
  /\ Consults(a, Asked(k, TRUE))
  /\ UNCHANGED <<user, content, cleared>>

-----------------------------------------------------------------------------
Returns(a) ==
  /\ ask[a].at = "done"
  /\ ask' = [ask EXCEPT ![a] = NoAsk]
  /\ UNCHANGED <<user, content, cleared, entries, bytes, pending, refreshes>>

Expires ==
  /\ \E n \in DOMAIN entries : ~entries[n].expired /\ entries' = [entries EXCEPT ![n].expired = TRUE]
  /\ UNCHANGED <<user, content, cleared, bytes, pending, refreshes, ask>>

\* closeAll of the database runtime.
Clear ==
  /\ user = "schema" /\ cleared < MaxCleared /\ cleared' = cleared + 1
  /\ entries' = <<>> /\ bytes' = 0 /\ pending' = [k \in Keys |-> None]
  /\ UNCHANGED <<user, content, refreshes, ask>>

ContentChanges ==
  /\ content < MaxVersion /\ content' = content + 1
  /\ UNCHANGED <<user, cleared, entries, bytes, pending, refreshes, ask>>

Next ==
  \/ \E a \in Askers :
       \/ Loads(a) \/ LoadEnds(a) \/ RefreshGoes(a) \/ Returns(a)
       \/ \E k \in Keys : Read(a, k) \/ RefreshListing(a, k) \/ RefreshMetadata(a, k)
  \/ Expires \/ Clear \/ ContentChanges

Spec == Init /\ [][Next]_vars

-----------------------------------------------------------------------------
TypeOK ==
  /\ user \in {"search", "schema"} /\ content \in 0..MaxVersion /\ cleared \in 0..MaxCleared
  /\ entries \in Seq([key : Keys, value : 0..MaxVersion, expired : BOOLEAN, epoch : 0..MaxCleared])
  /\ bytes \in Nat
  /\ pending \in [Keys -> Askers \cup {None}] /\ refreshes \in [Keys -> Askers \cup {None}]
  /\ ask \in [Askers -> [at : {"idle", "loading", "joined", "waits", "follows", "done"},
                         key : Keys \cup {None}, of : Askers \cup {None}, refresh : BOOLEAN,
                         since : 0..MaxVersion, value : 0..MaxVersion \cup {None},
                         epoch : 0..MaxCleared]]

\* The limits hold and the counter is exact, one entry a key; a load that was
\* under way when everything closed leaves nothing behind, and nobody waits for
\* a call that has ended.
CacheExact ==
  /\ TypeOK
  /\ bytes = Total(entries) /\ bytes <= MaxBytes /\ Len(entries) <= MaxEntries
  /\ \A m, n \in DOMAIN entries : entries[m].key = entries[n].key => m = n
  /\ \A n \in DOMAIN entries : entries[n].epoch = cleared
  /\ \A k \in Keys : pending[k] # None => ask[pending[k]].at = "loading" /\ ask[pending[k]].key = k
  /\ \A a \in Askers : ask[a].at = "joined" => ask[ask[a].of].at = "loading"
  /\ \A a \in Askers : ask[a].at = "follows" => refreshes[ask[a].key] = ask[a].of

\* A refreshed search gets a listing that was read after the refresh it shares
\* was asked for, whatever older loads were under way, ended or failed.
RefreshIsNew ==
  \A a \in Askers :
    user = "search" /\ ask[a].at = "done" /\ ask[a].refresh => ask[a].value >= ask[a].since
=============================================================================
