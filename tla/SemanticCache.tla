--------------------------- MODULE SemanticCache ---------------------------
(***************************************************************************)
(* The semantic cache (cache.py): functions decorated with cached() that    *)
(* look for an answer, compute it on a miss and set it, over an in-memory,  *)
(* an SQLite or a Redis back end, while answers expire, are evicted and are *)
(* invalidated by tag.  A back end guards each of its own calls; get() and  *)
(* set() are two calls, and so are the listing and the removals of an       *)
(* invalidation outside memory.                                             *)
(***************************************************************************)
EXTENDS Naturals, Sequences, SequencesExt, FiniteSets

CONSTANTS McThreads,
          McPrompts, McAlike,   \* prompts, and pairs of them within the threshold
          McTwins,              \* pairs that differ only in case: one embedding
          McTags,               \* tags without a comma; "comma" is one that has some
          McMaxSize,            \* max_size of the in-memory back end
          McTtl,
          McEnd,                \* bound: instants
          McCalls               \* bound: calls and invalidations

VARIABLES mcBackend,   \* "new" until chosen, then memory, sqlite or redis
          mcStore,     \* the entries, in the order of the in-memory back end
          mcNow, mcUsed,
          mcCaller,    \* thread -> the decorated call or the invalidation it is in
          mcBegun,     \* history: invalidations begun
          mcOver,      \* history: tag -> the last invalidation that ended
          mcAnswers    \* history: the last answer served from the cache

mcVars == <<mcBackend, mcStore, mcNow, mcUsed, mcCaller, mcBegun, mcOver, mcAnswers>>
Idle == [at |-> "idle"]
Clocks == <<mcBackend, mcNow>>
Go(t, w) == mcCaller' = [mcCaller EXCEPT ![t] = w]
NewCall(t) == mcBackend # "new" /\ mcCaller[t] = Idle /\ mcUsed < McCalls /\ mcUsed' = mcUsed + 1

Tags == McTags \cup {"comma"}

----------------------------------------------------------------------------
(* An entry is for a prompt, from when it was set; Redis forgets it itself.  *)
(* used is history: the call that set it or served it last.                  *)
Without(store, prompt) == SelectSeq(store, LAMBDA e : e.prompt # prompt)

(* A mutant: an entry is thrown out only when the limit was passed before.   *)
EvictLate(store) == IF Len(store) > McMaxSize + 1 THEN Tail(store) ELSE store

Evict(store) == IF Len(store) > McMaxSize THEN Tail(store) ELSE store

replace_entry(store, e) == Append(Without(store, e.prompt), e)   \* INSERT OR REPLACE

put(store, e) ==
    LET there == \E i \in DOMAIN store : store[i].prompt = e.prompt IN
    IF mcBackend = "memory" /\ ~there THEN Evict(replace_entry(store, e)) ELSE replace_entry(store, e)

get_all == mcStore

(* A mutant: an entry is served one instant too long, wherever it is kept.   *)
LiveTooLong(e) == mcNow - e.created <= McTtl + 1

Live(e) == mcNow - e.created <= McTtl

(* Two prompts whose embeddings are within the threshold of each other; the  *)
(* embedding of a prompt is that of its lower-case letters.                  *)
_default_embedder(prompt) == {prompt} \cup UNION {w \in McTwins : prompt \in w}
_cosine_similarity(p, q) == \E w \in McAlike : p \in w /\ q \in w

(* The best entry that has not expired, the first one listed of those with   *)
(* the prompt's embedding, which need not be its own; else one alike: which  *)
(* of several is the nearest is left open, and the order of a listing, too.  *)
get(prompt) ==
    LET live == {i \in DOMAIN get_all : Live(get_all[i])}
        equal == {i \in live : get_all[i].prompt \in _default_embedder(prompt)} IN
    CASE equal = {}            -> {i \in live : _cosine_similarity(get_all[i].prompt, prompt)}
      [] mcBackend = "memory" -> {i \in equal : \A j \in equal : i <= j}
      [] OTHER                 -> equal

(* A decorated call: a hit is returned at once, else the function runs.      *)
cached(t, prompt, tag) ==
    /\ NewCall(t)
    /\ \/ \E i \in get(prompt) :
            /\ mcAnswers' = {[asked |-> prompt, entry |-> get_all[i], at |-> mcNow]}
            /\ mcStore' = [mcStore EXCEPT ![i].used = mcUsed]
            /\ UNCHANGED mcCaller
       \/ /\ get(prompt) = {}
          /\ Go(t, [at |-> "computing", prompt |-> prompt, tag |-> tag])
          /\ UNCHANGED <<mcStore, mcAnswers>>
    /\ UNCHANGED <<Clocks, mcBegun, mcOver>>

(* SQLite joins the tags with commas and splits them there: of a tag with a  *)
(* comma only its parts come back.                                           *)
AsStored(tag) == IF mcBackend = "sqlite" /\ tag = "comma" THEN "parts" ELSE tag

CacheEntry(prompt, tag) == [prompt |-> prompt, tag |-> AsStored(tag), given |-> tag, created |-> mcNow,
                            epoch |-> mcBegun, used |-> mcUsed]

(* Only a string is cached; a failing function, or another result, is not.   *)
finish(t) ==
    LET w == mcCaller[t] IN
    /\ w.at = "computing" /\ Go(t, Idle)
    /\ mcStore' = put(mcStore, CacheEntry(w.prompt, w.tag)) \/ UNCHANGED mcStore
    /\ UNCHANGED <<Clocks, mcUsed, mcBegun, mcOver, mcAnswers>>

set(t, prompt, tag) ==
    /\ NewCall(t) /\ mcStore' = put(mcStore, CacheEntry(prompt, tag))
    /\ UNCHANGED <<Clocks, mcCaller, mcBegun, mcOver, mcAnswers>>

----------------------------------------------------------------------------
(* invalidate_by_tag(): in memory under the lock; else the entries are       *)
(* listed, and each that had the tag is removed by its key, whatever is      *)
(* under that key by then.                                                   *)
invalidate_by_tag(t, tag) ==
    /\ NewCall(t) /\ mcBegun' = mcBegun + 1
    /\ IF mcBackend = "memory"
       THEN /\ mcStore' = SelectSeq(mcStore, LAMBDA e : e.tag # tag)
            /\ mcOver' = [mcOver EXCEPT ![tag] = mcBegun + 1] /\ UNCHANGED mcCaller
       ELSE /\ Go(t, [at |-> "removing", tag |-> tag, number |-> mcBegun + 1,
                      listed |-> {get_all[i].prompt : i \in {k \in DOMAIN get_all : get_all[k].tag = tag}}])
            /\ UNCHANGED <<mcStore, mcOver>>
    /\ UNCHANGED <<Clocks, mcAnswers>>

remove(t) ==
    LET w == mcCaller[t] IN
    /\ w.at = "removing"
    /\ \/ \E prompt \in w.listed :
            /\ mcStore' = Without(mcStore, prompt)
            /\ Go(t, [w EXCEPT !.listed = @ \ {prompt}]) /\ UNCHANGED mcOver
       \/ /\ w.listed = {} /\ Go(t, Idle)
          /\ mcOver' = IF w.number = 0 THEN mcOver
                       ELSE [mcOver EXCEPT ![w.tag] = IF w.number > @ THEN w.number ELSE @]
          /\ UNCHANGED mcStore
    /\ UNCHANGED <<Clocks, mcUsed, mcBegun, mcAnswers>>

(* A removal that raises ends the invalidation where it is.                  *)
remove_fails(t) ==
    /\ mcCaller[t].at = "removing" /\ mcCaller[t].listed # {} /\ Go(t, Idle)
    /\ UNCHANGED <<Clocks, mcStore, mcUsed, mcBegun, mcOver, mcAnswers>>

(* clear_namespace(): memory is emptied under the lock, SQLite deletes what  *)
(* came after the listing too, Redis removes one listed key after the other. *)
invalidate_all(t) ==
    /\ NewCall(t)
    /\ IF mcBackend = "redis"
       THEN /\ Go(t, [at |-> "removing", tag |-> "none", number |-> 0, listed |-> {get_all[i].prompt : i \in DOMAIN get_all}])
            /\ UNCHANGED mcStore
       ELSE mcStore' = <<>> /\ UNCHANGED mcCaller
    /\ UNCHANGED <<Clocks, mcBegun, mcOver, mcAnswers>>

tick ==
    /\ mcBackend # "new" /\ mcNow < McEnd /\ mcNow' = mcNow + 1
    /\ mcStore' = IF mcBackend = "redis" THEN SelectSeq(mcStore, LAMBDA e : mcNow' - e.created < McTtl + 1) ELSE mcStore
    /\ UNCHANGED <<mcBackend, mcUsed, mcCaller, mcBegun, mcOver, mcAnswers>>

choose_backend ==
    /\ mcBackend = "new" /\ mcBackend' \in {"memory", "sqlite", "redis"}
    /\ UNCHANGED <<mcStore, mcNow, mcUsed, mcCaller, mcBegun, mcOver, mcAnswers>>

Init ==
    /\ mcBackend = "new" /\ mcStore = <<>> /\ mcNow = 0 /\ mcUsed = 0
    /\ mcCaller = [t \in McThreads |-> Idle] /\ mcBegun = 0 /\ mcOver = [tag \in Tags |-> 0] /\ mcAnswers = {}

Next ==
    \/ choose_backend \/ tick
    \/ \E t \in McThreads :
         \/ \E prompt \in McPrompts, tag \in Tags \cup {"none"} : cached(t, prompt, tag) \/ set(t, prompt, tag)
         \/ \E tag \in Tags : invalidate_by_tag(t, tag)
         \/ finish(t) \/ remove(t) \/ remove_fails(t) \/ invalidate_all(t)
Spec == Init /\ [][Next]_mcVars

----------------------------------------------------------------------------
CacheTypeOK ==
    /\ mcBackend \in {"new", "memory", "sqlite", "redis"}
    /\ mcNow \in 0..McEnd /\ mcUsed \in 0..McCalls
    /\ \A t \in McThreads : mcCaller[t].at \in {"idle", "computing", "removing"}
    /\ mcOver \in [Tags -> 0..mcBegun]

(* An answer from the cache was set for the prompt or one alike, and not     *)
(* longer ago than an entry lives.                                           *)
AnswersAreFresh ==
    \A a \in mcAnswers :
      /\ a.entry.prompt \in _default_embedder(a.asked) \/ _cosine_similarity(a.asked, a.entry.prompt)
      /\ a.at - a.entry.created <= McTtl

(* Once an invalidation is over, no entry with its tag is left that was set  *)
(* before it began, however calls and invalidations overlapped, but for a    *)
(* tag with a comma in SQLite (TaggedEntriesAreRemoved below); in memory     *)
(* there is never more than the limit, and never a second entry for a        *)
(* prompt.  What a call computed before and set afterwards stays: an answer  *)
(* is as old as its set(), not as its data.                                  *)
InvalidatedEntriesAreGone ==
    /\ \A i \in DOMAIN mcStore : mcStore[i].tag \in Tags => mcStore[i].epoch >= mcOver[mcStore[i].tag]
    /\ \A i, j \in DOMAIN mcStore : mcStore[i].prompt = mcStore[j].prompt => i = j
    /\ mcBackend = "memory" => Len(mcStore) <= McMaxSize

(* Both of the above.                                                        *)
CacheIsCoherent == AnswersAreFresh /\ InvalidatedEntriesAreGone

(* "Remove all entries tagged with tag" (cache.py:521): the same for every   *)
(* tag that was given to set().                                              *)
TaggedEntriesAreRemoved ==
    \A i \in DOMAIN mcStore : mcStore[i].given \in Tags => mcStore[i].epoch >= mcOver[mcStore[i].given]

(* "LRU in-process cache backend" (cache.py:117): the entries in memory, of  *)
(* which the first is thrown out next, are in the order of their last use.   *)
(* A hit does not move its entry.                                            *)
TheLeastRecentlyUsedGoesFirst ==
    mcBackend = "memory" => \A i, j \in DOMAIN mcStore : i < j => mcStore[i].used <= mcStore[j].used
=============================================================================
