----------------------------- MODULE PromptCache -----------------------------
(***************************************************************************)
(* `step_with_prompt_cache`: the provider steps of the sessions of one     *)
(* process, which share the caches of a global registry.  A cache has two  *)
(* stores, each behind a mutex of its own: l1 remembers which prefixes     *)
(* (provider, system messages, tools) were seen, l2 what the provider      *)
(* answered to a whole request.  Between the lookup and the insertion the  *)
(* provider is awaited, and other sessions look up, insert and evict.      *)
(***************************************************************************)
EXTENDS CacheStore, Functions

CONSTANTS Sessions,
          Requests,         \* records with the fields of NoRequest
          Configurations,   \* the PromptCacheOptions each session may have, functions of Sessions
          MaxRequests,      \* bound on the steps begun
          MaxTime           \* bound on the clock

Options == UNION {Range(c) : c \in Configurations}

ASSUME CacheAssumption ==
    /\ \A c \in Configurations : DOMAIN c = Sessions
    /\ MaxRequests \in Nat
    /\ MaxTime \in Nat
    /\ \A o \in Options : o.ttl \in Nat /\ o.max_entries \in Nat

VARIABLES
    options,     \* of each session
    caches,      \* the partitions of the registry
    pc,          \* where the step of a session is; "idle" between steps
    request,     \* the request of the step
    got,         \* the answer of the provider that waits to be inserted
    now,
    begun,       \* how many steps were begun
    log          \* history: the uses of l2 stores, in order

vars == <<options, caches, pc, request, got, now, begun, log>>
-----------------------------------------------------------------------------
(***************************************************************************)
(* The keys.  A message is its role and text; the hashes of canonical JSON *)
(* are taken as the values themselves.                                     *)
(***************************************************************************)
SystemMessages(messages) == SelectSeq(messages, LAMBDA m : m.role = "system")
OtherMessages(messages) == SelectSeq(messages, LAMBDA m : m.role # "system")

L1Key(o, r) == <<o.provider_id, SystemMessages(r.messages), r.tools>>
\* Fault: the key leaves out the summarisation event.
L2Key_NoEvent(o, r) == <<L1Key(o, r), OtherMessages(r.messages)>>

L2Key(o, r) == <<L1Key(o, r), OtherMessages(r.messages), r.event>>

PartitionKey(o) == <<o.partition, o.ttl, o.max_entries>>

AtLeastOne(n) == IF n = 0 THEN 1 ELSE n
TimeToLive(o) == AtLeastOne(o.ttl)
MaxEntries(o) == AtLeastOne(o.max_entries)

Partition(s) == PartitionKey(options[s])
K1(s) == L1Key(options[s], request[s])
K2(s) == L2Key(options[s], request[s])

\* The skills are among the tools.  The event is the one of the state, and the
\* state is the rest of it.
NoRequest ==
    [tools |-> "none", messages |-> <<>>, event |-> "none",
     state |-> "none", last_tool_results |-> "none"]

ASSUME RequestsAssumption ==
    /\ NoRequest \notin Requests
    /\ \A r \in Requests : DOMAIN r = DOMAIN NoRequest

NoAnswer == [step |-> "none"]

Init ==
    /\ options \in Configurations
    /\ caches = [k \in {PartitionKey(o) : o \in Options} |->
                    [l1 |-> EmptyStore, l2 |-> EmptyStore]]
    /\ pc = [s \in Sessions |-> "idle"]
    /\ request = [s \in Sessions |-> NoRequest]
    /\ got = [s \in Sessions |-> NoAnswer]
    /\ now = 0
    /\ begun = 0
    /\ log = <<>>
-----------------------------------------------------------------------------
Return(s) ==
    /\ pc' = [pc EXCEPT ![s] = "idle"]
    /\ request' = [request EXCEPT ![s] = NoRequest]
    /\ got' = [got EXCEPT ![s] = NoAnswer]

AfterL1(s) == IF options[s].l2 THEN "l2_get" ELSE "asking"

\* The lookup in l1, the first thing a step with the cache does.
L1Get(s, key) ==
    LET l1 == caches[Partition(s)].l1 IN
    /\ caches' = [caches EXCEPT ![Partition(s)].l1 = AfterGet(@, key, now)]
    /\ pc' = [pc EXCEPT ![s] = IF Hit(l1, key, now) THEN AfterL1(s) ELSE "l1_insert"]

\* A step whose options disable the cache, or name another backend than memory,
\* goes straight to the provider.
Begin(s) ==
    /\ pc[s] = "idle"
    /\ begun < MaxRequests
    /\ begun' = begun + 1
    /\ \E r \in Requests :
          /\ request' = [request EXCEPT ![s] = r]
          /\ IF options[s].enabled
             THEN L1Get(s, L1Key(options[s], r))
             ELSE pc' = [pc EXCEPT ![s] = "asking"] /\ UNCHANGED caches
    /\ UNCHANGED <<options, got, now, log>>

L1Insert(s) ==
    /\ pc[s] = "l1_insert"
    /\ caches' = [caches EXCEPT ![Partition(s)].l1 =
          AfterInsert(@, K1(s), 0, now + TimeToLive(options[s]), MaxEntries(options[s]))]
    /\ pc' = [pc EXCEPT ![s] = AfterL1(s)]
    /\ UNCHANGED <<options, request, got, now, begun, log>>

\* What a session asks for, and a use of its l2 store with what it put in or got out.
Asking(s) ==
    [partition |-> Partition(s), provider |-> options[s].provider_id, request |-> request[s]]

Use(s, kind, answer) == [ask |-> Asking(s), kind |-> kind, at |-> now, answer |-> answer]

L2Hit(s) ==
    LET l2 == caches[Partition(s)].l2 IN
    /\ pc[s] = "l2_get"
    /\ Hit(l2, K2(s), now)
    /\ caches' = [caches EXCEPT ![Partition(s)].l2 = AfterGet(@, K2(s), now)]
    /\ log' = Append(log, Use(s, "hit", l2.entries[K2(s)].value))
    /\ Return(s)
    /\ UNCHANGED <<options, now, begun>>

L2Miss(s) ==
    /\ pc[s] = "l2_get"
    /\ ~Hit(caches[Partition(s)].l2, K2(s), now)
    /\ caches' = [caches EXCEPT ![Partition(s)].l2 = AfterGet(@, K2(s), now)]
    /\ pc' = [pc EXCEPT ![s] = "asking"]
    /\ UNCHANGED <<options, request, got, now, begun, log>>

(***************************************************************************)
(* The provider answers with a step, which may be ProviderStep::Error; the *)
(* clock tells two answers to one request apart.                           *)
(***************************************************************************)
Answered(s) ==
    /\ pc[s] = "asking"
    /\ IF options[s].enabled /\ options[s].l2
       THEN /\ \E step \in {"step", "error_step"} :
                  got' = [got EXCEPT ![s] = [ask |-> Asking(s), step |-> step, at |-> now]]
            /\ pc' = [pc EXCEPT ![s] = "l2_insert"]
            /\ UNCHANGED request
       ELSE Return(s)
    /\ UNCHANGED <<options, caches, now, begun, log>>

Cacheable(answer) == answer.step # "error_step"

L2Insert(s) ==
    /\ pc[s] = "l2_insert"
    /\ IF Cacheable(got[s])
       THEN /\ caches' = [caches EXCEPT ![Partition(s)].l2 =
                  AfterInsert(@, K2(s), got[s], now + TimeToLive(options[s]),
                              MaxEntries(options[s]))]
            /\ log' = Append(log, Use(s, "insert", got[s]))
       ELSE UNCHANGED <<caches, log>>
    /\ Return(s)
    /\ UNCHANGED <<options, now, begun>>

\* The provider fails or times out, or the caller drops the step that awaits it.
Unanswered(s) ==
    /\ pc[s] = "asking"
    /\ Return(s)
    /\ UNCHANGED <<options, caches, now, begun, log>>

Tick ==
    /\ now < MaxTime
    /\ now' = now + 1
    /\ UNCHANGED <<options, caches, pc, request, got, begun, log>>

Next ==
    \/ \E s \in Sessions :
          \/ Begin(s) \/ L1Insert(s) \/ L2Hit(s) \/ L2Miss(s)
          \/ Answered(s) \/ L2Insert(s) \/ Unanswered(s)
    \/ Tick

Spec == Init /\ [][Next]_vars
-----------------------------------------------------------------------------
\* The order of use names each key of a store once.
InLine(store) ==
    /\ Len(store.lru) = Cardinality(DOMAIN store.entries)
    /\ {store.lru[i] : i \in DOMAIN store.lru} = DOMAIN store.entries

(***************************************************************************)
(* Every variable has its type; a session has an answer in hand only while *)
(* it is about to insert it.                                               *)
(***************************************************************************)
TypeOK ==
    /\ options \in Configurations
    /\ pc \in [Sessions -> {"idle", "l1_insert", "l2_get", "asking", "l2_insert"}]
    /\ request \in [Sessions -> Requests \cup {NoRequest}]
    /\ \A s \in Sessions : got[s] # NoAnswer <=> pc[s] = "l2_insert"
    /\ \A s \in Sessions : request[s] = NoRequest <=> pc[s] = "idle"
    /\ now \in 0..MaxTime
    /\ begun \in 0..MaxRequests
    /\ Len(log) =< begun

(***************************************************************************)
(* No store of any partition grows beyond its max_entries, and the order   *)
(* of use names exactly the keys that are held: a key that stayed in one   *)
(* of the two alone would make eviction stop early or drop a live entry.   *)
(* The states this is said of have their types.                            *)
(***************************************************************************)
StoresBounded ==
    /\ TypeOK
    /\ \A o \in Options : \A level \in {"l1", "l2"} :
          LET store == caches[PartitionKey(o)][level] IN
          /\ Cardinality(DOMAIN store.entries) =< MaxEntries(o)
          /\ InLine(store)

(***************************************************************************)
(* The provider is sent the state and the results of the last tools too,   *)
(* and the cache pays no heed to them: it takes a provider to go by what   *)
(* the model is shown.  (The scripted MockProvider reads the last result.) *)
(***************************************************************************)
Ignored == {"state", "last_tool_results"}

(***************************************************************************)
(* Two sessions ask for the same thing: the same partition, provider and   *)
(* request, but for what is ignored and for the places of the system       *)
(* messages among the others.                                              *)
(***************************************************************************)
SameAsk(a, b) ==
    /\ a.partition = b.partition
    /\ a.provider = b.provider
    /\ SystemMessages(a.request.messages) = SystemMessages(b.request.messages)
    /\ OtherMessages(a.request.messages) = OtherMessages(b.request.messages)
    /\ \A field \in DOMAIN a.request \ (Ignored \cup {"messages"}) :
          a.request[field] = b.request[field]

Inserts(ask) == {i \in DOMAIN log : log[i].kind = "insert" /\ SameAsk(log[i].ask, ask)}

Lifetime(ask) == AtLeastOne(ask.partition[2])
Capacity(ask) == AtLeastOne(ask.partition[3])

(***************************************************************************)
(* Whatever the other sessions ask meanwhile, a hit is an answer that the  *)
(* provider gave to the same thing, and not an error: in nothing that      *)
(* docs/acceptance_extras/provider/prompt_caching_keys.md wants in the key *)
(* does the request of the answer differ from the one that is answered.    *)
(* It may differ in what is Ignored, the state and the last tool results.  *)
(***************************************************************************)
HitsFit ==
    \A i \in DOMAIN log : log[i].kind = "hit" =>
        /\ SameAsk(log[i].answer.ask, log[i].ask)
        /\ log[i].answer.step # "error_step"

(***************************************************************************)
(* A hit returns the answer inserted last for what is asked, as SameAsk    *)
(* understands it, and within the time to live counted from that           *)
(* insertion: hits in between do not prolong it, and another session's     *)
(* later insertion replaces it.                                            *)
(***************************************************************************)
HitsAreFresh ==
    \A i \in DOMAIN log : log[i].kind = "hit" =>
        LET before == {j \in Inserts(log[i].ask) : j < i} IN
        /\ before # {}
        /\ log[Max(before)].answer = log[i].answer
        /\ log[i].at < log[Max(before)].at + Lifetime(log[i].ask)

(***************************************************************************)
(* The same request does not miss by accident: it goes to the provider     *)
(* only when nothing was inserted for it, the time to live is over, or as  *)
(* many other requests as the store holds were served since its last use.  *)
(***************************************************************************)
OthersSince(ask) ==
    {j \in DOMAIN log :
        /\ log[j].ask.partition = ask.partition
        /\ \A i \in DOMAIN log : SameAsk(log[i].ask, ask) => i < j}

MissesAreExplained ==
    [][\A s \in Sessions : pc[s] = "l2_get" /\ pc'[s] = "asking" =>
          LET inserts == Inserts(Asking(s))
              others  == {L2Key([provider_id |-> log[j].ask.provider], log[j].ask.request) :
                            j \in OthersSince(Asking(s))}
          IN  \/ inserts = {}
              \/ now >= log[Max(inserts)].at + Lifetime(Asking(s))
              \/ Cardinality(others) >= Capacity(Asking(s))]_vars
-----------------------------------------------------------------------------
(***************************************************************************)
(* The inductive invariant behind the theorems of PromptCacheProofs.       *)
(***************************************************************************)
Partitions == {PartitionKey(o) : o \in Options}

Asks == [partition : Partitions, provider : {o.provider_id : o \in Options}, request : Requests]
Answers == [ask : Asks, step : {"step", "error_step"}, at : 0..MaxTime]
Uses == [ask : Asks, kind : {"hit", "insert"}, at : 0..MaxTime, answer : Answers]

Busy == {s \in Sessions : pc[s] # "idle"}

\* The session of an answer in hand still waits for the answer to that request.
StepsInv ==
    /\ options \in Configurations
    /\ pc \in [Sessions -> {"idle", "l1_insert", "l2_get", "asking", "l2_insert"}]
    /\ request \in [Sessions -> Requests \cup {NoRequest}]
    /\ got \in [Sessions -> Answers \cup {NoAnswer}]
    /\ \A s \in Sessions :
          /\ pc[s] = "idle" <=> request[s] = NoRequest
          /\ pc[s] # "l2_insert" => got[s] = NoAnswer
          /\ pc[s] = "l2_insert" => got[s] \in Answers /\ got[s].ask = Asking(s)
    /\ now \in 0..MaxTime
    /\ log \in Seq(Uses)

\* Every step begun is in progress, or ended with one use of l2 at most.
CountInv ==
    /\ begun \in 0..MaxRequests
    /\ IsFiniteSet(Busy)
    /\ Len(log) + Cardinality(Busy) =< begun

StoresInv ==
    /\ caches = [k \in Partitions |-> [l1 |-> caches[k].l1, l2 |-> caches[k].l2]]
    /\ \A k \in Partitions :
          /\ Ordered(caches[k].l1, AtLeastOne(k[3]))
          /\ Ordered(caches[k].l2, AtLeastOne(k[3]))

AskKey(ask) == L2Key([provider_id |-> ask.provider], ask.request)

\* Use i of the log put the key into the partition.
Inserted(i, k, key) ==
    log[i].kind = "insert" /\ log[i].ask.partition = k /\ AskKey(log[i].ask) = key

\* What l2 holds is what was inserted last under the key, with the time it came.
HeldInv ==
    /\ \A i \in DOMAIN log : log[i].kind = "insert" =>
          log[i].answer.ask = log[i].ask /\ log[i].answer.step # "error_step"
    /\ \A k \in Partitions : \A key \in DOMAIN caches[k].l2.entries :
          \E m \in DOMAIN log :
             /\ Inserted(m, k, key)
             /\ \A i \in DOMAIN log : Inserted(i, k, key) => i =< m
             /\ caches[k].l2.entries[key] =
                  [value |-> log[m].answer, expires |-> log[m].at + AtLeastOne(k[2])]

UsedAt(i, k, key) == log[i].ask.partition = k /\ AskKey(log[i].ask) = key

\* The keys of a partition that were used after the last use of one of them.
Since(k, key) ==
    {AskKey(log[j].ask) : j \in {j \in DOMAIN log :
        /\ log[j].ask.partition = k
        /\ \A i \in DOMAIN log : UsedAt(i, k, key) => i < j}}

Gone(m, k, key) ==
    \/ now >= log[m].at + AtLeastOne(k[2])
    \/ Cardinality(Since(k, key)) >= AtLeastOne(k[3])

\* The order of l2 is that of the uses, and what was inserted last is held
\* unless its time is over or others took its place.
OrderInv ==
    \A k \in Partitions :
        /\ LET lru == caches[k].l2.lru
           IN  \A a, b \in 1..Len(lru) : a < b => lru[b] \in Since(k, lru[a])
        /\ \A m \in DOMAIN log :
              LET key == AskKey(log[m].ask) IN
              /\ Inserted(m, k, key)
              /\ \A i \in DOMAIN log : Inserted(i, k, key) => i =< m
              => key \in DOMAIN caches[k].l2.entries \/ Gone(m, k, key)
=============================================================================
