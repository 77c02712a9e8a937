------------------------------ MODULE ClientFacade ------------------------------
(***************************************************************************)
(* RabbitMQClient (client.py): the cache of pools that publisher() fills   *)
(* and close() empties, without a lock, and the handles publisher() gives  *)
(* out.  A pool is a PublisherPool; here it runs or it does not (see       *)
(* SyncPublishBackend for what is inside).                                 *)
(*                                                                         *)
(* Threads share one client.  The cache is a dictionary: a sequence of     *)
(* entries in the order of insertion, in which a key occurs once.  A step  *)
(* ends where another thread can get at the cache.                         *)
(***************************************************************************)
EXTENDS Naturals, Sequences

CONSTANTS
    Threads,       \* threads of the application
    Closers,       \* those that call close(), or leave the with block
    Types,         \* message types asked for
    KnownTypes,    \* those in message_type_map
    MaxPools,      \* bound on pools made
    MaxCalls,      \* bound on calls of each thread
    MaxFailures    \* bound on pools that fail to stop

ASSUME ThreadsAssumption == Closers \subseteq Threads /\ KnownTypes \subseteq Types
ASSUME BoundsAssumption == {MaxPools, MaxCalls, MaxFailures} \subseteq Nat

Kinds == {"pool", "lightweight_sender", "other"}

VARIABLES
    cache,     \* self._sync_pools: entries [type, pool]
    made,      \* number of pools made; they are 1 .. made
    running,   \* the pools with a live backend
    at,        \* where each thread is
    want,      \* arguments of its publisher()
    handle,    \* what publisher() gave it, pool 0 for nothing
    iter,      \* its close(): size of the dictionary, position of the iterator, pool
    errors,    \* the pools that failed to stop in its last close(): what CloseError carries
    result,    \* how its last close() ended
    due,       \* history: the pools cached when it called close()
    attempted, \* history: the pools a close() has tried to stop
    replaced,  \* history: the pools whose entry got another pool
    restarted, \* history: the pools a handle started after a close() had tried to stop them
    calls, failures  \* number of calls and failures so far

poolVars == <<cache, made, running, replaced>>
closeVars == <<iter, errors, result, due, attempted, restarted>>
vars == <<poolVars, closeVars, at, want, handle, calls, failures>>

-----------------------------------------------------------------------------
(* Vocabulary.  The variants with a suffix are the mutations PROJECT.json   *)
(* names; no action uses them.                                              *)

Pools == 1 .. MaxPools
PoolsOf(c) == {c[i].pool : i \in DOMAIN c}
Position(type) == {i \in DOMAIN cache : cache[i].type = type}

\* self._sync_pools[type] = pool keeps the place of a key that is there.
WithPool(type, pool) ==
    IF Position(type) = {} THEN Append(cache, [type |-> type, pool |-> pool])
    ELSE [i \in DOMAIN cache |-> IF i \in Position(type) THEN [type |-> type, pool |-> pool] ELSE cache[i]]

\* Locals of calls that are over.
NoArgs == [type |-> "none", kind |-> "none"]
NoIter == [size |-> 0, pos |-> 0, pool |-> 0]

\* What stop() of a handle does to its pool.
StopsPool(h) == h.kind = "pool"

\* PublisherPool() looks its type up in message_type_map.
Configured_Any(type) == TRUE
Configured(type) == type \in KnownTypes

\* What close() has caught once the pool it is at has failed to stop.
WithError_Lost(t) == errors[t]
WithError(t) == errors[t] \union {iter[t].pool}

\* Where close() goes when a pool has failed to stop.
AfterFailure_Leave == "clearing"
AfterFailure == "closing"

\* What an exception that leaves the loop of close() does to the cache.
CacheAfterAbort_Cleared == <<>>
CacheAfterAbort == cache

\* A pool is made only if there is none for its type.
Missing(type) == Position(type) = {}

Init ==
    /\ cache = <<>> /\ made = 0 /\ running = {}
    /\ at = [t \in Threads |-> "idle"]
    /\ want = [t \in Threads |-> NoArgs]
    /\ handle = [t \in Threads |-> [pool |-> 0, kind |-> "none"]]
    /\ iter = [t \in Threads |-> NoIter]
    /\ errors = [t \in Threads |-> {}] /\ result = [t \in Threads |-> "none"]
    /\ due = [t \in Threads |-> {}] /\ attempted = {} /\ replaced = {} /\ restarted = {}
    /\ calls = [t \in Threads |-> 0] /\ failures = 0

-----------------------------------------------------------------------------
(* publisher().                                                             *)

Idle(t) == at[t] = "idle" /\ calls[t] < MaxCalls
Goto(t, l) == at' = [at EXCEPT ![t] = l]
Called(t) == calls' = [calls EXCEPT ![t] = @ + 1]

\* Up to the look at the cache.
PublisherCall(t) == \E type \in Types, kind \in Kinds :
    /\ Idle(t) /\ Called(t)
    /\ want' = [want EXCEPT ![t] = [type |-> type, kind |-> kind]]
    /\ Goto(t, IF Missing(type) THEN "create" ELSE "lookup")
    /\ UNCHANGED <<poolVars, closeVars, handle, failures>>

\* The pool is made and stored, also over one another thread has stored since; for a type
\* that is not in the map the constructor raises.
Create(t) ==
    /\ at[t] = "create"
    /\ IF Configured(want[t].type)
       THEN /\ made < MaxPools /\ made' = made + 1
            /\ cache' = WithPool(want[t].type, made')
            /\ replaced' = replaced \union {cache[i].pool : i \in Position(want[t].type)}
            /\ Goto(t, "lookup") /\ UNCHANGED want
       ELSE /\ Goto(t, "idle") /\ want' = [want EXCEPT ![t] = NoArgs]
            /\ UNCHANGED <<cache, made, replaced>>
    /\ UNCHANGED <<running, closeVars, handle, calls, failures>>

\* The cache is read again: the pool may be gone (KeyError) or another one.  An unknown
\* kind raises only here, when its pool is cached.
Lookup(t) ==
    /\ at[t] = "lookup" /\ Goto(t, "idle") /\ want' = [want EXCEPT ![t] = NoArgs]
    /\ \/ /\ want[t].kind # "other"
          /\ \E i \in Position(want[t].type) :
                handle' = [handle EXCEPT ![t] = [pool |-> cache[i].pool, kind |-> want[t].kind]]
       \/ /\ want[t].kind = "other" \/ Position(want[t].type) = {}
          /\ UNCHANGED handle
    /\ UNCHANGED <<poolVars, closeVars, calls, failures>>

-----------------------------------------------------------------------------
(* The handles.                                                             *)

HandleStart(t) ==
    /\ Idle(t) /\ Called(t) /\ handle[t].pool # 0
    /\ running' = running \union {handle[t].pool}
    /\ restarted' = restarted \union ({handle[t].pool} \intersect attempted)
    /\ UNCHANGED <<cache, made, replaced, iter, errors, result, due, attempted, at, want, handle, failures>>

HandleStop(t) ==
    /\ Idle(t) /\ Called(t) /\ handle[t].pool # 0
    /\ running' = IF StopsPool(handle[t]) THEN running \ {handle[t].pool} ELSE running
    /\ UNCHANGED <<cache, made, replaced, closeVars, at, want, handle, failures>>

-----------------------------------------------------------------------------
(* close().                                                                 *)

CloseCall(t) ==
    /\ t \in Closers /\ Idle(t) /\ Called(t)
    /\ iter' = [iter EXCEPT ![t] = [size |-> Len(cache), pos |-> 0, pool |-> 0]]
    /\ result' = [result EXCEPT ![t] = "none"]
    /\ due' = [due EXCEPT ![t] = PoolsOf(cache)]
    /\ errors' = [errors EXCEPT ![t] = {}]
    /\ Goto(t, "closing")
    /\ UNCHANGED <<poolVars, attempted, restarted, want, handle, failures>>

\* The iterator raises when the dictionary has grown or shrunk; that is not caught.
CloseNext(t) ==
    /\ at[t] = "closing"
    /\ IF Len(cache) # iter[t].size
       THEN /\ Goto(t, "idle") /\ result' = [result EXCEPT ![t] = "aborted"]
            /\ iter' = [iter EXCEPT ![t] = NoIter] /\ errors' = [errors EXCEPT ![t] = {}]
            /\ cache' = CacheAfterAbort
       ELSE IF iter[t].pos = iter[t].size
       THEN Goto(t, "clearing") /\ UNCHANGED <<cache, iter, errors, result>>
       ELSE /\ Goto(t, "stopping") /\ UNCHANGED <<cache, errors, result>>
            /\ iter' = [iter EXCEPT ![t].pos = @ + 1, ![t].pool = cache[iter[t].pos + 1].pool]
    /\ UNCHANGED <<made, running, replaced, due, attempted, restarted, want, handle, calls, failures>>

PoolStopped(t) ==
    /\ at[t] = "stopping" /\ Goto(t, "closing")
    /\ running' = running \ {iter[t].pool}
    /\ attempted' = attempted \union {iter[t].pool}
    /\ restarted' = restarted \ {iter[t].pool}
    /\ UNCHANGED <<cache, made, replaced, iter, errors, result, due, want, handle, calls, failures>>

\* stop() raises, when it joins a thread that is not started for one; the pool may go on.
PoolFailsToStop(t) ==
    /\ at[t] = "stopping" /\ Goto(t, AfterFailure)
    /\ failures < MaxFailures /\ failures' = failures + 1
    /\ \/ UNCHANGED running
       \/ running' = running \ {iter[t].pool}
    /\ errors' = [errors EXCEPT ![t] = WithError(t)]
    /\ attempted' = attempted \union {iter[t].pool}
    /\ UNCHANGED <<cache, made, replaced, iter, result, due, restarted, want, handle, calls>>

\* raise_if_errors comes after clear().
CloseClear(t) ==
    /\ at[t] = "clearing" /\ Goto(t, "idle")
    /\ cache' = <<>>
    /\ result' = [result EXCEPT ![t] = IF errors[t] = {} THEN "ok" ELSE "failed"]
    /\ iter' = [iter EXCEPT ![t] = NoIter]
    /\ UNCHANGED <<errors, made, running, replaced, due, attempted, restarted, want, handle, calls, failures>>

-----------------------------------------------------------------------------

CloseStep(t) == CloseNext(t) \/ PoolStopped(t) \/ PoolFailsToStop(t) \/ CloseClear(t)

Next == \E t \in Threads :
    \/ PublisherCall(t) \/ Create(t) \/ Lookup(t)
    \/ HandleStart(t) \/ HandleStop(t)
    \/ CloseCall(t) \/ CloseStep(t)

Spec == Init /\ [][Next]_vars

-----------------------------------------------------------------------------
(* Properties.                                                              *)

\* Type invariant: the cache is a dictionary of pools that were made, with one entry per type.
TypeOK ==
    /\ made \in 0 .. MaxPools
    /\ cache \in Seq([type : KnownTypes, pool : 1 .. made])
    /\ \A i, j \in DOMAIN cache : cache[i].type = cache[j].type => i = j
    /\ running \subseteq 1 .. made /\ attempted \subseteq 1 .. made
    /\ replaced \subseteq 1 .. made /\ restarted \subseteq 1 .. made
    /\ at \in [Threads -> {"idle", "create", "lookup", "closing", "stopping", "clearing"}]
    /\ want \in [Threads -> [type : Types, kind : Kinds] \union {NoArgs}]
    /\ handle \in [Threads -> [pool : 0 .. made, kind : Kinds \union {"none"}]]
    /\ iter \in [Threads -> [size : 0 .. MaxPools, pos : 0 .. MaxPools, pool : 0 .. made]]
    /\ errors \in [Threads -> SUBSET (1 .. made)] /\ due \in [Threads -> SUBSET (1 .. made)]
    /\ result \in [Threads -> {"none", "ok", "failed", "aborted"}]
    /\ calls \in [Threads -> 0 .. MaxCalls] /\ failures \in 0 .. MaxFailures

\* close() goes on after a pool that fails to stop: however it ends, unless another thread has
\* changed the cache under it, it "attempt[s] to stop all managed resources" (CloseError) that
\* were there when it was called.  The exception is a pool whose entry another thread took
\* over: two publisher() calls both had found none.
CloseCovers ==
    \A t \in Threads : result[t] \in {"ok", "failed"} => due[t] \subseteq attempted \union replaced

\* A close() that is cut short because the cache has grown forgets nothing: with one thread
\* that closes, the pools it did not get to are still there for the next close().
AbortKeeps ==
    \A t \in Closers : result[t] = "aborted" /\ at[t] = "idle" =>
        due[t] \subseteq attempted \union replaced \union PoolsOf(cache)

\* What close() had to stop stays stopped: a pool cached at its call that runs after its
\* return is one its CloseError reports, one whose entry another thread took over, or one that
\* a handle that outlived the cache has started since.  Without an error and such a handle
\* close() leaves nothing behind, whatever the other threads do meanwhile.
ClosedStays ==
    \A t \in Threads : result[t] \in {"ok", "failed"} =>
        due[t] \intersect running \subseteq errors[t] \union replaced \union restarted
=============================================================================
