--------------------------- MODULE ClientFacadeProofs ---------------------------
(***************************************************************************)
(* Theorems about ClientFacade, for any number of threads, types, pools,   *)
(* calls and failures.                                                     *)
(***************************************************************************)
EXTENDS ClientFacade, SequenceTheorems, TLAPS

-----------------------------------------------------------------------------
(* Type correctness.  The cache has no more entries than pools were made,   *)
(* and the position of an iterator is within the size it started with.      *)

IterInv ==
  /\ Len(cache) <= made
  /\ \A t \in Threads : iter[t].pos <= iter[t].size
  /\ \A t \in Threads : at[t] = "stopping" => iter[t].pool # 0

TypeInv == TypeOK /\ IterInv

Entries(n) == [type : KnownTypes, pool : 1 .. n]
Iter(n) == [size : 0 .. MaxPools, pos : 0 .. MaxPools, pool : 0 .. n]

Handles(n) == [pool : 0 .. n, kind : Kinds \union {"none"}]
Wants == [type : Types, kind : Kinds] \union {NoArgs}
Places == {"idle", "create", "lookup", "closing", "stopping", "clearing"}
Results == {"none", "ok", "failed", "aborted"}

CacheTyped ==
  /\ made \in 0 .. MaxPools /\ cache \in Seq(Entries(made))
  /\ \A i, j \in DOMAIN cache : cache[i].type = cache[j].type => i = j
SetsTyped ==
  /\ running \subseteq 1 .. made /\ attempted \subseteq 1 .. made
  /\ replaced \subseteq 1 .. made /\ restarted \subseteq 1 .. made
  /\ errors \in [Threads -> SUBSET (1 .. made)] /\ due \in [Threads -> SUBSET (1 .. made)]
LocalsTyped ==
  /\ at \in [Threads -> Places] /\ want \in [Threads -> Wants]
  /\ handle \in [Threads -> Handles(made)] /\ iter \in [Threads -> Iter(made)]
CountsTyped ==
  /\ result \in [Threads -> Results]
  /\ calls \in [Threads -> 0 .. MaxCalls] /\ failures \in 0 .. MaxFailures

LEMMA TypeParts == TypeOK <=> CacheTyped /\ SetsTyped /\ LocalsTyped /\ CountsTyped
  BY DEF TypeOK, CacheTyped, SetsTyped, LocalsTyped, CountsTyped, Entries, Iter, Handles, Wants,
         Places, Results

LEMMA TypePartsNext == TypeOK' <=> CacheTyped' /\ SetsTyped' /\ LocalsTyped' /\ CountsTyped'
  BY DEF TypeOK, CacheTyped, SetsTyped, LocalsTyped, CountsTyped, Entries, Iter, Handles, Wants,
         Places, Results

LEMMA Bounds == MaxPools \in Nat /\ MaxCalls \in Nat /\ MaxFailures \in Nat
  BY BoundsAssumption

LEMMA CacheFacts ==
  ASSUME TypeOK
  PROVE  /\ made \in Nat /\ made <= MaxPools /\ cache \in Seq(Entries(made))
         /\ Len(cache) \in Nat /\ DOMAIN cache = 1 .. Len(cache)
         /\ \A i \in 1 .. Len(cache) : /\ cache[i] \in Entries(made)
                                       /\ cache[i].type \in KnownTypes /\ cache[i].pool \in 1 .. made
<1>1. made \in Nat /\ made <= MaxPools /\ cache \in Seq(Entries(made))
  BY Bounds DEF TypeOK, Entries
<1>2. Len(cache) \in Nat /\ DOMAIN cache = 1 .. Len(cache) /\ cache \in [1 .. Len(cache) -> Entries(made)]
  BY <1>1, LenProperties
<1> QED
  BY <1>1, <1>2 DEF Entries

LEMMA TypeInit == Init => TypeInv
<1> SUFFICES ASSUME Init PROVE TypeInv
  OBVIOUS
<1>1. cache \in Seq(Entries(made)) /\ Len(cache) = 0 /\ DOMAIN cache = {}
  BY EmptySeq DEF Init
<1>2. Len(cache) <= made
  BY <1>1 DEF Init
<1> QED
  BY <1>1, <1>2, Bounds DEF Init, TypeInv, TypeOK, IterInv, Entries, NoArgs, NoIter, Kinds

\* A pool that is stored takes the place of the one of its type, or a new place at the end.
LEMMA Stored ==
  ASSUME TypeOK, NEW type \in KnownTypes, NEW n \in Nat, made <= n, NEW pool \in 1 .. n,
         NEW c, c = WithPool(type, pool)
  PROVE  /\ c \in Seq(Entries(n)) /\ Len(c) \in {Len(cache), Len(cache) + 1}
         /\ \A i \in 1 .. Len(cache) :
               c[i] = IF cache[i].type = type THEN [type |-> type, pool |-> pool] ELSE cache[i]
         /\ Len(c) > Len(cache) => /\ c[Len(c)] = [type |-> type, pool |-> pool]
                                   /\ \A i \in 1 .. Len(cache) : cache[i].type # type
<1> DEFINE e == [type |-> type, pool |-> pool]
<1>1. e \in Entries(n)
  BY DEF Entries
<1>2. cache \in Seq(Entries(n)) /\ Len(cache) \in Nat /\ DOMAIN cache = 1 .. Len(cache)
  <2>1. Entries(made) \subseteq Entries(n)
    BY CacheFacts DEF Entries
  <2> QED
    BY <2>1, CacheFacts, SeqMonotonic
<1>3. CASE Position(type) = {}
  <2>1. c = Append(cache, e)
    BY <1>3 DEF WithPool
  <2>2. \A i \in 1 .. Len(cache) : cache[i].type # type
    BY <1>2, <1>3 DEF Position
  <2>3. /\ Append(cache, e) \in Seq(Entries(n)) /\ Len(Append(cache, e)) = Len(cache) + 1
        /\ Append(cache, e)[Len(cache) + 1] = e
        /\ \A i \in 1 .. Len(cache) : Append(cache, e)[i] = cache[i]
    BY <1>1, <1>2
  <2> QED
    BY <1>2, <2>1, <2>2, <2>3
<1>4. CASE Position(type) # {}
  <2> DEFINE f(i) == IF i \in Position(type) THEN e ELSE cache[i]
  <2>1. c = [i \in 1 .. Len(cache) |-> f(i)]
    BY <1>2, <1>4 DEF WithPool
  <2>2. \A i \in 1 .. Len(cache) : f(i) \in Entries(n)
    BY <1>1, <1>2, LenProperties
  <2>3. c \in [1 .. Len(cache) -> Entries(n)]
    BY <2>1, <2>2
  <2>4. c \in Seq(Entries(n)) /\ Len(c) = Len(cache)
    BY <1>2, <2>3, SeqDef, LenProperties
  <2>5. \A i \in 1 .. Len(cache) : i \in Position(type) <=> cache[i].type = type
    BY <1>2 DEF Position
  <2> HIDE DEF f
  <2>6. \A i \in 1 .. Len(cache) : c[i] = f(i)
    BY <2>1
  <2>7. Len(c) \in {Len(cache), Len(cache) + 1} /\ ~(Len(c) > Len(cache))
    BY <1>2, <2>4
  <2> QED
    BY <2>4, <2>5, <2>6, <2>7 DEF f
<1> QED
  BY <1>3, <1>4

\* The types stay distinct.
LEMMA StoredTypes ==
  ASSUME TypeOK, NEW type \in KnownTypes, NEW n \in Nat, made <= n, NEW pool \in 1 .. n,
         NEW c, c = WithPool(type, pool)
  PROVE  \A i, j \in DOMAIN c : c[i].type = c[j].type => i = j
<1>1. /\ c \in Seq(Entries(n)) /\ Len(c) \in {Len(cache), Len(cache) + 1}
      /\ \A i \in 1 .. Len(cache) :
            c[i] = IF cache[i].type = type THEN [type |-> type, pool |-> pool] ELSE cache[i]
      /\ Len(c) > Len(cache) => /\ c[Len(c)] = [type |-> type, pool |-> pool]
                                /\ \A i \in 1 .. Len(cache) : cache[i].type # type
  BY Stored
<1>2. DOMAIN c = 1 .. Len(c) /\ Len(cache) \in Nat
  BY <1>1, LenProperties, CacheFacts
<1>3. \A i \in 1 .. Len(cache) : c[i].type = cache[i].type
  BY <1>1
<1>4. \A i, j \in 1 .. Len(cache) : cache[i].type = cache[j].type => i = j
  BY CacheFacts, TypeParts DEF CacheTyped
<1>5. CASE Len(c) = Len(cache)
  BY <1>2, <1>3, <1>4, <1>5
<1>6. CASE Len(c) = Len(cache) + 1
  <2>1. c[Len(c)].type = type /\ \A i \in 1 .. Len(cache) : c[i].type # type
    BY <1>1, <1>2, <1>3, <1>6
  <2>2. \A i \in 1 .. Len(c) : i \in 1 .. Len(cache) \/ i = Len(c)
    BY <1>2, <1>6
  <2>3. Len(c) \notin 1 .. Len(cache) /\ DOMAIN c = 1 .. Len(c)
    BY <1>2, <1>6
  <2>4. SUFFICES ASSUME NEW i \in 1 .. Len(c), NEW j \in 1 .. Len(c), c[i].type = c[j].type
                 PROVE  i = j
    BY <2>3
  <2>5. CASE i \in 1 .. Len(cache) /\ j \in 1 .. Len(cache)
    BY <1>3, <1>4, <2>4, <2>5
  <2>6. CASE i = Len(c) \/ j = Len(c)
    BY <2>1, <2>2, <2>4, <2>6
  <2> QED
    BY <2>2, <2>5, <2>6
<1> QED
  BY <1>1, <1>5, <1>6

LEMMA TypeCreate == ASSUME TypeInv, NEW t \in Threads, Create(t) PROVE TypeInv'
<1> USE TypeParts, TypePartsNext DEF TypeInv
<1>1. CASE want[t].type \notin KnownTypes
  <2>1. at' \in [Threads -> Places] /\ want' \in [Threads -> Wants]
    BY <1>1 DEF Create, Configured, Goto, LocalsTyped, Places, Wants
  <2>2. LocalsTyped'
    BY <1>1, <2>1 DEF Create, Configured, LocalsTyped, closeVars
  <2>3. CacheTyped' /\ SetsTyped' /\ CountsTyped'
    BY <1>1 DEF Create, Configured, closeVars, CacheTyped, SetsTyped, CountsTyped
  <2>4. IterInv'
    BY <1>1 DEF Create, Configured, Goto, closeVars, IterInv, LocalsTyped
  <2> QED
    BY <2>2, <2>3, <2>4
<1>2. CASE want[t].type \in KnownTypes
  <2>1. /\ made < MaxPools /\ made' = made + 1 /\ cache' = WithPool(want[t].type, made')
        /\ replaced' = replaced \union {cache[i].pool : i \in Position(want[t].type)}
        /\ at' = [at EXCEPT ![t] = "lookup"]
        /\ UNCHANGED <<running, closeVars, handle, calls, failures, want>>
    BY <1>2 DEF Create, Configured, Goto
  <2>2. made \in Nat /\ made' \in Nat /\ made' \in 0 .. MaxPools /\ made' \in 1 .. made' /\ made <= made'
    BY <2>1, Bounds, CacheFacts
  <2>3. cache' \in Seq(Entries(made')) /\ Len(cache') \in {Len(cache), Len(cache) + 1}
    BY <1>2, <2>1, <2>2, Stored
  <2>4. \A i, j \in DOMAIN cache' : cache'[i].type = cache'[j].type => i = j
    BY <1>2, <2>1, <2>2, StoredTypes
  <2>5. 1 .. made \subseteq 1 .. made' /\ 0 .. made \subseteq 0 .. made'
    BY <2>2
  <2>6. replaced' \subseteq 1 .. made'
    <3>1. {cache[i].pool : i \in Position(want[t].type)} \subseteq 1 .. made
      BY CacheFacts DEF Position
    <3>2. replaced \subseteq 1 .. made
      BY DEF SetsTyped
    <3> QED
      BY <2>1, <2>5, <3>1, <3>2
  <2>7. SetsTyped'
    <3>1. SUBSET (1 .. made) \subseteq SUBSET (1 .. made')
      BY <2>5
    <3>2. running' = running /\ attempted' = attempted /\ restarted' = restarted /\ errors' = errors /\ due' = due
      BY <2>1 DEF closeVars
    <3> QED
      BY <2>5, <2>6, <3>1, <3>2 DEF SetsTyped
  <2>8. LocalsTyped'
    <3>1. Handles(made) \subseteq Handles(made')
      BY <2>5 DEF Handles
    <3>2. Iter(made) \subseteq Iter(made')
      BY <2>5 DEF Iter
    <3>3. at' \in [Threads -> Places]
      BY <2>1 DEF LocalsTyped, Places
    <3> QED
      BY <2>1, <3>1, <3>2, <3>3 DEF LocalsTyped, closeVars
  <2>9. CacheTyped' /\ CountsTyped'
    BY <2>1, <2>2, <2>3, <2>4 DEF CacheTyped, CountsTyped, closeVars
  <2>10. IterInv'
    BY <2>1, <2>2, <2>3, CacheFacts DEF IterInv, closeVars, LocalsTyped
  <2> QED
    BY <2>7, <2>8, <2>9, <2>10
<1> QED
  BY <1>1, <1>2

\* The other steps leave the pools made alone, and the cache too unless they clear it.
LEMMA SameCache ==
  ASSUME TypeInv, UNCHANGED made, cache' = cache \/ cache' = <<>>
  PROVE  CacheTyped' /\ Len(cache') <= made'
<1> USE TypeParts DEF TypeInv
<1>1. CASE cache' = cache
  <2>1. CacheTyped /\ Len(cache) <= made
    BY DEF IterInv
  <2> QED
    BY <1>1, <2>1 DEF CacheTyped
<1>2. CASE cache' = <<>>
  <2>1. Len(<<>>) = 0 /\ DOMAIN <<>> = {} /\ <<>> \in Seq(Entries(made))
    BY EmptySeq
  <2> QED
    BY <1>2, <2>1, CacheFacts DEF CacheTyped
<1> QED
  BY <1>1, <1>2

LEMMA TypeCalls ==
  ASSUME TypeInv, NEW t \in Threads, PublisherCall(t) \/ Lookup(t) \/ HandleStart(t) \/ HandleStop(t)
  PROVE  TypeInv'
<1> USE TypeParts, TypePartsNext DEF TypeInv
<1>1. CacheTyped' /\ Len(cache') <= made'
  BY SameCache DEF PublisherCall, Lookup, HandleStart, HandleStop, poolVars
<1>2. CASE PublisherCall(t)
  <2>1. calls' \in [Threads -> 0 .. MaxCalls]
    BY <1>2, Bounds DEF PublisherCall, Idle, Called, CountsTyped
  <2>2. at' \in [Threads -> Places] /\ want' \in [Threads -> Wants]
    BY <1>2 DEF PublisherCall, Goto, LocalsTyped, Places, Wants
  <2>3. CountsTyped' /\ LocalsTyped' /\ SetsTyped'
    BY <1>2, <2>1, <2>2 DEF PublisherCall, poolVars, closeVars, CountsTyped, LocalsTyped, SetsTyped
  <2>4. IterInv'
    BY <1>1, <1>2 DEF PublisherCall, Goto, closeVars, LocalsTyped, IterInv
  <2> QED
    BY <1>1, <2>3, <2>4
<1>3. CASE Lookup(t)
  <2>1. \A i \in Position(want[t].type) : cache[i].pool \in 0 .. made
    BY CacheFacts DEF Position
  <2>2. handle' \in [Threads -> Handles(made)]
    <3>1. CASE want[t].kind # "other" /\ ~UNCHANGED handle
      <4>1. PICK i \in Position(want[t].type) :
               handle' = [handle EXCEPT ![t] = [pool |-> cache[i].pool, kind |-> want[t].kind]]
        BY <1>3, <3>1 DEF Lookup
      <4>2. want[t].kind \in Kinds \union {"none"}
        BY DEF LocalsTyped, Wants, NoArgs
      <4>3. [pool |-> cache[i].pool, kind |-> want[t].kind] \in Handles(made)
        BY <2>1, <4>2 DEF Handles
      <4> QED
        BY <4>1, <4>3 DEF LocalsTyped
    <3> QED
      BY <1>3, <3>1 DEF Lookup, LocalsTyped
  <2>3. at' \in [Threads -> Places] /\ want' \in [Threads -> Wants]
    BY <1>3 DEF Lookup, Goto, LocalsTyped, Places, Wants
  <2>4. UNCHANGED <<poolVars, closeVars, calls, failures>> /\ at' = [at EXCEPT ![t] = "idle"]
    BY <1>3 DEF Lookup, Goto
  <2>5. CountsTyped' /\ LocalsTyped' /\ SetsTyped'
    BY <2>2, <2>3, <2>4 DEF poolVars, closeVars, CountsTyped, LocalsTyped, SetsTyped
  <2>6. IterInv'
    BY <1>1, <2>4 DEF closeVars, LocalsTyped, IterInv
  <2> QED
    BY <1>1, <2>5, <2>6
<1>4. CASE HandleStart(t) \/ HandleStop(t)
  <2>1. calls' \in [Threads -> 0 .. MaxCalls]
    BY <1>4, Bounds DEF HandleStart, HandleStop, Idle, Called, CountsTyped
  <2>2. running' \subseteq 1 .. made
    <3>1. handle[t] \in Handles(made) /\ running \subseteq 1 .. made /\ made \in Nat
      BY CacheFacts DEF LocalsTyped, SetsTyped
    <3>2. handle[t].pool \in 0 .. made
      BY <3>1 DEF Handles
    <3>3. CASE HandleStart(t)
      <4>1. running' = running \union {handle[t].pool} /\ handle[t].pool # 0
        BY <3>3 DEF HandleStart
      <4>2. handle[t].pool \in 1 .. made
        BY <3>1, <3>2, <4>1
      <4> QED
        BY <3>1, <4>1, <4>2
    <3>4. CASE HandleStop(t)
      <4>1. running' = running \ {handle[t].pool} \/ running' = running
        BY <3>4 DEF HandleStop
      <4> QED
        BY <3>1, <4>1
    <3> QED
      BY <1>4, <3>3, <3>4
  <2>3. UNCHANGED <<cache, made, replaced, iter, errors, result, due, attempted, at, want, handle, failures>>
    BY <1>4 DEF HandleStart, HandleStop, closeVars
  <2>4. restarted' \subseteq 1 .. made
    BY <1>4 DEF HandleStart, HandleStop, closeVars, SetsTyped
  <2>5. CountsTyped' /\ LocalsTyped' /\ SetsTyped' /\ IterInv'
    BY <2>1, <2>2, <2>3, <2>4 DEF closeVars, CountsTyped, LocalsTyped, SetsTyped, IterInv
  <2> QED
    BY <1>1, <2>5
<1> QED
  BY <1>2, <1>3, <1>4

LEMMA TypeCloseCall == ASSUME TypeInv, NEW t \in Threads, CloseCall(t) PROVE TypeInv'
<1> USE TypeParts, TypePartsNext DEF TypeInv
<1>1. CacheTyped' /\ Len(cache') <= made'
  BY SameCache DEF CloseCall, poolVars
<1>2. calls' \in [Threads -> 0 .. MaxCalls]
  BY Bounds DEF CloseCall, Idle, Called, CountsTyped
<1>3. PoolsOf(cache) \in SUBSET (1 .. made)
  BY CacheFacts DEF PoolsOf
<1>4. [size |-> Len(cache), pos |-> 0, pool |-> 0] \in Iter(made)
  BY CacheFacts, Bounds DEF Iter, IterInv
<1>5. iter' \in [Threads -> Iter(made)] /\ due' \in [Threads -> SUBSET (1 .. made)]
  BY <1>3, <1>4 DEF CloseCall, LocalsTyped, SetsTyped
<1>6. at' \in [Threads -> Places] /\ result' \in [Threads -> Results]
  BY DEF CloseCall, Goto, LocalsTyped, CountsTyped, Places, Results
<1>7. SetsTyped'
  BY <1>5 DEF CloseCall, poolVars, SetsTyped
<1>8. CountsTyped' /\ LocalsTyped'
  BY <1>2, <1>5, <1>6 DEF CloseCall, poolVars, CountsTyped, LocalsTyped
<1>9. IterInv'
  BY <1>1, CacheFacts DEF CloseCall, Goto, LocalsTyped, IterInv
<1> QED
  BY <1>1, <1>7, <1>8, <1>9

\* The entry the iterator is at.
LEMMA NextEntry ==
  ASSUME TypeInv, NEW t \in Threads, Len(cache) = iter[t].size, iter[t].pos # iter[t].size
  PROVE  /\ iter[t].pos \in Nat /\ iter[t].pos + 1 \in 1 .. Len(cache)
         /\ cache[iter[t].pos + 1].pool \in 1 .. made
<1>1. iter[t] \in Iter(made) /\ iter[t].pos <= iter[t].size
  BY TypeParts DEF TypeInv, LocalsTyped, IterInv
<1>2. iter[t].pos \in Nat /\ iter[t].size \in Nat
  BY <1>1, Bounds DEF Iter
<1>3. iter[t].pos + 1 \in 1 .. Len(cache)
  BY <1>1, <1>2
<1> QED
  BY <1>2, <1>3, CacheFacts DEF TypeInv

LEMMA TypeCloseNext == ASSUME TypeInv, NEW t \in Threads, CloseNext(t) PROVE TypeInv'
<1> USE TypeParts, TypePartsNext DEF TypeInv
<1>1. CacheTyped' /\ Len(cache') <= made'
  BY SameCache DEF CloseNext, CacheAfterAbort
<1>2. UNCHANGED <<made, running, replaced, due, attempted, want, handle, calls, failures>>
  BY DEF CloseNext
<1>3. at' \in [Threads -> Places] /\ result' \in [Threads -> Results] /\ errors' \in [Threads -> SUBSET (1 .. made)]
  BY DEF CloseNext, Goto, LocalsTyped, CountsTyped, SetsTyped, Places, Results
<1>4. iter' \in [Threads -> Iter(made)]
      /\ \A s \in Threads : iter'[s].pos <= iter'[s].size /\ (at'[s] = "stopping" => iter'[s].pool # 0)
  <2>1. iter \in [Threads -> Iter(made)] /\ iter[t] \in Iter(made) /\ at \in [Threads -> Places]
    BY DEF LocalsTyped
  <2>2. \A s \in Threads : iter[s].pos <= iter[s].size /\ (at[s] = "stopping" => iter[s].pool # 0)
    BY DEF IterInv
  <2>3. CASE Len(cache) # iter[t].size
    <3>1. NoIter \in Iter(made) /\ NoIter.pos <= NoIter.size
      BY Bounds, CacheFacts DEF NoIter, Iter
    <3>2. iter' = [iter EXCEPT ![t] = NoIter] /\ at' = [at EXCEPT ![t] = "idle"]
      BY <2>3 DEF CloseNext, Goto
    <3> QED
      BY <2>1, <2>2, <3>1, <3>2
  <2>4. CASE Len(cache) = iter[t].size /\ iter[t].pos = iter[t].size
    <3>1. iter' = iter /\ at' = [at EXCEPT ![t] = "clearing"]
      BY <2>4 DEF CloseNext, Goto
    <3> QED
      BY <2>1, <2>2, <3>1
  <2>5. CASE Len(cache) = iter[t].size /\ iter[t].pos # iter[t].size
    <3> DEFINE p == cache[iter[t].pos + 1].pool
    <3>1. iter' = [iter EXCEPT ![t].pos = @ + 1, ![t].pool = p] /\ at' = [at EXCEPT ![t] = "stopping"]
      BY <2>5 DEF CloseNext, Goto
    <3>2. iter[t].pos \in Nat /\ iter[t].pos + 1 \in 1 .. iter[t].size /\ p \in 1 .. made
      BY <2>5, NextEntry
    <3>3. iter[t].size \in 0 .. MaxPools /\ DOMAIN iter = Threads
      BY <2>1 DEF Iter
    <3>4. iter'[t] = [size |-> iter[t].size, pos |-> iter[t].pos + 1, pool |-> p]
      BY <2>1, <3>1 DEF Iter
    <3> HIDE DEF p
    <3>5. iter'[t] \in Iter(made) /\ iter'[t].pos <= iter'[t].size /\ iter'[t].pool # 0
      BY <3>2, <3>3, <3>4, Bounds, CacheFacts DEF Iter
    <3>6. \A s \in Threads : s # t => iter'[s] = iter[s] /\ at'[s] = at[s]
      BY <2>1, <3>1
    <3>7. DOMAIN iter' = Threads /\ iter' = [s \in Threads |-> iter'[s]]
      BY <2>1, <3>1
    <3> QED
      BY <2>1, <2>2, <3>5, <3>6, <3>7
  <2> QED
    BY <2>3, <2>4, <2>5
<1>5. SetsTyped'
  BY <1>2, <1>3 DEF CloseNext, SetsTyped
<1>6. LocalsTyped' /\ CountsTyped' /\ IterInv'
  BY <1>1, <1>2, <1>3, <1>4 DEF LocalsTyped, CountsTyped, IterInv
<1> QED
  BY <1>1, <1>5, <1>6

LEMMA TypeStop ==
  ASSUME TypeInv, NEW t \in Threads, PoolStopped(t) \/ PoolFailsToStop(t)
  PROVE  TypeInv'
<1> USE TypeParts, TypePartsNext DEF TypeInv
<1>1. CacheTyped' /\ Len(cache') <= made'
  BY SameCache DEF PoolStopped, PoolFailsToStop
<1>2. UNCHANGED <<made, cache, replaced, iter, result, due, want, handle, calls>>
      /\ at' = [at EXCEPT ![t] = "closing"] /\ at[t] = "stopping"
  BY DEF PoolStopped, PoolFailsToStop, Goto, AfterFailure
<1>3. at' \in [Threads -> Places]
  BY <1>2 DEF LocalsTyped, Places
<1>4. iter[t].pool \in 1 .. made
  BY <1>2, CacheFacts DEF LocalsTyped, Iter, IterInv
<1>5. running' \subseteq 1 .. made /\ attempted' \subseteq 1 .. made /\ restarted' \subseteq 1 .. made
      /\ errors' \in [Threads -> SUBSET (1 .. made)]
  BY <1>4 DEF SetsTyped, PoolStopped, PoolFailsToStop, WithError
<1>6. failures' \in 0 .. MaxFailures
  BY Bounds DEF CountsTyped, PoolStopped, PoolFailsToStop
<1>7. SetsTyped' /\ LocalsTyped' /\ CountsTyped'
  BY <1>2, <1>3, <1>5, <1>6 DEF SetsTyped, LocalsTyped, CountsTyped
<1>8. IterInv'
  BY <1>1, <1>2 DEF IterInv, LocalsTyped
<1> QED
  BY <1>1, <1>7, <1>8

LEMMA TypeCloseClear == ASSUME TypeInv, NEW t \in Threads, CloseClear(t) PROVE TypeInv'
<1> USE TypeParts, TypePartsNext DEF TypeInv
<1>1. CacheTyped' /\ Len(cache') <= made'
  BY SameCache DEF CloseClear
<1>2. NoIter \in Iter(made) /\ NoIter.pos <= NoIter.size
  BY Bounds, CacheFacts DEF NoIter, Iter
<1>3. at' \in [Threads -> Places] /\ result' \in [Threads -> Results] /\ errors' \in [Threads -> SUBSET (1 .. made)]
  BY DEF CloseClear, Goto, LocalsTyped, CountsTyped, SetsTyped, Places, Results
<1>4. iter' \in [Threads -> Iter(made)]
  BY <1>2 DEF CloseClear, LocalsTyped
<1>5. SetsTyped' /\ LocalsTyped' /\ CountsTyped'
  BY <1>3, <1>4 DEF CloseClear, SetsTyped, LocalsTyped, CountsTyped
<1>6. IterInv'
  BY <1>1, <1>2 DEF CloseClear, Goto, LocalsTyped, IterInv
<1> QED
  BY <1>1, <1>5, <1>6

LEMMA TypeNext == ASSUME TypeInv, [Next]_vars PROVE TypeInv'
<1>1. CASE UNCHANGED vars
  BY <1>1 DEF vars, poolVars, closeVars, TypeInv, TypeOK, IterInv
<1>2. ASSUME NEW t \in Threads,
             PublisherCall(t) \/ Create(t) \/ Lookup(t) \/ HandleStart(t) \/ HandleStop(t)
               \/ CloseCall(t) \/ CloseStep(t)
      PROVE  TypeInv'
  BY <1>2, TypeCreate, TypeCalls, TypeCloseCall, TypeCloseNext, TypeStop, TypeCloseClear DEF CloseStep
<1> QED
  BY <1>1, <1>2 DEF Next

\* The cache stays a dictionary of pools that were made, whatever the threads do: two
\* publisher() calls that both found no pool leave one entry (client.py:178), and every
\* handle and every iterator names a pool there is.
THEOREM TypeCorrect == Spec => []TypeOK
<1>1. Init => TypeInv
  BY TypeInit
<1>2. TypeInv /\ [Next]_vars => TypeInv'
  BY TypeNext
<1>3. TypeInv => TypeOK
  BY DEF TypeInv
<1> QED
  BY <1>1, <1>2, <1>3, PTL DEF Spec

-----------------------------------------------------------------------------
(* What close() has still to stop is ahead of its iterator, or in its hand, *)
(* or was replaced in the cache.  The argument is for one closer: a second  *)
(* one can clear the cache, and two publisher() calls fill it up to the     *)
(* size it had, under the iterator of the first, which goes on to "ok".     *)

SingleCloser == \A s, t \in Closers : s = t

Closing(t) == at[t] \in {"closing", "stopping", "clearing"}
Ahead(t) == {cache[i].pool : i \in (iter[t].pos + 1) .. Len(cache)}
InHand(t) == IF at[t] = "stopping" THEN {iter[t].pool} ELSE {}
Done == attempted \union replaced

Covered(t) ==
  /\ Closing(t) => t \in Closers /\ result[t] = "none" /\ iter[t].size <= Len(cache)
  /\ result[t] # "none" => t \in Closers
  /\ at[t] \in {"closing", "stopping"} => due[t] \subseteq Done \union Ahead(t) \union InHand(t)
  /\ at[t] = "clearing" \/ result[t] \in {"ok", "failed"} => due[t] \subseteq Done
  /\ result[t] = "aborted" => due[t] \subseteq Done \union PoolsOf(cache)

CoverInv == \A t \in Threads : Covered(t)

LEMMA CoverInit == Init => CoverInv
  BY DEF Init, CoverInv, Covered, Closing

\* What an entry held was replaced once it holds something else.
Passed == \A i \in 1 .. Len(cache) :
             cache[i].pool \in replaced' \/ (i \in 1 .. Len(cache') /\ cache'[i].pool = cache[i].pool)

LEMMA PassedSame == ASSUME TypeInv, UNCHANGED cache PROVE Passed /\ Len(cache') = Len(cache)
  BY DEF Passed

LEMMA PassedStored ==
  ASSUME TypeInv, NEW t \in Threads, Create(t)
  PROVE  Passed /\ Len(cache) <= Len(cache')
<1>1. CASE want[t].type \notin KnownTypes
  BY <1>1, PassedSame, CacheFacts DEF Create, Configured, TypeInv
<1>2. CASE want[t].type \in KnownTypes
  <2> DEFINE type == want[t].type
  <2>1. /\ made' = made + 1 /\ cache' = WithPool(type, made')
        /\ replaced' = replaced \union {cache[i].pool : i \in Position(type)}
    BY <1>2 DEF Create, Configured
  <2>2. made \in Nat /\ made' \in Nat /\ made' \in 1 .. made' /\ made <= made'
        /\ Len(cache) \in Nat /\ DOMAIN cache = 1 .. Len(cache)
    BY <2>1, CacheFacts DEF TypeInv
  <2>3. /\ cache' \in Seq(Entries(made')) /\ Len(cache') \in {Len(cache), Len(cache) + 1}
        /\ \A i \in 1 .. Len(cache) :
              cache'[i] = IF cache[i].type = type THEN [type |-> type, pool |-> made'] ELSE cache[i]
    BY <1>2, <2>1, <2>2, Stored DEF TypeInv
  <2>4. Len(cache) <= Len(cache') /\ 1 .. Len(cache) \subseteq 1 .. Len(cache')
    BY <2>2, <2>3
  <2>5. ASSUME NEW i \in 1 .. Len(cache)
        PROVE  cache[i].pool \in replaced' \/ (i \in 1 .. Len(cache') /\ cache'[i].pool = cache[i].pool)
    <3>1. CASE cache[i].type = type
      <4>1. i \in Position(type)
        BY <2>2, <3>1 DEF Position
      <4> QED
        BY <2>1, <4>1
    <3>2. CASE cache[i].type # type
      BY <2>3, <2>4, <3>2
    <3> QED
      BY <3>1, <3>2
  <2> QED
    BY <2>4, <2>5 DEF Passed
<1> QED
  BY <1>1, <1>2

\* A step that leaves the close() of a thread alone keeps what it covers.
LEMMA CoverKept ==
  ASSUME TypeInv, NEW s \in Threads, Covered(s), Passed, Len(cache) <= Len(cache'),
         Len(cache') \in Nat, DOMAIN cache' = 1 .. Len(cache'),
         attempted \subseteq attempted', replaced \subseteq replaced',
         iter'[s] = iter[s], result'[s] = result[s], due'[s] = due[s],
         at'[s] = at[s] \/ (~Closing(s) /\ ~Closing(s)')
  PROVE  Covered(s)'
<1>1. Len(cache) \in Nat /\ iter[s].pos \in Nat /\ iter[s].size \in Nat /\ DOMAIN cache = 1 .. Len(cache)
  BY CacheFacts, TypeParts, Bounds DEF TypeInv, LocalsTyped, Iter
<1>2. Done \subseteq Done'
  BY DEF Done
<1>3. Ahead(s) \subseteq Done' \union Ahead(s)'
  <2>1. ASSUME NEW i \in (iter[s].pos + 1) .. Len(cache), cache[i].pool \notin Done'
        PROVE  cache[i].pool \in Ahead(s)'
    <3>1. i \in 1 .. Len(cache) /\ i \in (iter'[s].pos + 1) .. Len(cache')
      BY <1>1
    <3>2. cache'[i].pool = cache[i].pool
      BY <2>1, <3>1 DEF Passed, Done
    <3> QED
      BY <3>1, <3>2 DEF Ahead
  <2> QED
    BY <2>1 DEF Ahead
<1>4. PoolsOf(cache) \subseteq Done' \union PoolsOf(cache)'
  <2>1. ASSUME NEW i \in 1 .. Len(cache), cache[i].pool \notin Done'
        PROVE  cache[i].pool \in PoolsOf(cache)'
    <3>1. i \in 1 .. Len(cache') /\ cache'[i].pool = cache[i].pool
      BY <2>1 DEF Passed, Done
    <3> QED
      BY <3>1 DEF PoolsOf
  <2> QED
    BY <1>1, <2>1 DEF PoolsOf
<1>5. CASE at'[s] = at[s]
  <2>1. InHand(s)' = InHand(s) /\ (Closing(s)' <=> Closing(s))
    BY <1>5 DEF InHand, Closing
  <2> QED
    BY <1>1, <1>2, <1>3, <1>4, <1>5, <2>1 DEF Covered
<1>6. CASE ~Closing(s) /\ ~Closing(s)'
  BY <1>2, <1>4, <1>6 DEF Covered, Closing
<1> QED
  BY <1>5, <1>6

\* The length of the cache after a step.
LEMMA NextCache ==
  ASSUME TypeInv, [Next]_vars
  PROVE  Len(cache') \in Nat /\ DOMAIN cache' = 1 .. Len(cache')
<1>1. cache' \in Seq([type : KnownTypes, pool : 1 .. made'])
  BY TypeNext DEF TypeInv, TypeOK
<1> QED
  BY <1>1, LenProperties

LEMMA CoverCalls ==
  ASSUME TypeInv, CoverInv, NEW t \in Threads, [Next]_vars,
         PublisherCall(t) \/ Create(t) \/ Lookup(t) \/ HandleStart(t) \/ HandleStop(t)
  PROVE  CoverInv'
<1>1. Passed /\ Len(cache) <= Len(cache')
  BY PassedStored, PassedSame, CacheFacts
  DEF TypeInv, PublisherCall, Lookup, HandleStart, HandleStop, poolVars
<1>2. UNCHANGED <<iter, errors, result, due, attempted>> /\ replaced \subseteq replaced'
  BY DEF PublisherCall, Create, Lookup, HandleStart, HandleStop, poolVars, closeVars
<1>3. \A s \in Threads : at'[s] = at[s] \/ (~Closing(s) /\ ~Closing(s)')
  <2>1. at' = at \/ (~Closing(t) /\ \E l \in {"idle", "create", "lookup"} : at' = [at EXCEPT ![t] = l])
    BY DEF PublisherCall, Create, Lookup, HandleStart, HandleStop, Goto, Idle, Closing
  <2>2. at \in [Threads -> Places]
    BY TypeParts DEF TypeInv, LocalsTyped
  <2> QED
    BY <2>1, <2>2 DEF Closing
<1> QED
  BY <1>1, <1>2, <1>3, CoverKept, NextCache DEF CoverInv

\* A step of close() leaves the other threads where they were.
LEMMA OthersCovered ==
  ASSUME TypeInv, CoverInv, NEW t \in Threads, [Next]_vars, CloseCall(t) \/ CloseStep(t), UNCHANGED cache
  PROVE  \A s \in Threads \ {t} : Covered(s)'
<1>1. UNCHANGED replaced /\ attempted \subseteq attempted'
  BY DEF CloseCall, CloseStep, CloseNext, PoolStopped, PoolFailsToStop, CloseClear, poolVars
<1>2. Passed /\ Len(cache) <= Len(cache')
  BY PassedSame, CacheFacts DEF TypeInv
<1>3. \A s \in Threads \ {t} : at'[s] = at[s] /\ iter'[s] = iter[s] /\ result'[s] = result[s] /\ due'[s] = due[s]
  BY TypeParts
  DEF TypeInv, LocalsTyped, SetsTyped, CountsTyped, CloseCall, CloseStep, CloseNext, PoolStopped, PoolFailsToStop,
      CloseClear, Goto
<1> QED
  BY <1>1, <1>2, <1>3, CoverKept, NextCache DEF CoverInv

LEMMA CoverCloseCall == ASSUME TypeInv, CoverInv, NEW t \in Threads, CloseCall(t), [Next]_vars PROVE CoverInv'
<1>1. /\ at'[t] = "closing" /\ result'[t] = "none" /\ due'[t] = PoolsOf(cache) /\ t \in Closers
      /\ iter'[t] = [size |-> Len(cache), pos |-> 0, pool |-> 0] /\ cache' = cache
  BY TypeParts DEF TypeInv, LocalsTyped, SetsTyped, CountsTyped, CloseCall, Goto, poolVars
<1>2. PoolsOf(cache) = Ahead(t)'
  BY <1>1, CacheFacts DEF PoolsOf, Ahead, TypeInv
<1>3. Covered(t)'
  BY <1>1, <1>2, CacheFacts DEF Covered, Closing, TypeInv
<1> QED
  BY <1>1, <1>3, OthersCovered DEF CoverInv

\* An iterator that goes on takes the next entry in hand, or is through.
LEMMA AheadNext ==
  ASSUME TypeInv, NEW t \in Threads, CloseNext(t), Len(cache) = iter[t].size
  PROVE  /\ UNCHANGED <<cache, iter[t].size, result>>
         /\ \/ at'[t] = "clearing" /\ Ahead(t) = {}
            \/ at'[t] = "stopping" /\ Ahead(t) \subseteq Ahead(t)' \union InHand(t)'
<1>1. Len(cache) \in Nat /\ iter[t].pos \in Nat /\ iter[t].size \in Nat
  BY CacheFacts, TypeParts, Bounds DEF TypeInv, LocalsTyped, Iter
<1>2. at \in [Threads -> Places] /\ iter \in [Threads -> Iter(made)]
  BY TypeParts DEF TypeInv, LocalsTyped
<1>3. CASE iter[t].pos = iter[t].size
  <2>1. at'[t] = "clearing" /\ UNCHANGED <<cache, iter, result>>
    BY <1>2, <1>3 DEF CloseNext, Goto
  <2>2. Ahead(t) = {}
    BY <1>1, <1>3 DEF Ahead
  <2> QED
    BY <2>1, <2>2
<1>4. CASE iter[t].pos # iter[t].size
  <2> DEFINE p == cache[iter[t].pos + 1].pool
  <2>1. /\ at'[t] = "stopping" /\ UNCHANGED <<cache, result>>
        /\ iter' = [iter EXCEPT ![t].pos = @ + 1, ![t].pool = p]
    BY <1>2, <1>4 DEF CloseNext, Goto
  <2>2. iter'[t].pos = iter[t].pos + 1 /\ iter'[t].pool = p /\ iter'[t].size = iter[t].size
    BY <1>2, <2>1 DEF Iter
  <2>3. InHand(t)' = {p} /\ Ahead(t)' = {cache[i].pool : i \in (iter[t].pos + 1 + 1) .. Len(cache)}
    BY <2>1, <2>2 DEF InHand, Ahead
  <2>4. \A i \in (iter[t].pos + 1) .. Len(cache) :
           i = iter[t].pos + 1 \/ i \in (iter[t].pos + 1 + 1) .. Len(cache)
    BY <1>1
  <2>5. Ahead(t) \subseteq Ahead(t)' \union InHand(t)'
    BY <2>3, <2>4 DEF Ahead
  <2> QED
    BY <2>1, <2>2, <2>5
<1> QED
  BY <1>3, <1>4

LEMMA CoverCloseNext == ASSUME TypeInv, CoverInv, NEW t \in Threads, CloseNext(t), [Next]_vars PROVE CoverInv'
<1>1. UNCHANGED <<cache, replaced, due, attempted>> /\ at[t] = "closing"
  BY DEF CloseNext, CacheAfterAbort
<1>2. /\ Covered(t) /\ t \in Closers /\ result[t] = "none" /\ iter[t].size <= Len(cache)
      /\ due[t] \subseteq Done \union Ahead(t) /\ InHand(t) = {} /\ Done' = Done
  BY <1>1 DEF CoverInv, Covered, Closing, InHand, Done
<1>3. Len(cache) \in Nat /\ iter[t].pos \in Nat /\ iter[t].size \in Nat /\ DOMAIN cache = 1 .. Len(cache)
  BY CacheFacts, TypeParts, Bounds DEF TypeInv, LocalsTyped, Iter
<1>4. at \in [Threads -> Places] /\ iter \in [Threads -> Iter(made)] /\ result \in [Threads -> Results]
  BY TypeParts DEF TypeInv, LocalsTyped, CountsTyped
<1>5. CASE Len(cache) # iter[t].size
  <2>1. at'[t] = "idle" /\ result'[t] = "aborted"
    BY <1>4, <1>5 DEF CloseNext, Goto
  <2>2. Ahead(t) \subseteq PoolsOf(cache)
    BY <1>3 DEF Ahead, PoolsOf
  <2> QED
    BY <1>1, <1>2, <2>1, <2>2, OthersCovered DEF CoverInv, Covered, Closing, CloseStep, PoolsOf
<1>6. CASE Len(cache) = iter[t].size
  BY <1>1, <1>2, <1>6, AheadNext, OthersCovered DEF CoverInv, Covered, Closing, CloseStep
<1> QED
  BY <1>5, <1>6

LEMMA CoverStop ==
  ASSUME TypeInv, CoverInv, NEW t \in Threads, PoolStopped(t) \/ PoolFailsToStop(t), [Next]_vars
  PROVE  CoverInv'
<1>1. /\ UNCHANGED <<cache, replaced, due, iter, result>> /\ attempted' = attempted \union {iter[t].pool}
      /\ at[t] = "stopping" /\ at' = [at EXCEPT ![t] = "closing"]
  BY DEF PoolStopped, PoolFailsToStop, Goto, AfterFailure
<1>2. at'[t] = "closing"
  BY <1>1, TypeParts DEF TypeInv, LocalsTyped
<1>3. Done' = Done \union InHand(t) /\ Ahead(t)' = Ahead(t) /\ InHand(t)' = {}
  BY <1>1, <1>2 DEF Done, InHand, Ahead
<1>4. Covered(t)'
  BY <1>1, <1>2, <1>3 DEF CoverInv, Covered, Closing
<1> QED
  BY <1>1, <1>4, OthersCovered DEF CoverInv, CloseStep

\* Nobody else has anything to lose by the clear.
LEMMA CoverCloseClear ==
  ASSUME SingleCloser, TypeInv, CoverInv, NEW t \in Threads, CloseClear(t)
  PROVE  CoverInv'
<1>1. /\ UNCHANGED <<replaced, due, attempted>> /\ at[t] = "clearing" /\ at' = [at EXCEPT ![t] = "idle"]
      /\ result' = [result EXCEPT ![t] = IF errors[t] = {} THEN "ok" ELSE "failed"]
  BY DEF CloseClear, Goto
<1>2. at \in [Threads -> Places] /\ result \in [Threads -> Results]
  BY TypeParts DEF TypeInv, LocalsTyped, CountsTyped
<1>3. t \in Closers /\ due[t] \subseteq Done /\ Done' = Done
  BY <1>1 DEF CoverInv, Covered, Closing, Done
<1>4. Covered(t)'
  <2>1. at'[t] = "idle" /\ result'[t] \in {"ok", "failed"}
    BY <1>1, <1>2
  <2> QED
    BY <1>1, <1>3, <2>1 DEF Covered, Closing
<1>5. ASSUME NEW s \in Threads, s # t PROVE Covered(s)'
  <2>1. s \notin Closers /\ Covered(s)
    BY <1>3, <1>5 DEF SingleCloser, CoverInv
  <2>2. at'[s] = at[s] /\ result'[s] = "none" /\ ~Closing(s)
    BY <1>1, <1>2, <1>5, <2>1 DEF Covered
  <2> QED
    BY <2>2 DEF Covered, Closing
<1> QED
  BY <1>4, <1>5 DEF CoverInv

LEMMA CoverNext == ASSUME SingleCloser, TypeInv, CoverInv, [Next]_vars PROVE CoverInv'
<1>1. CASE UNCHANGED vars
  BY <1>1 DEF vars, poolVars, closeVars, CoverInv, Covered, Closing, Ahead, InHand, Done, PoolsOf
<1>2. ASSUME NEW t \in Threads,
             PublisherCall(t) \/ Create(t) \/ Lookup(t) \/ HandleStart(t) \/ HandleStop(t)
               \/ CloseCall(t) \/ CloseStep(t)
      PROVE  CoverInv'
  BY <1>2, CoverCalls, CoverCloseCall, CoverCloseNext, CoverStop, CoverCloseClear DEF CloseStep
<1> QED
  BY <1>1, <1>2 DEF Next

\* However close() ends, short of being cut short, it has tried to stop every pool that was
\* cached when it was called and that no other thread's publisher() replaced since, and a pool
\* that failed to stop did not keep it from the next (client.py:294).
THEOREM ClosingCovers == ASSUME SingleCloser PROVE Spec => []CloseCovers
<1>1. Init => TypeInv /\ CoverInv
  BY TypeInit, CoverInit
<1>2. TypeInv /\ CoverInv /\ [Next]_vars => TypeInv' /\ CoverInv'
  BY TypeNext, CoverNext
<1>3. CoverInv => CloseCovers
  BY DEF CoverInv, Covered, CloseCovers, Done
<1> QED
  BY <1>1, <1>2, <1>3, PTL DEF Spec

\* A close() that the iterator cut short forgets nothing: what it did not get to is still
\* cached, for the next close() (client.py:294; the clear at line 300 is not reached).
THEOREM AbortingKeeps == ASSUME SingleCloser PROVE Spec => []AbortKeeps
<1>1. Init => TypeInv /\ CoverInv
  BY TypeInit, CoverInit
<1>2. TypeInv /\ CoverInv /\ [Next]_vars => TypeInv' /\ CoverInv'
  BY TypeNext, CoverNext
<1>3. CoverInv => AbortKeeps
  BY ThreadsAssumption DEF CoverInv, Covered, AbortKeeps, Done
<1> QED
  BY <1>1, <1>2, <1>3, PTL DEF Spec

-----------------------------------------------------------------------------
(* What close() has to stop and still runs is ahead of its iterator, in its *)
(* hand, or excused.  A pool a handle starts meanwhile is one close() has   *)
(* tried, so that it is restarted, or one it still gets to: this is where   *)
(* CoverInv comes in, and with it the single closer.                        *)

Excused(t) == errors[t] \union replaced \union restarted
Pending(t) == IF at[t] \in {"closing", "stopping"} THEN Ahead(t) \union InHand(t) ELSE {}

Stays(t) ==
  Closing(t) \/ result[t] \in {"ok", "failed"} =>
    due[t] \intersect running \subseteq Excused(t) \union Pending(t)

StaysInv == \A t \in Threads : Stays(t)

LEMMA StaysInit == Init => StaysInv
  BY DEF Init, StaysInv, Stays, Closing

\* A pool is forgotten as restarted only when it is stopped, and one that begins to run has
\* not been tried, or is restarted.
Restarting ==
  \A p \in running' : /\ p \in restarted => p \in restarted'
                      /\ p \in running \/ p \notin attempted \/ p \in restarted'

LEMMA StaysKept ==
  ASSUME TypeInv, NEW s \in Threads, Covered(s), Stays(s), Passed, Restarting,
         Len(cache) <= Len(cache'), Len(cache') \in Nat, replaced \subseteq replaced',
         iter'[s] = iter[s], result'[s] = result[s], due'[s] = due[s], errors'[s] = errors[s],
         at'[s] = at[s] \/ (~Closing(s) /\ ~Closing(s)')
  PROVE  Stays(s)'
<1>1. Len(cache) \in Nat /\ iter[s].pos \in Nat
  BY CacheFacts, TypeParts, Bounds DEF TypeInv, LocalsTyped, Iter
<1>2. Pending(s) \subseteq replaced' \union Pending(s)'
  <2>1. ASSUME NEW i \in (iter[s].pos + 1) .. Len(cache), cache[i].pool \notin replaced'
        PROVE  cache[i].pool \in Ahead(s)'
    <3>1. i \in 1 .. Len(cache) /\ i \in (iter'[s].pos + 1) .. Len(cache')
      BY <1>1
    <3>2. cache'[i].pool = cache[i].pool
      BY <2>1, <3>1 DEF Passed
    <3> QED
      BY <3>1, <3>2 DEF Ahead
  <2>2. Ahead(s) \subseteq replaced' \union Ahead(s)'
    BY <2>1 DEF Ahead
  <2>3. at'[s] = at[s] \/ Pending(s) = {}
    BY DEF Pending, Closing
  <2> QED
    BY <2>2, <2>3 DEF Pending, InHand
<1>3. SUFFICES ASSUME Closing(s)' \/ result'[s] \in {"ok", "failed"},
                      NEW p \in due[s], p \in running', p \notin Excused(s)'
               PROVE  p \in Pending(s)'
  BY DEF Stays
<1>4. Closing(s) \/ result[s] \in {"ok", "failed"}
  BY <1>3 DEF Closing
<1>5. p \notin errors[s] /\ p \notin replaced' /\ p \notin replaced /\ p \notin restarted' /\ p \notin restarted
  BY <1>3 DEF Excused, Restarting
<1>6. CASE p \in running
  BY <1>2, <1>4, <1>5, <1>6 DEF Stays, Excused
<1>7. CASE p \notin running
  <2>1. p \notin attempted
    BY <1>3, <1>5, <1>7 DEF Restarting
  <2>2. p \in Pending(s)
    BY <1>4, <1>5, <2>1 DEF Covered, Done, Pending, Closing
  <2> QED
    BY <1>2, <1>5, <2>2
<1> QED
  BY <1>6, <1>7

LEMMA StaysCalls ==
  ASSUME TypeInv, CoverInv, StaysInv, NEW t \in Threads, [Next]_vars,
         PublisherCall(t) \/ Create(t) \/ Lookup(t) \/ HandleStart(t) \/ HandleStop(t)
  PROVE  StaysInv'
<1>1. Passed /\ Len(cache) <= Len(cache')
  BY PassedStored, PassedSame, CacheFacts
  DEF TypeInv, PublisherCall, Lookup, HandleStart, HandleStop, poolVars
<1>2. UNCHANGED <<iter, errors, result, due, attempted>> /\ replaced \subseteq replaced' /\ Restarting
  BY DEF PublisherCall, Create, Lookup, HandleStart, HandleStop, poolVars, closeVars, Restarting
<1>3. \A s \in Threads : at'[s] = at[s] \/ (~Closing(s) /\ ~Closing(s)')
  <2>1. at' = at \/ (~Closing(t) /\ \E l \in {"idle", "create", "lookup"} : at' = [at EXCEPT ![t] = l])
    BY DEF PublisherCall, Create, Lookup, HandleStart, HandleStop, Goto, Idle, Closing
  <2>2. at \in [Threads -> Places]
    BY TypeParts DEF TypeInv, LocalsTyped
  <2> QED
    BY <2>1, <2>2 DEF Closing
<1> QED
  BY <1>1, <1>2, <1>3, StaysKept, NextCache DEF CoverInv, StaysInv

\* The close() of another thread; a closer's clear has no other close() to disturb.
LEMMA StaysOthers ==
  ASSUME SingleCloser, TypeInv, CoverInv, StaysInv, NEW t \in Threads, [Next]_vars,
         CloseCall(t) \/ CloseStep(t)
  PROVE  \A s \in Threads \ {t} : Stays(s)'
<1>1. UNCHANGED replaced /\ Restarting
  BY DEF CloseCall, CloseStep, CloseNext, PoolStopped, PoolFailsToStop, CloseClear, poolVars, Restarting
<1>2. \A s \in Threads \ {t} : /\ at'[s] = at[s] /\ iter'[s] = iter[s] /\ result'[s] = result[s]
                                /\ due'[s] = due[s] /\ errors'[s] = errors[s]
  BY TypeParts
  DEF TypeInv, LocalsTyped, SetsTyped, CountsTyped, CloseCall, CloseStep, CloseNext, PoolStopped, PoolFailsToStop,
      CloseClear, Goto
<1>3. CASE UNCHANGED cache
  <2>1. Passed /\ Len(cache) <= Len(cache')
    BY <1>3, PassedSame, CacheFacts DEF TypeInv
  <2> QED
    BY <1>1, <1>2, <2>1, StaysKept, NextCache DEF CoverInv, StaysInv
<1>4. CASE CloseClear(t)
  <2>1. t \in Closers
    BY <1>4 DEF CloseClear, CoverInv, Covered, Closing
  <2>2. \A s \in Threads \ {t} : s \notin Closers /\ Covered(s)
    BY <2>1 DEF SingleCloser, CoverInv
  <2> QED
    BY <1>2, <2>2 DEF Stays, Covered, Closing
<1> QED
  BY <1>3, <1>4 DEF CloseCall, CloseStep, CloseNext, CacheAfterAbort, PoolStopped, PoolFailsToStop, poolVars

LEMMA StaysClose ==
  ASSUME TypeInv, CoverInv, StaysInv, NEW t \in Threads, CloseCall(t) \/ CloseStep(t)
  PROVE  Stays(t)'
<1>1. /\ at \in [Threads -> Places] /\ result \in [Threads -> Results] /\ iter \in [Threads -> Iter(made)]
      /\ errors \in [Threads -> SUBSET (1 .. made)] /\ due \in [Threads -> SUBSET (1 .. made)]
  BY TypeParts DEF TypeInv, LocalsTyped, CountsTyped, SetsTyped
<1>2. CASE CloseCall(t)
  <2>1. at'[t] = "closing" /\ due'[t] = PoolsOf(cache) /\ cache' = cache /\ iter'[t].pos = 0
    BY <1>1, <1>2 DEF CloseCall, Goto, poolVars
  <2>2. due'[t] = Ahead(t)'
    BY <2>1, CacheFacts DEF PoolsOf, Ahead, TypeInv
  <2> QED
    BY <2>1, <2>2 DEF Stays, Pending
<1>3. CASE CloseNext(t)
  <2>1. UNCHANGED <<running, replaced, restarted, due>> /\ at[t] = "closing"
    BY <1>3 DEF CloseNext
  <2>2. CASE Len(cache) # iter[t].size
    <3>1. at'[t] = "idle" /\ result'[t] = "aborted"
      BY <1>1, <1>3, <2>2 DEF CloseNext, Goto
    <3> QED
      BY <3>1 DEF Stays, Closing
  <2>3. CASE Len(cache) = iter[t].size
    <3>1. UNCHANGED errors
      BY <1>3, <2>3 DEF CloseNext
    <3>2. Pending(t) \subseteq Pending(t)'
      BY <1>3, <2>1, <2>3, AheadNext DEF Pending, InHand
    <3> QED
      BY <2>1, <3>1, <3>2 DEF StaysInv, Stays, Excused, Closing
  <2> QED
    BY <2>2, <2>3
<1>4. CASE PoolStopped(t) \/ PoolFailsToStop(t)
  <2>1. /\ UNCHANGED <<cache, replaced, due, iter>> /\ at[t] = "stopping" /\ at'[t] = "closing"
        /\ running' \subseteq running /\ errors[t] \subseteq errors'[t]
        /\ \/ restarted' = restarted /\ iter[t].pool \in errors'[t]
           \/ restarted' = restarted \ {iter[t].pool} /\ iter[t].pool \notin running'
    BY <1>1, <1>4 DEF PoolStopped, PoolFailsToStop, Goto, AfterFailure, WithError
  <2>2. Pending(t) = Pending(t)' \union {iter[t].pool}
    BY <2>1 DEF Pending, InHand, Ahead
  <2> QED
    BY <2>1, <2>2 DEF StaysInv, Stays, Excused, Closing
<1>5. CASE CloseClear(t)
  <2>1. UNCHANGED <<running, replaced, restarted, due, errors>> /\ at[t] = "clearing" /\ at'[t] = "idle"
    BY <1>1, <1>5 DEF CloseClear, Goto
  <2> QED
    BY <2>1 DEF StaysInv, Stays, Excused, Pending, Closing
<1> QED
  BY <1>2, <1>3, <1>4, <1>5 DEF CloseStep

LEMMA StaysNext == ASSUME SingleCloser, TypeInv, CoverInv, StaysInv, [Next]_vars PROVE StaysInv'
<1>1. CASE UNCHANGED vars
  BY <1>1 DEF vars, poolVars, closeVars, StaysInv, Stays, Closing, Excused, Pending, Ahead, InHand
<1>2. ASSUME NEW t \in Threads,
             PublisherCall(t) \/ Create(t) \/ Lookup(t) \/ HandleStart(t) \/ HandleStop(t)
               \/ CloseCall(t) \/ CloseStep(t)
      PROVE  StaysInv'
  BY <1>2, StaysCalls, StaysOthers, StaysClose DEF StaysInv
<1> QED
  BY <1>1, <1>2 DEF Next

\* Once close() has returned, what it had to stop is stopped and stays so, but for the pools
\* its error reports (client.py:299), those that lost their entry to another publisher() call
\* (client.py:178), and those a handle given out before started again (client.py:198).
THEOREM ClosedIsStopped == ASSUME SingleCloser PROVE Spec => []ClosedStays
<1>1. Init => TypeInv /\ CoverInv /\ StaysInv
  BY TypeInit, CoverInit, StaysInit
<1>2. TypeInv /\ CoverInv /\ StaysInv /\ [Next]_vars => TypeInv' /\ CoverInv' /\ StaysInv'
  BY TypeNext, CoverNext, StaysNext
<1>3. CoverInv /\ StaysInv => ClosedStays
  <2> SUFFICES ASSUME CoverInv, StaysInv, NEW t \in Threads, result[t] \in {"ok", "failed"}
               PROVE  due[t] \intersect running \subseteq errors[t] \union replaced \union restarted
    BY DEF ClosedStays
  <2>1. Pending(t) = {}
    BY DEF CoverInv, Covered, Closing, Pending
  <2> QED
    BY <2>1 DEF StaysInv, Stays, Excused
<1> QED
  BY <1>1, <1>2, <1>3, PTL DEF Spec

=============================================================================
