------------------------------- MODULE Caches --------------------------------
(***************************************************************************)
(* zcache: ExpiringMap, of which each access to the map is one step of a   *)
(* goroutine and the sweep and the storage are goroutines of their own,    *)
(* and Cache, whose operations hold its lock.  Time is an age of each      *)
(* item; a value is the number of the Set or Put that made it.             *)
(***************************************************************************)
EXTENDS Integers

CONSTANTS
    Keys, MapUsers, \* goroutines that use the map
    SecsToLive,     \* how long an item lives in an ExpiringMap
    CacheExpiry,    \* and in a Cache, where it may also have none
    MaxValues       \* number of values that are set (a bound)

ASSUME CacheAssumption == SecsToLive \in Nat /\ CacheExpiry \in Nat \ {0} /\ MaxValues \in Nat

NoItem == [value |-> 0, age |-> 0]
Forever == -1
OldAge == SecsToLive + 1       \* an age in the map counts no further (a bound)
OldItem == CacheExpiry + 1     \* nor one in the cache (a bound)

VARIABLES
    elements,   \* lockedMap
    changed,    \* Changed
    storage,    \* the values in the file at storagePath
    using,      \* what each goroutine does with the map
    sweeping,   \* what the sweep is doing, and of which element
    flushing,   \* what FlushToStorage is doing, and with which values
    values,     \* the last value that was set
    kept,       \* what the map would be if every operation were one step
    disturbed,  \* keys whose element was written between another goroutine's two steps
    flagLost    \* Changed was cleared for a change that is not stored

mapVars == <<elements, changed, storage, using, sweeping, flushing, values, kept, disturbed,
             flagLost>>

Item(value) == [value |-> value, age |-> 0]
Unused == [does |-> "nothing"]
IsExpired(e) == e.age # Forever /\ e.age > SecsToLive
Has(map, k) == map[k] # NoItem
ValuesOf(map) == [k \in Keys |-> map[k].value]

MapInit ==
    /\ elements = [k \in Keys |-> NoItem] /\ kept = elements
    /\ changed = FALSE /\ flagLost = FALSE
    /\ storage = [k \in Keys |-> NoItem.value]
    /\ using = [u \in MapUsers |-> Unused]
    /\ sweeping = Unused /\ flushing = Unused
    /\ values = 0 /\ disturbed = {}

\* Keys that another goroutine, or the sweep, has read and will write
InTheMiddle(k) ==
    \/ \E u \in MapUsers : using[u].does = "touch" /\ using[u].key = k
    \/ sweeping.does = "remove" /\ sweeping.key = k
Writes(k) == disturbed' = IF InTheMiddle(k) THEN disturbed \cup {k} ELSE disturbed

------------------------------------------------------------------------------
(* ExpiringMap *)

\* Changed is set before the map, so either may be seen first.
BeginSet(u, k, age) ==
    /\ using[u].does = "nothing" /\ values < MaxValues
    /\ changed' = TRUE /\ values' = values + 1
    /\ using' = [using EXCEPT ![u] =
                    [does |-> "set", key |-> k, element |-> [value |-> values', age |-> age]]]
    /\ UNCHANGED <<elements, storage, sweeping, flushing, kept, disturbed, flagLost>>

BeginRemove(u, k) ==
    /\ using[u].does = "nothing"
    /\ changed' = TRUE
    /\ using' = [using EXCEPT ![u] = [does |-> "set", key |-> k, element |-> NoItem]]
    /\ UNCHANGED <<elements, storage, sweeping, flushing, values, kept, disturbed, flagLost>>

\* Set, SetForever and Remove
EndSet(u) ==
    /\ using[u].does = "set"
    /\ LET k == using[u].key IN
       /\ elements' = [elements EXCEPT ![k] = using[u].element]
       /\ kept' = [kept EXCEPT ![k] = using[u].element]
       /\ Writes(k)
    /\ using' = [using EXCEPT ![u] = Unused]
    /\ flagLost' = (flagLost \/ ~changed)
    /\ UNCHANGED <<changed, storage, sweeping, flushing, values>>

\* Replaces the sync.Map itself, which is for when no one else is at work.
RemoveAll ==
    /\ \A u \in MapUsers : using[u].does = "nothing"
    /\ elements # [k \in Keys |-> NoItem]
    /\ changed' = TRUE
    /\ elements' = [k \in Keys |-> NoItem] /\ kept' = elements'
    /\ disturbed' = disturbed \cup { k \in Keys : InTheMiddle(k) }
    /\ UNCHANGED <<storage, using, sweeping, flushing, values, flagLost>>

\* get: an element that has expired is removed; one that has not is to be touched.
\* AddWithSetFunc is this followed by Set.
Get(u, k) ==
    /\ using[u].does = "nothing" /\ Has(elements, k)
    /\ IF IsExpired(elements[k])
       THEN using' = [using EXCEPT ![u] = [does |-> "touch", key |-> k, element |-> NoItem]]
       ELSE using' = [using EXCEPT ![u] =
                         [does |-> "touch", key |-> k, element |-> Item(elements[k].value)]]
    /\ UNCHANGED <<elements, changed, storage, sweeping, flushing, values, kept, disturbed,
                   flagLost>>

\* Neither the removal nor the new time sets Changed.
EndGet(u) ==
    /\ using[u].does = "touch"
    /\ LET k == using[u].key IN
       /\ elements' = [elements EXCEPT ![k] = using[u].element]
       /\ kept' = [kept EXCEPT ![k] = IF k \in disturbed THEN @ ELSE using[u].element]
       /\ disturbed' = IF \/ sweeping.does = "remove" /\ sweeping.key = k
                          \/ \E o \in MapUsers \ {u} : using[o].does = "touch" /\ using[o].key = k
                       THEN disturbed \cup {k} ELSE disturbed
    /\ using' = [using EXCEPT ![u] = Unused]
    /\ UNCHANGED <<changed, storage, sweeping, flushing, values, flagLost>>

\* The sweep, every third of SecsToLive, if something has changed
BeginSweep ==
    /\ sweeping.does = "nothing" /\ changed
    /\ sweeping' = [does |-> "sweep", left |-> Keys]
    /\ UNCHANGED <<elements, changed, storage, using, flushing, values, kept, disturbed, flagLost>>

\* Mutant: what has expired is left.
IsSweptNever(e) == e # NoItem /\ e.age = Forever

IsSwept(e) == e # NoItem /\ IsExpired(e)

SweepKey(k) ==
    /\ sweeping.does = "sweep" /\ k \in sweeping.left
    /\ sweeping' = [does |-> IF IsSwept(elements[k]) THEN "remove" ELSE "sweep",
                    key |-> k, left |-> sweeping.left \ {k}]
    /\ UNCHANGED <<elements, changed, storage, using, flushing, values, kept, disturbed, flagLost>>

SweepRemoves ==
    /\ sweeping.does = "remove"
    /\ LET k == sweeping.key IN
       /\ elements' = [elements EXCEPT ![k] = NoItem]
       /\ kept' = [kept EXCEPT ![k] = IF IsExpired(@) THEN NoItem ELSE @]
       /\ disturbed' = IF \E u \in MapUsers : using[u].does = "touch" /\ using[u].key = k
                       THEN disturbed \cup {k} ELSE disturbed
    /\ sweeping' = [sweeping EXCEPT !.does = "sweep"]
    /\ UNCHANGED <<changed, storage, using, flushing, values, flagLost>>

\* Changed is cleared although elements that live on are left, and although it is also the
\* flag of FlushToStorage.
EndSweep ==
    /\ sweeping.does = "sweep" /\ sweeping.left = {}
    /\ changed' = FALSE
    /\ flagLost' = (flagLost \/ storage # ValuesOf(elements))
    /\ sweeping' = Unused
    /\ UNCHANGED <<elements, storage, using, flushing, values, kept, disturbed>>

\* FlushToStorage, every 5 seconds or on its own
BeginFlush ==
    /\ flushing.does = "nothing" /\ changed
    /\ flushing' = [does |-> "write", values |-> ValuesOf(elements)]
    /\ UNCHANGED <<elements, changed, storage, using, sweeping, values, kept, disturbed, flagLost>>

\* The file cannot be written: Changed stays.
FlushFails ==
    /\ flushing.does = "write"
    /\ flushing' = Unused
    /\ UNCHANGED <<elements, changed, storage, using, sweeping, values, kept, disturbed, flagLost>>

FlushWrites ==
    /\ flushing.does = "write"
    /\ storage' = flushing.values
    /\ flushing' = [does |-> "written"]
    /\ UNCHANGED <<elements, changed, using, sweeping, values, kept, disturbed, flagLost>>

EndFlush ==
    /\ flushing.does = "written"
    /\ changed' = FALSE
    /\ flagLost' = (flagLost \/ storage # ValuesOf(elements))
    /\ flushing' = Unused
    /\ UNCHANGED <<elements, storage, using, sweeping, values, kept, disturbed>>

\* The process ends, and SetStorage of the next one sets what is in the file: with the time
\* of now, also what was set for ever.
RestartMap ==
    /\ elements' = [k \in Keys |-> IF storage[k] = NoItem.value THEN NoItem ELSE Item(storage[k])]
    /\ kept' = elements' /\ disturbed' = {}
    /\ changed' = (elements' # [k \in Keys |-> NoItem])
    /\ using' = [u \in MapUsers |-> Unused] /\ sweeping' = Unused /\ flushing' = Unused
    /\ flagLost' = FALSE
    /\ UNCHANGED <<storage, values>>

Aged(e) == IF e = NoItem \/ e.age \in {Forever, OldAge} THEN e ELSE [e EXCEPT !.age = @ + 1]

\* Time passes between calls of the map, not between the two steps of one.
MapTick ==
    /\ \A u \in MapUsers : using[u].does = "nothing"
    /\ elements' = [k \in Keys |-> Aged(elements[k])]
    /\ kept' = [k \in Keys |-> Aged(kept[k])]
    /\ elements' # elements
    /\ UNCHANGED <<changed, storage, using, sweeping, flushing, values, disturbed, flagLost>>

MapNext ==
    \/ \E u \in MapUsers :
        \/ \E k \in Keys : \/ \E age \in {0, Forever} : BeginSet(u, k, age)
                           \/ BeginRemove(u, k) \/ Get(u, k)
        \/ EndSet(u) \/ EndGet(u)
    \/ RemoveAll
    \/ BeginSweep \/ SweepRemoves \/ EndSweep \/ \E k \in Keys : SweepKey(k)
    \/ BeginFlush \/ FlushFails \/ FlushWrites \/ EndFlush
    \/ RestartMap \/ MapTick

------------------------------------------------------------------------------
(* Cache *)

VARIABLES
    fixedExpiry, \* fixedExpiry: "unmade" until NewWithExpiry sets it
    items,       \* items: the value, its age and its expiry
    hasExpiries, \* hasExpiries
    puts,        \* the last value that was put
    released,    \* values of which Release was called
    lastGot      \* what the last Get found

cacheVars == <<fixedExpiry, items, hasExpiries, puts, released, lastGot>>

NoCached == [value |-> 0, age |-> 0, expiry |-> 0]
IsOver(i) == i # NoCached /\ i.age > i.expiry
IsDue(i) == i # NoCached /\ i.age >= i.expiry
ReleasedOf(due) == { items[k].value : k \in due }
Without(due) == [k \in Keys |-> IF k \in due THEN NoCached ELSE items[k]]

CacheInit ==
    /\ items = [k \in Keys |-> NoCached]
    /\ fixedExpiry = "unmade"
    /\ hasExpiries = FALSE /\ puts = 0 /\ released = {} /\ lastGot = NoCached

NewWithExpiry(fixed) ==
    /\ fixedExpiry = "unmade" /\ fixedExpiry' = IF fixed THEN "yes" ELSE "no"
    /\ UNCHANGED <<items, hasExpiries, puts, released, lastGot>>

IsFixed == fixedExpiry = "yes"

\* PutWithExpiry, and Put with the default; the value that was there is not released.
Put(k, expiry) ==
    /\ fixedExpiry # "unmade" /\ puts < MaxValues /\ (expiry # 0 \/ ~IsFixed)
    /\ puts' = puts + 1
    /\ hasExpiries' = (hasExpiries \/ expiry # 0)
    /\ items' = [items EXCEPT ![k] = [value |-> puts', age |-> 0, expiry |-> expiry]]
    /\ UNCHANGED <<fixedExpiry, released, lastGot>>

IsGone(i) == i = NoCached \/ (IsFixed /\ IsDue(i))

\* With a fixed expiry what is due is deleted; without, it lives on from now.
GetCached(k) ==
    /\ items[k] # NoCached
    /\ IF IsGone(items[k])
       THEN items' = Without({k}) /\ lastGot' = NoCached
       ELSE /\ lastGot' = items[k]
            /\ items' = IF IsFixed THEN items ELSE [items EXCEPT ![k].age = 0]
    /\ UNCHANGED <<fixedExpiry, hasExpiries, puts, released>>

\* The only ones that call Release: Remove, and purge, which also takes what has no expiry.
RemoveCached(k) ==
    /\ items[k] # NoCached
    /\ released' = released \cup ReleasedOf({k}) /\ items' = Without({k})
    /\ UNCHANGED <<fixedExpiry, hasExpiries, puts, lastGot>>

Purge ==
    /\ hasExpiries /\ hasExpiries' = FALSE
    /\ LET due == { k \in Keys : IsDue(items[k]) }
       IN released' = released \cup ReleasedOf(due) /\ items' = Without(due)
    /\ UNCHANGED <<fixedExpiry, puts, lastGot>>

\* Count deletes what is over.
CountItems ==
    /\ \E k \in Keys : IsOver(items[k])
    /\ items' = Without({ k \in Keys : IsOver(items[k]) })
    /\ UNCHANGED <<fixedExpiry, hasExpiries, puts, released, lastGot>>

CacheTick ==
    /\ items' = [k \in Keys |-> IF items[k] = NoCached \/ items[k].age = OldItem THEN items[k]
                                ELSE [items[k] EXCEPT !.age = @ + 1]]
    /\ items' # items
    /\ UNCHANGED <<fixedExpiry, hasExpiries, puts, released, lastGot>>

CacheNext ==
    \/ \E k \in Keys : \/ \E expiry \in {0, CacheExpiry} : Put(k, expiry)
                       \/ GetCached(k) \/ RemoveCached(k)
    \/ \E fixed \in BOOLEAN : NewWithExpiry(fixed)
    \/ Purge \/ CountItems \/ CacheTick

------------------------------------------------------------------------------
(* Properties *)

MapTypeOK ==
    /\ \A k \in Keys : elements[k].value \in 0..MaxValues
                       /\ elements[k].age \in {Forever} \cup 0..OldAge
    /\ changed \in BOOLEAN /\ values \in 0..MaxValues
    /\ storage \in [Keys -> 0..MaxValues]
    /\ disturbed \subseteq Keys

\* The map is what its operations make it, one after the other, for every key that no two
\* of them were in the middle of at once; the sweep takes nothing that lives.
UndisturbedIsKept == \A k \in Keys \ disturbed : elements[k] = kept[k]

\* expiringMap.go:5, "periodically stores itself": when nothing is left to flush, the file has
\* every element of the map with its value, unless the one flag of two loops was lost.
UnchangedIsStored ==
    ~changed /\ ~flagLost /\ flushing.does = "nothing" /\ (\A u \in MapUsers : using[u].does = "nothing") =>
        \A k \in Keys \ disturbed : Has(elements, k) => storage[k] = elements[k].value

MapIsKept == UndisturbedIsKept /\ UnchangedIsStored

\* zcache.go:27, "Get returns false if expired, even if not flushed out yet": with a fixed
\* expiry nothing is got that is due; and what was released is never got.
CacheIsKept ==
    /\ IsFixed => ~IsDue(lastGot)
    /\ \A k \in Keys : items[k].value \notin released

==============================================================================
