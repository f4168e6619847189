------------------------------ MODULE KeyValues -------------------------------
(***************************************************************************)
(* zkeyvalue and zkeyvalrpc.  First a Store of which users have one each,  *)
(* with their own KeyPostfix, over one raw store.  Then one option of a    *)
(* server: goroutines of the server get and set it, clients send it, and   *)
(* the server's file is read again after a crash.                          *)
(***************************************************************************)
EXTENDS Naturals, Sequences

CONSTANTS
    StoreUsers,    \* KeyPostfix of each user's Store
    OptionUsers,   \* goroutines of the server, those that handle a client's call included
    KeyedValues,   \* values that are set
    Absent         \* no value

ASSUME KeyValueAssumption == Absent \notin KeyedValues /\ KeyedValues # {}

VARIABLES
    raw,        \* the raw store: the item of each raw key
    ownItems,   \* what each user has set last
    loadedAll   \* what each user's last GetAllForPrefix gave

storeVars == <<raw, ownItems, loadedAll>>

\* A raw key is the key with the postfixes that were added to it.
RawKeys == UNION { { <<>>, <<u>>, <<u, u>> } : u \in StoreUsers }

StoreInit ==
    /\ raw = [key \in RawKeys |-> Absent]
    /\ ownItems = [u \in StoreUsers |-> Absent]
    /\ loadedAll = [u \in StoreUsers |-> {}]

postfixKey(u, key) == Append(key, u)

GetItem(u) == raw[postfixKey(u, <<>>)]

\* SetItem, SetObject, SetString, SetInt64 and the other setters, but SetTime
SetKey(u, v) ==
    /\ raw' = [raw EXCEPT ![postfixKey(u, <<>>)] = v]
    /\ ownItems' = [ownItems EXCEPT ![u] = v]
    /\ UNCHANGED loadedAll

\* postfixes the key, and SetString does so again: GetTime does not find it.
SetTime(u, v) ==
    /\ raw' = [raw EXCEPT ![postfixKey(u, postfixKey(u, <<>>))] = v]
    /\ UNCHANGED <<ownItems, loadedAll>>

\* RemoveForKey does not postfix.
RemoveForKey(u) ==
    /\ raw' = [raw EXCEPT ![<<>>] = Absent]
    /\ UNCHANGED <<ownItems, loadedAll>>

\* GetItemAsAny postfixes a raw key once more; the prefix is not looked at.
GetAllForPrefix(u) ==
    /\ loadedAll' = [loadedAll EXCEPT ![u] =
            { key \in RawKeys : raw[key] # Absent /\ postfixKey(u, key) \in RawKeys
                                                  /\ raw[postfixKey(u, key)] # Absent }]
    /\ UNCHANGED <<raw, ownItems>>

StoreNext ==
    \E u \in StoreUsers :
        \/ \E v \in KeyedValues : SetKey(u, v) \/ SetTime(u, v)
        \/ RemoveForKey(u) \/ GetAllForPrefix(u)

------------------------------------------------------------------------------
(* An option of the server *)

VARIABLES
    dict,       \* the option's item in rpcStore's dictFile
    storeFile,  \* and in its file
    option,     \* value and gotten of the Option
    working,    \* what each goroutine is doing
    client,     \* the value of the client's option
    requests,   \* calls of SetItem on their way, numbered in the order the client sent them
    sent,       \* how many it has sent
    together,   \* two goroutines were at work at the same time
    unsaved     \* a Save has failed

optionVars == <<dict, storeFile, option, working, client, requests, sent, together, unsaved>>

MaxSent == 2  \* calls of the client (a bound)
DefaultValue == CHOOSE v \in KeyedValues : TRUE
Work(at, v, remote) == [at |-> at, value |-> v, remote |-> remote]
AtRest == Work("nothing", Absent, FALSE)
Option(v, gotten) == [value |-> v, gotten |-> gotten]

OptionInit ==
    /\ dict = Absent /\ storeFile = Absent
    /\ option = Option(DefaultValue, FALSE)
    /\ working = [p \in OptionUsers |-> AtRest]
    /\ client = DefaultValue /\ requests = {} /\ sent = 0
    /\ together = FALSE /\ unsaved = FALSE

IsAt(p, at) == working[p].at = at
Goes(p, at) == working' = [working EXCEPT ![p].at = at]
EndsWork(p) == working' = [working EXCEPT ![p] = AtRest]
Begins(p, work) ==
    /\ working' = [working EXCEPT ![p] = work]
    /\ together' = (together \/ \E q \in OptionUsers \ {p} : working[q] # AtRest)

\* Get, when it was not gotten yet: reads the store, then sets value and gotten.
BeginGetOption(p) ==
    /\ working[p] = AtRest /\ ~option.gotten
    /\ Begins(p, Work("gets", dict, FALSE))
    /\ UNCHANGED <<dict, storeFile, option, client, requests, sent, unsaved>>

EndGetOption(p) ==
    /\ IsAt(p, "gets")
    /\ option' = Option(IF working[p].value = Absent THEN option.value ELSE working[p].value, TRUE)
    /\ EndsWork(p)
    /\ UNCHANGED <<dict, storeFile, client, requests, sent, together, unsaved>>

\* Set by the server's own code
CallSet(p, v) ==
    /\ working[p] = AtRest
    /\ Begins(p, Work("compares", v, FALSE))
    /\ UNCHANGED <<dict, storeFile, option, client, requests, sent, unsaved>>

\* Set returns if the value is the same, gotten or not.
Stores(p) == option.value # working[p].value

SetOption(p) ==
    /\ IsAt(p, "compares")
    /\ option' = [option EXCEPT !.value = working[p].value]
    /\ IF Stores(p) THEN Goes(p, "stores")
       ELSE IF working[p].remote THEN Goes(p, "savesLast") ELSE EndsWork(p)
    /\ UNCHANGED <<dict, storeFile, client, requests, sent, together, unsaved>>

\* RawSetItem, of KeyValueRPCCalls.SetItem or of Set
RawSetItem(p) ==
    /\ working[p].at \in {"storesItem", "stores"}
    /\ dict' = working[p].value
    /\ Goes(p, IF IsAt(p, "stores") THEN "saves" ELSE "savesItem")
    /\ UNCHANGED <<storeFile, option, client, requests, sent, together, unsaved>>

\* The handlers of a changed option are called after its Save; all they do is SetResourceUpdated.
AfterSave(p) ==
    CASE IsAt(p, "savesItem") -> Goes(p, "compares")
      [] IsAt(p, "saves") /\ working[p].remote -> Goes(p, "savesLast")
      [] OTHER -> EndsWork(p)

\* Mutant: the file is not written.
SavedNone == storeFile

Saved == dict

\* Only the caller of SetItem is told of an error, and of the last one.
Save(p, fails) ==
    /\ working[p].at \in {"savesItem", "saves", "savesLast"}
    /\ storeFile' = IF fails THEN storeFile ELSE Saved
    /\ unsaved' = (fails \/ (unsaved /\ storeFile' # dict))
    /\ AfterSave(p)
    /\ UNCHANGED <<dict, option, client, requests, sent, together>>

\* Set of the client's option: RawSetItem sends it from a goroutine, and stores nothing here.
ClientSets(v) ==
    /\ client # v /\ sent < MaxSent
    /\ client' = v /\ sent' = sent + 1
    /\ requests' = requests \cup {[number |-> sent', value |-> v]}
    /\ UNCHANGED <<dict, storeFile, option, working, together, unsaved>>

\* KeyValueRPCCalls.SetItem: of two calls on their way either may come first.
SetItem(p) ==
    /\ working[p] = AtRest
    /\ \E r \in requests :
        /\ requests' = requests \ {r}
        /\ working' = [working EXCEPT ![p] = Work("storesItem", r.value, TRUE)]
        /\ together' = \/ together \/ requests' # {}
                       \/ \E q \in OptionUsers \ {p} : working[q] # AtRest
    /\ UNCHANGED <<dict, storeFile, option, client, sent, unsaved>>

\* The client ignores the error of a call, but for the log.
CallIsLost ==
    /\ \E r \in requests : requests' = requests \ {r}
    /\ together' = TRUE
    /\ UNCHANGED <<dict, storeFile, option, working, client, sent, unsaved>>

\* The server ends and is started again: load, and Init calls the handler of the key if the
\* option was made before.
RestartServer(hasHandler) ==
    /\ dict' = storeFile
    /\ option' = Option(IF hasHandler /\ storeFile # Absent THEN storeFile ELSE DefaultValue, FALSE)
    /\ working' = [p \in OptionUsers |-> AtRest]
    /\ together' = (requests # {} \/ \E p \in OptionUsers : working[p] # AtRest) /\ unsaved' = FALSE
    /\ UNCHANGED <<storeFile, client, requests, sent>>

OptionNext ==
    \/ \E p \in OptionUsers :
        \/ BeginGetOption(p) \/ EndGetOption(p) \/ SetOption(p) \/ RawSetItem(p) \/ SetItem(p)
        \/ \E v \in KeyedValues : CallSet(p, v)
        \/ \E fails \in BOOLEAN : Save(p, fails)
    \/ \E v \in KeyedValues : ClientSets(v)
    \/ CallIsLost \/ \E hasHandler \in BOOLEAN : RestartServer(hasHandler)

------------------------------------------------------------------------------
(* Properties *)

\* KeyValueStore.go:50, "this can be a user id": a user gets what that user has set, whatever
\* others set, remove or list.
UsersAreApart == \A u \in StoreUsers : GetItem(u) = ownItems[u]

AllAtRest == \A p \in OptionUsers : working[p] = AtRest

\* Once it was gotten, and while goroutines come one at a time, an option has the value of
\* the store.
OptionIsStored ==
    AllAtRest /\ ~together /\ option.gotten /\ dict # Absent => option.value = dict

\* However the goroutines come, when all of them are done the file has what the store has,
\* unless the last Save failed: a value whose Set has returned is not lost in a crash.
StoreIsSaved == AllAtRest /\ ~unsaved => storeFile = dict

KeyValuesAreKept == UsersAreApart /\ OptionIsStored /\ StoreIsSaved
==============================================================================
