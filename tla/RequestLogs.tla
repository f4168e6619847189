----------------------------- MODULE RequestLogs ------------------------------
(***************************************************************************)
(* zrequests: the log of requests, one entry for all requests of one LogID.*)
(* Add reads the entry, and later sets it; the repeater of every hour reads*)
(* an entry, and later removes it.                                         *)
(***************************************************************************)
EXTENDS Integers, Sequences, FiniteSets

CONSTANT Loggers  \* callers of Add

VARIABLES
    entry,    \* the entry, NoEntry if there is none
    adding,   \* what each caller has read, with the duration it was given
    deleting, \* the entry the repeater will remove
    durations, \* of the calls since the entry was made, of the last call alone when mingled
    mingled   \* an entry was set or removed that was not what had been read

requestVars == <<entry, adding, deleting, durations, mingled>>

Durations == {1, 2}
MaxLogged == 2  \* calls of Add (a bound)

\* An entry is one day or seven days old: its age is 0 before the first, 2 after the second.
NoEntry == [count |-> 0, min |-> 0, max |-> 0, age |-> 0]
NotAdding == [duration |-> 0, read |-> NoEntry]

RequestInit ==
    /\ entry = NoEntry /\ adding = [c \in Loggers |-> NotAdding] /\ deleting = NoEntry
    /\ durations = <<>> /\ mingled = FALSE

\* Time alone makes no other entry of it.
IsAsRead(read) == [entry EXCEPT !.age = 0] = [read EXCEPT !.age = 0]

ReadEntry(c) ==
    /\ adding[c] = NotAdding /\ entry.count < MaxLogged
    /\ \E duration \in Durations : adding' = [adding EXCEPT ![c] = [duration |-> duration, read |-> entry]]
    /\ UNCHANGED <<entry, deleting, durations, mingled>>

\* The first duration is the smallest; every one may be the greatest.
WithCall(read, duration) ==
    [count |-> read.count + 1,
     min |-> IF read = NoEntry \/ read.min > duration THEN duration ELSE read.min,
     max |-> IF read.max < duration THEN duration ELSE read.max,
     age |-> 0]

SetEntry(c) ==
    LET read == adding[c].read IN
    /\ adding[c] # NotAdding
    /\ entry' = WithCall(read, adding[c].duration)
    /\ mingled' = (mingled \/ ~IsAsRead(read))
    /\ durations' = Append(IF entry = NoEntry \/ mingled' THEN <<>> ELSE durations, adding[c].duration)
    /\ adding' = [adding EXCEPT ![c] = NotAdding]
    /\ UNCHANGED deleting

IsOld(e) == (e.count = 1 /\ e.age > 0) \/ (e.count > 1 /\ e.age > 1)

FindOld ==
    /\ deleting = NoEntry /\ IsOld(entry)
    /\ deleting' = entry
    /\ UNCHANGED <<entry, adding, durations, mingled>>

RemoveOld ==
    /\ deleting # NoEntry
    /\ entry' = NoEntry /\ durations' = <<>>
    /\ mingled' = (mingled \/ ~IsAsRead(deleting))
    /\ deleting' = NoEntry
    /\ UNCHANGED adding

DaysPass ==
    /\ entry # NoEntry /\ entry.age < 2
    /\ entry' = [entry EXCEPT !.age = @ + 1]
    /\ UNCHANGED <<adding, deleting, durations, mingled>>

RequestNext == (\E c \in Loggers : ReadEntry(c) \/ SetEntry(c)) \/ FindOld \/ RemoveOld \/ DaysPass
-------------------------------------------------------------------------------
(* zrequests_server.go:91, Add: calls that do not meet each other or the repeater   *)
(* are all counted, with the shortest and the longest of them, since the entry *)
(* was last removed.                                                           *)
CallsAreCounted ==
    ~mingled =>
        /\ entry.count = Len(durations)
        /\ \A i \in DOMAIN durations : durations[i] \in entry.min..entry.max
        /\ entry # NoEntry => \E i, j \in DOMAIN durations : durations[i] = entry.min /\ durations[j] = entry.max

(* However they meet, the last duration that was given to Add is within the    *)
(* entry's, which has the durations of calls.                                   *)
EntryIsOfCalls ==
    entry # NoEntry =>
        /\ entry.count > 0 /\ {entry.min, entry.max} \subseteq Durations
        /\ \A i \in DOMAIN durations : i = Len(durations) => durations[i] \in entry.min..entry.max

RequestsAreKept == CallsAreCounted /\ EntryIsOfCalls
===============================================================================
