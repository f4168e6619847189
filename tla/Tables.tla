-------------------------------- MODULE Tables --------------------------------
(***************************************************************************)
(* zsql's server side: InsertRows, UpdateRows and UpsertRow each make a    *)
(* statement for each row they are given, in no transaction: statements of *)
(* other calls come between them, and after an error the rows before it    *)
(* stay.  A row has an ID and a name that no other row has.                *)
(***************************************************************************)
EXTENDS Naturals, Sequences, FiniteSets

CONSTANTS
    TableUsers,  \* callers of the server
    RowNames

VARIABLES
    rows,     \* the name of each ID in the table
    writer,   \* the call that wrote each ID last
    nextRow,  \* the ID the base gives next
    calls,    \* every call: its rows, how many statements are done, the IDs it returns
    calling   \* the call each user is in

tableVars == <<rows, writer, nextRow, calls, calling>>

MaxRowID == 3  \* rows made (a bound)
MaxCalls == 2  \* calls (a bound)
NoCall == 0

Given(id, name) == [id |-> id, name |-> name]
Call(kind, given) == [kind |-> kind, given |-> given, done |-> 0, ids |-> <<>>, end |-> "none"]

TablesInit ==
    /\ rows = <<>> /\ writer = <<>> /\ nextRow = 1 /\ calls = <<>>
    /\ calling = [u \in TableUsers |-> NoCall]

CallOf(u) == calls[calling[u]]
IsIn(u, kind) == calling[u] # NoCall /\ CallOf(u).kind = kind
RowOf(u) == CallOf(u).given[CallOf(u).done + 1]
Exists(id) == id \in DOMAIN rows
IsTaken(name, id) == \E other \in DOMAIN rows \ {id} : rows[other] = name

Begin(u, kind, given) ==
    /\ calling[u] = NoCall /\ Len(calls) < MaxCalls
    /\ calls' = Append(calls, Call(kind, given))
    /\ calling' = [calling EXCEPT ![u] = Len(calls) + 1]
    /\ UNCHANGED <<rows, writer, nextRow>>

\* The next statement is done; after the last the call returns.
Did(u, ids) ==
    LET call == CallOf(u)
        last == call.done + 1 = Len(call.given)
    IN /\ calls' = [calls EXCEPT ![calling[u]] =
                       [call EXCEPT !.done = call.done + 1, !.ids = call.ids \o ids,
                                    !.end = IF last THEN "ok" ELSE call.end]]
       /\ calling' = IF last THEN [calling EXCEPT ![u] = NoCall] ELSE calling

Fails(u) ==
    /\ calls' = [calls EXCEPT ![calling[u]].end = "error"]
    /\ calling' = [calling EXCEPT ![u] = NoCall]

WritesRow(u, id) ==
    /\ rows' = [i \in DOMAIN rows \union {id} |-> IF i = id THEN RowOf(u).name ELSE rows[i]]
    /\ writer' = [i \in DOMAIN writer \union {id} |-> IF i = id THEN calling[u] ELSE writer[i]]

\* InsertRows: each row's ID is the one the base gave it, if that can be read back.
InsertRow(u) ==
    /\ IsIn(u, "insert") /\ ~IsTaken(RowOf(u).name, 0) /\ nextRow <= MaxRowID
    /\ WritesRow(u, nextRow) /\ nextRow' = nextRow + 1
    /\ Did(u, <<nextRow>>) \/ Fails(u)

(* UpdateRows: every statement's WHERE has the ID of the first row given;  *)
(* a row that is not there is no error.                                    *)
UpdateRow(u) ==
    /\ IsIn(u, "update")
    /\ LET id == CallOf(u).given[1].id IN
       /\ IF Exists(id) THEN ~IsTaken(RowOf(u).name, id) /\ WritesRow(u, id) ELSE UNCHANGED <<rows, writer>>
    /\ Did(u, <<>>) /\ UNCHANGED nextRow

\* UpsertRow: a new row, or the one that has the name already.
UpsertRow(u) ==
    /\ IsIn(u, "upsert")
    /\ \E id \in 1..MaxRowID :
          /\ IF IsTaken(RowOf(u).name, 0) THEN Exists(id) /\ rows[id] = RowOf(u).name /\ UNCHANGED nextRow
             ELSE id = nextRow /\ nextRow' = nextRow + 1
          /\ WritesRow(u, id) /\ Did(u, <<id>>)

\* A statement is refused: the name is another row's, or the base does not answer.
StatementFails(u) ==
    /\ calling[u] # NoCall /\ Fails(u)
    /\ UNCHANGED <<rows, writer, nextRow>>

TablesNext ==
    \E u \in TableUsers :
        \/ \E n \in RowNames : Begin(u, "upsert", <<Given(0, n)>>)
        \/ \E n, m \in RowNames : n # m /\ Begin(u, "insert", <<Given(0, n), Given(0, m)>>)
        \/ \E i, j \in 1..2, n, m \in RowNames :
              i # j /\ n # m /\ Begin(u, "update", <<Given(i, n), Given(j, m)>>)
        \/ InsertRow(u) \/ UpdateRow(u) \/ UpsertRow(u) \/ StatementFails(u)
-----------------------------------------------------------------------------
CallRows(c) == {id \in DOMAIN rows : writer[id] = c}

(* The IDs that InsertRows returns with its error are rows it made, in the *)
(* order they were given, and it made at most one it does not return; the  *)
(* IDs of two calls never meet.                                            *)
FailedInsertTells ==
    \A c \in DOMAIN calls : calls[c].kind = "insert" =>
        /\ \A j \in DOMAIN calls[c].ids :
              /\ Exists(calls[c].ids[j])
              /\ writer[calls[c].ids[j]] = c => rows[calls[c].ids[j]] = calls[c].given[j].name
        /\ Cardinality(CallRows(c) \ {calls[c].ids[j] : j \in DOMAIN calls[c].ids})
              <= (IF calls[c].end = "error" THEN 1 ELSE 0)

(* UpdateRows has written no other row than the first it was given, and    *)
(* that row has the name of the last of its statements that was done.      *)
UpdateWritesFirst ==
    \A c \in DOMAIN calls : calls[c].kind = "update" =>
        \A id \in CallRows(c) : id = calls[c].given[1].id /\ rows[id] = calls[c].given[calls[c].done].name

TablesAreKept == FailedInsertTells /\ UpdateWritesFirst
==============================================================================
