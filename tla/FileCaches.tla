------------------------------ MODULE FileCaches ------------------------------
(***************************************************************************)
(* zfilecache: goroutines that cache data under its hash, the repeater     *)
(* that deletes old files, and ForceDelete.  One name, whose file is       *)
(* there or not; a time is an age in steps.                                *)
(***************************************************************************)
EXTENDS Naturals

CONSTANTS
    CacheUsers,   \* goroutines that call CacheFromData
    DeleteAfter,  \* age at which a file is old
    SweepAfter    \* how long after a sweep the next one comes, for 30 minutes

ASSUME FileCacheAssumption == DeleteAfter \in Nat \ {0} /\ SweepAfter \in Nat \ {0}

VARIABLES
    file,         \* what is at the path: "none", "empty" or "whole"
    fileAge,      \* since it was modified
    caching,      \* what each goroutine is doing
    sweep,        \* what the repeater is doing
    sinceSweep,   \* since lastDelete
    diskCritical, \* diskCritical
    handedOut,    \* the name was returned with no error
    torn,         \* a write failed, or the process ended, between Create and Write
    raced,        \* two goroutines, or one and the sweep, were at work at the same time
    youngSwept    \* a file that was not old was deleted

fileCacheVars == <<file, fileAge, caching, sweep, sinceSweep, diskCritical, handedOut, torn,
                   raced, youngSwept>>

FileCacheInit ==
    /\ file = "none" /\ fileAge = 0
    /\ caching = [u \in CacheUsers |-> "nothing"]
    /\ sweep = "waits" /\ sinceSweep = SweepAfter /\ diskCritical = FALSE
    /\ handedOut = FALSE /\ torn = FALSE /\ raced = FALSE /\ youngSwept = FALSE

Caches(u, what) == caching' = [caching EXCEPT ![u] = what]
Busied(u) == sweep = "removes" \/ \E o \in CacheUsers \ {u} : caching[o] # "nothing"

\* CacheFromData, as far as it looks whether the file is there
CacheFromData(u) ==
    /\ caching[u] = "nothing"
    /\ Caches(u, IF file = "none" THEN "creates" ELSE "touches")
    /\ raced' = (raced \/ Busied(u))
    /\ UNCHANGED <<file, fileAge, sweep, sinceSweep, diskCritical, handedOut, torn, youngSwept>>

\* SetModified: an error if the file is gone by now
SetModified(u) ==
    /\ caching[u] = "touches"
    /\ fileAge' = 0 /\ Caches(u, "nothing")
    /\ handedOut' = (file # "none")
    /\ UNCHANGED <<file, sweep, sinceSweep, diskCritical, torn, raced, youngSwept>>

\* os.Create truncates a file that is there.
CreateFile(u) ==
    /\ caching[u] = "creates"
    /\ file' = "empty" /\ fileAge' = 0 /\ Caches(u, "writes")
    /\ UNCHANGED <<sweep, sinceSweep, diskCritical, handedOut, torn, raced, youngSwept>>

\* If the file was removed the data goes with it; a file that could not be written stays.
WriteFile(u, fails) ==
    /\ caching[u] = "writes"
    /\ file' = IF fails \/ file = "none" THEN file ELSE "whole"
    /\ Caches(u, "nothing")
    /\ handedOut' = (~fails \/ handedOut)
    /\ torn' = (torn \/ fails)
    /\ UNCHANGED <<fileAge, sweep, sinceSweep, diskCritical, raced, youngSwept>>

\* RemoveFileWithName
RemoveFile ==
    /\ \A u \in CacheUsers : caching[u] = "nothing"
    /\ file # "none" /\ file' = "none" /\ handedOut' = FALSE
    /\ torn' = FALSE
    /\ UNCHANGED <<fileAge, caching, sweep, sinceSweep, diskCritical, raced, youngSwept>>

\* The repeater: on a critical disk it comes sooner. DeleteOldInSubFolders takes the time of a
\* file that it then removes; another file is left.
BeginFileSweep ==
    /\ sweep = "waits"
    /\ sinceSweep >= SweepAfter \/ (diskCritical /\ sinceSweep > 0)
    /\ diskCritical' = FALSE /\ sinceSweep' = 0
    /\ sweep' = IF file # "none" /\ fileAge > DeleteAfter THEN "removes" ELSE "waits"
    /\ raced' = (raced \/ (sweep' = "removes" /\ \E u \in CacheUsers : caching[u] # "nothing"))
    /\ UNCHANGED <<file, fileAge, caching, handedOut, torn, youngSwept>>

EndFileSweep ==
    /\ sweep = "removes"
    /\ sweep' = "waits" /\ file' = "none" /\ handedOut' = FALSE
    /\ youngSwept' = (youngSwept \/ (file # "none" /\ fileAge <= DeleteAfter))
    /\ torn' = (torn /\ \E u \in CacheUsers : caching[u] # "nothing")
    /\ UNCHANGED <<fileAge, caching, sinceSweep, diskCritical, raced>>

\* lastDelete is set to the zero time. No more than what is old is deleted.
ForceDelete ==
    /\ ~diskCritical
    /\ diskCritical' = TRUE /\ sinceSweep' = SweepAfter
    /\ UNCHANGED <<file, fileAge, caching, sweep, handedOut, torn, raced, youngSwept>>

\* The process ends, and another finds the file as it is.
RestartCache ==
    /\ caching' = [u \in CacheUsers |-> "nothing"] /\ sweep' = "waits"
    /\ sinceSweep' = SweepAfter /\ diskCritical' = FALSE
    /\ torn' = (torn \/ file = "empty") /\ handedOut' = FALSE
    /\ UNCHANGED <<file, fileAge, raced, youngSwept>>

FileTick ==
    /\ \A u \in CacheUsers : caching[u] = "nothing"
    /\ fileAge' = IF file # "none" /\ fileAge <= DeleteAfter THEN fileAge + 1 ELSE fileAge
    /\ sinceSweep' = IF sinceSweep < SweepAfter THEN sinceSweep + 1 ELSE sinceSweep
    /\ <<fileAge, sinceSweep>>' # <<fileAge, sinceSweep>>
    /\ UNCHANGED <<file, caching, sweep, diskCritical, handedOut, torn, raced, youngSwept>>

FileCacheNext ==
    \/ \E u \in CacheUsers : \/ CacheFromData(u) \/ SetModified(u) \/ CreateFile(u)
                             \/ \E fails \in BOOLEAN : WriteFile(u, fails)
    \/ RemoveFile \/ BeginFileSweep \/ EndFileSweep \/ ForceDelete \/ RestartCache \/ FileTick

------------------------------------------------------------------------------
(* Properties *)

\* zfilecache.go:152, "This string return is this name/hash, used to get a path or a url for
\* fetching": a name that was returned is that of a whole file, until the file is deleted. Only
\* a file that was torn, or goroutines that meet, leave an empty one, which is then kept for the
\* next one to find.
HandedOutIsWhole == handedOut /\ ~torn /\ ~raced => file = "whole"

\* zfilecache.go:31, "Delete files when modified more than this long ago": no sooner, whatever
\* ForceDelete says, unless the file is modified between the sweep's two looks at it.
YoungFilesStay == ~raced => ~youngSwept

FilesAreKept == HandedOutIsWhole /\ YoungFilesStay
==============================================================================
