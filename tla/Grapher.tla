------------------------------- MODULE Grapher --------------------------------
(***************************************************************************)
(* zgrapher's server.  A job's image is drawn on pixel by pixel as time    *)
(* goes and stored as the file of the window it is in; a file of an old    *)
(* window is rendered anew when it is asked for and was not written after  *)
(* the window's end.  The render loop, the update two seconds after start, *)
(* requests and AddJob/RemoveJob run beside each other; Draw may be slow.  *)
(***************************************************************************)
EXTENDS Integers, FiniteSets

VARIABLES
    graphTime,  \* now, in pixels
    sjobs,      \* the SJobs made for one ID: a pointer is an index
    inJobs,     \* which of them g.jobs has, NoJob if none
    updating,   \* what the render loop and the update at start are doing
    mixedUp,    \* jobs that two updates were in at once, or one that was planned before what is drawn
    rendering,  \* renderingOldParts: when the Draw of each window began, or none
    files       \* of each window: its columns, when it was written, if by a request that came after the window

grapherVars == <<graphTime, sjobs, inJobs, updating, mixedUp, rendering, files>>

Columns == 0..1       \* PixelWidth
Windows == 0..1
AskedFor == {0}       \* the windows that requests ask for (a bound)
LastPixel == 3        \* the clock stops here (a bound)
MaxJobs == 1          \* AddJob's calls (a bound)
MaxDelay == 1          \* pixels an update can be late (a bound)
NoJob == 0
Never == 99
Blank == 98           \* a column that nothing was drawn on
Updaters == {"loop", "start"}

WindowOf(pixel) == pixel \div Cardinality(Columns)
WindowStart(w) == w * Cardinality(Columns)
WindowEnd(w) == WindowStart(w + 1)
Empty == [x \in Columns |-> Blank]
SJob(w) == [window |-> w, drawnUntil |-> WindowStart(w), image |-> Empty]
File(columns, modified, after) == [columns |-> columns, modified |-> modified, after |-> after]
NoFile == [columns |-> Empty, modified |-> Never, after |-> FALSE]
NoUpdate == [job |-> NoJob, planned |-> Never]

\* Draw: each pixel from start until end that is in the canvas and has happened.
Draw(image, w, start, end) ==
    [x \in Columns |-> LET pixel == WindowStart(w) + x
                       IN IF pixel >= start /\ pixel < end /\ pixel < graphTime THEN pixel ELSE image[x]]

GrapherInit ==
    /\ graphTime = 0 /\ sjobs = <<>> /\ inJobs = NoJob /\ mixedUp = {}
    /\ updating = [u \in Updaters |-> NoUpdate]
    /\ rendering = [w \in AskedFor |-> Never]
    /\ files = [w \in Windows |-> NoFile]

\* AddJob: a new image that starts where the window does.
AddJob ==
    /\ Cardinality(DOMAIN sjobs) < MaxJobs
    /\ LET n == Cardinality(DOMAIN sjobs) + 1 IN
       /\ sjobs' = [i \in 1..n |-> IF i = n THEN SJob(WindowOf(graphTime)) ELSE sjobs[i]]
       /\ inJobs' = n
    /\ UNCHANGED <<graphTime, updating, mixedUp, rendering, files>>

RemoveJob ==
    /\ inJobs # NoJob /\ inJobs' = NoJob
    /\ UNCHANGED <<graphTime, sjobs, updating, mixedUp, rendering, files>>

(* updateAll: the loop comes once for each pixel, with the time it was     *)
(* planned at, which has passed when other jobs were drawn before this     *)
(* one; the update at start comes once.                                    *)
BeginUpdate(u, planned) ==
    /\ inJobs # NoJob /\ updating[u].job = NoJob /\ planned >= 0
    /\ updating[u] = NoUpdate \/ (u = "loop" /\ updating[u].planned < planned)
    /\ LET job == sjobs[inJobs]
           now == WindowOf(planned)
       IN sjobs' = [sjobs EXCEPT ![inJobs] =
                       [job EXCEPT !.window = now, !.image = Draw(job.image, now, job.drawnUntil, planned)]]
    /\ updating' = [updating EXCEPT ![u] = [job |-> inJobs, planned |-> planned]]
    /\ mixedUp' = IF \/ \E v \in Updaters : updating[v].job = inJobs
                       \/ planned < sjobs[inJobs].drawnUntil
                    THEN mixedUp \union {inJobs} ELSE mixedUp
    /\ UNCHANGED <<graphTime, inJobs, rendering, files>>

\* saveToCache by the job's window, then drawnUntil; the job is set again, gone or not.
EndUpdate(u) ==
    LET up == updating[u]
        job == sjobs[up.job]
    IN /\ up.job # NoJob
       /\ files' = [files EXCEPT ![job.window] = File(job.image, graphTime, FALSE)]
       /\ sjobs' = [sjobs EXCEPT ![up.job].drawnUntil = up.planned]
       /\ inJobs' = up.job
       /\ updating' = [updating EXCEPT ![u].job = NoJob]
       /\ UNCHANGED <<graphTime, mixedUp, rendering>>

(* interceptServe: the current window's file is served as it is if there   *)
(* is one, and any other if it was written after its window.               *)
IsServed(w) ==
    IF w = sjobs[inJobs].window THEN files[w] # NoFile
    ELSE files[w] # NoFile /\ files[w].modified >= WindowEnd(w)

\* renderOldPart: one Draw for a window at a time; a request waits 2 seconds for its end.
BeginRender(w) ==
    /\ inJobs # NoJob /\ w <= WindowOf(graphTime) /\ ~IsServed(w) /\ rendering[w] = Never
    /\ rendering' = [rendering EXCEPT ![w] = graphTime]
    /\ UNCHANGED <<graphTime, sjobs, inJobs, updating, mixedUp, files>>

Rendered(w) == [x \in Columns |-> IF WindowStart(w) + x < rendering[w] THEN WindowStart(w) + x ELSE Blank]
EndRender(w) ==
    /\ rendering[w] # Never
    /\ files' = [files EXCEPT ![w] = File(Rendered(w), graphTime, rendering[w] >= WindowEnd(w))]
    /\ rendering' = [rendering EXCEPT ![w] = Never]
    /\ UNCHANGED <<graphTime, sjobs, inJobs, updating, mixedUp>>

GraphTick ==
    /\ graphTime < LastPixel /\ graphTime' = graphTime + 1
    /\ UNCHANGED <<sjobs, inJobs, updating, mixedUp, rendering, files>>

GrapherNext ==
    \/ AddJob \/ RemoveJob \/ GraphTick
    \/ \E u \in Updaters : EndUpdate(u) \/ \E late \in 0..MaxDelay : BeginUpdate(u, graphTime - late)
    \/ \E w \in AskedFor : BeginRender(w) \/ EndRender(w)
-----------------------------------------------------------------------------
IsWhole(w, columns) == \A x \in Columns : columns[x] = WindowStart(w) + x
IsFinal(w) == files[w] # NoFile /\ files[w].modified >= WindowEnd(w)

(* A file that is kept because it was written after its window's end shows *)
(* all of the window, if it was drawn for a request that came after the    *)
(* end.  (One whose Draw was at work at the end, the loop's last for the   *)
(* window too, may be kept for good without the window's last pixels.)     *)
OldPartsAreWhole ==
    \A w \in Windows : IsFinal(w) /\ files[w].after => IsWhole(w, files[w].columns)

(* The image of a job that is not being drawn shows its window from the    *)
(* window's start until drawnUntil, unless updates met in the job or came  *)
(* to it late, which moves window and drawnUntil back.                     *)
DrawnIsCurrent ==
    \A i \in DOMAIN sjobs \ (mixedUp \union {updating[u].job : u \in Updaters}) :
        LET job == sjobs[i] IN
        \A x \in Columns : LET pixel == WindowStart(job.window) + x
                           IN pixel < job.drawnUntil => job.image[x] = pixel

GraphsAreKept == OldPartsAreWhole /\ DrawnIsCurrent
==============================================================================
