---------------------------- MODULE RoutineTracer ----------------------------
(***************************************************************************)
(* The call-stack tracer of one application thread and its two observers:  *)
(* the function statistics (routine_tracer_funcstats.cc) and the call-site *)
(* stack of the memory tracker (memory_tracker.cc).  The front-end reports *)
(* entries, exits and, at the start of every trace of instructions, the    *)
(* routine the thread is really in; another thread switches the region of  *)
(* interest (ROI) on and off: first the flag, then the hooks.              *)
(*                                                                         *)
(* A routine is its address; 0 stands for code outside every routine.  A   *)
(* statistic is a counter that only grows.  Stack pointers are depths,     *)
(* negated.                                                                *)
(***************************************************************************)
EXTENDS Integers, Sequences, SequencesExt

CONSTANTS
    Routines,    \* addresses of routines; 0 is the invalid routine
    Watched,     \* call stacks whose statistics are followed, one at a time
    Late,        \* routines that another thread's pipe announces
    Frontends,   \* "pin", "outside" (SIFT, tracing outside detail), "sift"
    MaxFrames,   \* bound on the frames of the thread
    MaxDepth,    \* bound on the traced call stack
    MaxStat,     \* bound on the statistic
    MaxRoi       \* bound on the number of regions of interest

VARIABLES
    front,       \* the front-end in use
    real,        \* the routines whose frames are on the thread's stack
    checked,     \* an assertion for the present trace has been delivered
    last,        \* last_routine of the recorder; -1: none
    tr,          \* the tracer of the thread and the master's records
    roi,         \* "off", "setting", "on", "ending"
    rois,        \* regions of interest begun so far
    owner,       \* m_eip of the record that owns a cache line; -1: none
    clean        \* all events have come by the book so far

vars == <<front, real, checked, last, tr, roi, rois, owner, clean>>

InROI == roi \in {"setting", "on"}

Esp(depth) == -depth

(* The statistics of a profile are kept as the work that was executed in   *)
(* the ROI, less the work that was recorded: flat for each routine, full   *)
(* for the call stack `watched`, whose m_values_start_full is kept as well.*)
(* Of m_callsite_stack the length is kept.                                 *)
NewTracer(stack) ==
             [m_stack |-> <<>>, m_last_esp |-> 0, stat |-> 0, watched |-> stack,
              m_values_start |-> 0, m_values_start_full |-> 0,
              flat |-> [r \in Routines |-> 0], full |-> 0, sites |-> 0,
              known |-> [r \in Routines \ Late |-> "named"]]

Init ==
    /\ front \in Frontends
    /\ real \in {<<r>> : r \in Routines}
    /\ checked = FALSE
    /\ last = -1
    /\ tr \in {NewTracer(stack) : stack \in Watched}
    /\ roi = "off"
    /\ rois = 0
    /\ owner = -1
    /\ clean = TRUE

-----------------------------------------------------------------------------
(* The records and the observers' callbacks.                               *)

(* updateRoutine and getRoutineFullPtr make a provisional record for a     *)
(* routine whose announcement is still on its way.                         *)
Recorded(known, eip) == 
    [r \in DOMAIN known \cup {eip} |-> IF r \in DOMAIN known THEN known[r] ELSE "provisional"]

FunctionBegin(t) ==
    [t EXCEPT !.m_values_start = t.stat,
              !.m_values_start_full = IF t.m_stack = t.watched THEN t.stat ELSE @]

UpdateRoutine(t, eip, value) == [t EXCEPT !.flat[eip] = @ - value, !.known = Recorded(@, eip)]

UpdateRoutineFull(t, value) ==
    [t EXCEPT !.full = IF t.m_stack = t.watched THEN @ - value ELSE @]

FunctionEnd(t, eip) ==
    UpdateRoutineFull(UpdateRoutine(t, eip, t.stat - t.m_values_start),
                      t.stat - t.m_values_start_full)

FunctionEnter(t) == [FunctionBegin(t) EXCEPT !.sites = @ + 1]

(* pop_back on an empty deque is undefined; it is reached only when an     *)
(* exit falls between the flag and the hook of the ROI.                    *)
FunctionExit(t, eip) ==
    [FunctionEnd(t, eip) EXCEPT !.sites = IF @ = 0 THEN @ ELSE @ - 1]

-----------------------------------------------------------------------------
(* The tracer: routineEnter, routineExit, routineAssert and the ROI hooks. *)

Pushed(t, eip, esp) == [t EXCEPT !.m_stack = Append(@, eip), !.m_last_esp = esp]

Popped(t) == [t EXCEPT !.m_stack = Front(@)]

RoutineEnter(t, roiOn, eip, esp) ==
    IF ~roiOn THEN Pushed(t, eip, esp)
    ELSE LET parent == IF t.m_stack = <<>> THEN t
                       ELSE FunctionEnd(t, Last(t.m_stack))
         IN  FunctionEnter(Pushed(parent, eip, esp))


UnwindOne(t, roiOn) ==
    IF ~roiOn THEN Popped(t)
    ELSE FunctionBegin(Popped(FunctionExit(t, Last(t.m_stack))))

RECURSIVE UnwindTo(_, _, _)
UnwindTo(t, roiOn, eip) ==
    IF Last(t.m_stack) = eip THEN t ELSE UnwindTo(UnwindOne(t, roiOn), roiOn, eip)

OnStack(t, eip) == \E i \in 1 .. Len(t.m_stack) : t.m_stack[i] = eip

(* An exit of a routine that is not on the stack is ignored, except that   *)
(* the function on top starts counting anew.                               *)
RoutineExit(t, roiOn, eip, esp) ==
    IF t.m_stack = <<>> THEN t
    ELSE LET there == UnwindTo(t, roiOn, eip)
             left == IF ~OnStack(t, eip) THEN t
                     ELSE Popped(IF roiOn THEN FunctionExit(there, eip) ELSE there)
             now == [left EXCEPT !.m_last_esp = esp]
         IN  IF now.m_stack # <<>> /\ roiOn THEN FunctionBegin(now) ELSE now

RoutineAssert(t, roiOn, eip, esp) ==
    CASE t.m_stack = <<>> -> RoutineEnter(t, roiOn, eip, esp)
      [] t.m_stack # <<>> /\ Last(t.m_stack) = eip -> t
      [] t.m_stack # <<>> /\ Last(t.m_stack) # eip ->
            IF esp <= t.m_last_esp \/ ~OnStack(t, eip)
            THEN RoutineEnter(t, roiOn, eip, esp)
            ELSE [UnwindTo(t, roiOn, eip) EXCEPT !.m_last_esp = esp]

(* hookRoiBegin: the whole stack stays in place while every function on it *)
(* is entered; a parent at address 0 counts as no parent.                  *)

HookRoiBegin(t) ==
    FoldLeft(LAMBDA u, i :
               LET parent == IF i = 1 THEN 0 ELSE t.m_stack[i - 1] IN
               FunctionEnter(IF parent # 0 THEN FunctionEnd(u, parent) ELSE u),
             t, [i \in 1 .. Len(t.m_stack) |-> i])

(* hookRoiEnd: the functions are exited from the top, then the stack is    *)
(* restored; a child at address 0 counts as no child.                      *)
HookRoiEnd(t) ==
    LET exit(u, child) ==
            Popped(FunctionExit(IF child # 0 THEN FunctionBegin(u) ELSE u,
                                Last(u.m_stack)))
        n == Len(t.m_stack)
        left == FoldLeft(LAMBDA u, i :
                           exit(u, IF i = 1 THEN 0 ELSE t.m_stack[n + 2 - i]),
                         t, [i \in 1 .. n |-> i])
    IN  [left EXCEPT !.m_stack = t.m_stack]

-----------------------------------------------------------------------------
(* The announcement of a routine arrives.                                  *)
AddRoutine(eip) ==
    /\ ~(eip \in DOMAIN tr.known /\ tr.known[eip] = "named")
    /\ tr' = [tr EXCEPT !.known = [Recorded(@, eip) EXCEPT ![eip] = "named"]]
    /\ UNCHANGED <<front, real, checked, last, roi, rois, owner, clean>>

(* A cache line is filled: its owner is the call stack of the thread.      *)

CeGetOwner ==
    /\ owner = -1 /\ tr.m_stack # <<>>
    /\ owner' = Last(tr.m_stack)
    /\ tr' = [tr EXCEPT !.known = Recorded(@, Last(tr.m_stack))]
    /\ UNCHANGED <<front, real, checked, last, roi, rois, clean>>

CeNotifyEvict ==
    /\ owner # -1
    /\ owner' = -1
    /\ UNCHANGED <<front, real, checked, last, tr, roi, rois, clean>>

-----------------------------------------------------------------------------
(* The front-ends.  The recorder sends routine events only while some      *)
(* thread is in detail, unless told otherwise, and an assertion only when  *)
(* it is news.                                                             *)

Delivered == front # "sift" \/ roi \in {"on", "ending"}

(* Only a routine has a head and returns to instrument.                    *)
Instrumented(f) == Delivered /\ f # 0

(* An event is handled; it is by the book unless it falls between the flag *)
(* and the hook of the ROI, or is an exit from a function not on the stack.*)
Handle(t, byTheBook) ==
    /\ tr' = t
    /\ clean' = (clean /\ byTheBook /\ (t = tr \/ roi \in {"off", "on"}))

Dropped == UNCHANGED <<tr, clean>>

(* A call reaches the head of a routine.                                   *)
Call(f) ==
    /\ checked /\ Len(real) < MaxFrames /\ Len(tr.m_stack) < MaxDepth
    /\ real' = Append(real, f)
    /\ IF Instrumented(f)
       THEN /\ Handle(RoutineEnter(tr, InROI, f, Esp(Len(real) + 1)), TRUE)
            /\ last' = f
       ELSE Dropped /\ UNCHANGED last
    /\ checked' = FALSE
    /\ UNCHANGED <<front, roi, rois, owner>>

(* A tail call: a jump to the head of a routine, on the caller's frame.    *)
TailCall(f) ==
    /\ checked /\ Len(tr.m_stack) < MaxDepth
    /\ real' = [real EXCEPT ![Len(real)] = f]
    /\ IF Instrumented(f)
       THEN /\ Handle(RoutineEnter(tr, InROI, f, Esp(Len(real))), TRUE)
            /\ last' = f
       ELSE Dropped /\ UNCHANGED last
    /\ checked' = FALSE
    /\ UNCHANGED <<front, roi, rois, owner>>

Return ==
    /\ checked /\ Len(real) > 1
    /\ real' = Front(real)
    /\ IF Instrumented(Last(real))
       THEN /\ Handle(RoutineExit(tr, InROI, Last(real), Esp(Len(real))),
                      tr.m_stack = <<>> \/ OnStack(tr, Last(real)))
            /\ last' = -1
       ELSE Dropped /\ UNCHANGED last
    /\ checked' = FALSE
    /\ UNCHANGED <<front, roi, rois, owner>>

(* A longjmp, or a return the instrumentation did not see.                 *)
Longjmp(k) ==
    /\ checked /\ k < Len(real)
    /\ real' = SubSeq(real, 1, k)
    /\ checked' = FALSE
    /\ UNCHANGED <<front, last, tr, roi, rois, owner, clean>>

(* A jump into the body of another routine, which passes no head.          *)
Jump(f) ==
    /\ checked /\ f # Last(real)
    /\ real' = [real EXCEPT ![Len(real)] = f]
    /\ checked' = FALSE
    /\ UNCHANGED <<front, last, tr, roi, rois, owner, clean>>

(* A trace of instructions begins.                                         *)
TraceStart ==
    LET eip == Last(real) IN
    /\ Len(tr.m_stack) < MaxDepth \/ OnStack(tr, eip)
    /\ IF Delivered /\ (front = "pin" \/ last # eip)
       THEN /\ Handle(RoutineAssert(tr, InROI, eip, Esp(Len(real))), TRUE)
            /\ last' = eip
       ELSE Dropped /\ UNCHANGED last
    /\ checked' = TRUE
    /\ Len(tr'.m_stack) <= MaxDepth
    /\ UNCHANGED <<front, real, roi, rois, owner>>

(* Instructions of the trace are executed.                                 *)
Work ==
    /\ checked /\ tr.stat < MaxStat
    /\ tr' = IF roi \in {"on", "ending"} /\ tr.m_stack # <<>>
             THEN [tr EXCEPT !.stat = @ + 1, !.flat[Last(tr.m_stack)] = @ + 1,
                             !.full = IF tr.m_stack = tr.watched THEN @ + 1 ELSE @]
             ELSE [tr EXCEPT !.stat = @ + 1]
    /\ UNCHANGED <<front, real, checked, last, roi, rois, owner, clean>>

(* setPerformance sets the flag, then calls the hooks.                     *)
SetPerformance ==
    /\ \/ roi = "off" /\ rois < MaxRoi /\ roi' = "setting" /\ rois' = rois + 1
       \/ roi = "on" /\ roi' = "ending" /\ UNCHANGED rois
    /\ UNCHANGED <<front, real, checked, last, tr, owner, clean>>

RoiBegin ==
    /\ roi = "setting"
    /\ roi' = "on"
    /\ tr' = HookRoiBegin(tr)
    /\ UNCHANGED <<front, real, checked, last, rois, owner, clean>>

RoiEnd ==
    /\ roi = "ending"
    /\ roi' = "off"
    /\ tr' = HookRoiEnd(tr)
    /\ UNCHANGED <<front, real, checked, last, rois, owner, clean>>

Next ==
    \/ \E f \in Routines : Call(f) \/ TailCall(f) \/ Jump(f) \/ AddRoutine(f)
    \/ \E k \in 1 .. MaxFrames : Longjmp(k)
    \/ Return \/ TraceStart \/ Work
    \/ SetPerformance \/ RoiBegin \/ RoiEnd
    \/ CeGetOwner \/ CeNotifyEvict

Spec == Init /\ [][Next]_vars

-----------------------------------------------------------------------------
(* The work of the present function that is not yet recorded.              *)
Open(t) == IF roi \in {"on", "ending"} /\ t.m_stack # <<>>
           THEN t.stat - t.m_values_start ELSE 0

(* Every piece of work done in the region of interest is recorded once,    *)
(* for the function and for the call stack it was done in: only the work   *)
(* that is still open is missing from the flat profile and the call-stack  *)
(* profile (routineEnter, routineExit, unwindTo and the ROI hooks with the *)
(* begin and end of the function statistics).  Events between the flag and *)
(* the hook and ignored exits break this, and so does a function that lies *)
(* under an invalid routine at the end of the ROI.                         *)
WorkRecordedOnce ==
    clean /\ 0 \notin Routines =>
        /\ \A r \in Routines :
              tr.flat[r] = IF tr.m_stack # <<>> /\ Last(tr.m_stack) = r THEN Open(tr) ELSE 0
        /\ tr.full = IF tr.m_stack = tr.watched THEN Open(tr) ELSE 0

(* Where the tracer was told of the present trace, the function on top of  *)
(* its stack is the one that executes, in spite of tail calls, longjmps    *)
(* and unseen returns (routineAssert and its own assertion).               *)
TopIsCurrent ==
    checked /\ front # "sift" => tr.m_stack # <<>> /\ Last(tr.m_stack) = Last(real)

(* The recorder leaves an assertion out only when the simulator's stack    *)
(* has that routine on top (last_routine of trace_rtn.cc).                 *)
SuppressionIsSound ==
    last # -1 => tr.m_stack # <<>> /\ Last(tr.m_stack) = last

(* The call-site stack of the memory tracker has an entry for each entry   *)
(* of the call stack in the region of interest, and none outside it.       *)
SitesMatchStack ==
    clean => tr.sites = IF roi \in {"on", "ending"} THEN Len(tr.m_stack) ELSE 0

(* A record is there for the owner of every cache line that may still be   *)
(* evicted: the assertion "Routine not found" of ce_notify_evict.          *)
OwnerIsRecorded == owner # -1 => owner \in DOMAIN tr.known
=============================================================================
