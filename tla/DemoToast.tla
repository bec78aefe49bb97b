------------------------------ MODULE DemoToast ------------------------------
(* The toast of the demo.  Every request that would change something, and a  *)
(* logout, sends it an event; the requests end in their own time, so several *)
(* events may come between two renders.  A handler and a cleanup know the    *)
(* timer of the render that made them.                                       *)
EXTENDS Naturals

CONSTANT MaxTimers            \* bound on the ids of timers
ASSUME TimerAssumption == MaxTimers \in Nat \ {0}

ToastTimers == 1..MaxTimers
NoTimer == 0

VARIABLE toast

ToastType == [
    visible : BOOLEAN,                       \* toastVisible
    running : SUBSET ToastTimers,                 \* timeouts that have not fired
    timer : ToastTimers \cup {NoTimer},           \* toastTimer
    effect : ToastTimers \cup {NoTimer}]          \* toastTimer as the effect closed over it

InUse(i) == i \in toast.running \cup {toast.timer, toast.effect}

\* The timer that the handler knows is cleared, and a new one is set.
HandleDemoAction(i) ==
    /\ ~InUse(i)
    /\ toast' = [toast EXCEPT !.visible = TRUE, !.timer = i,
                              !.running = (@ \ {toast.effect}) \cup {i}]

\* Variant: the cleanup clears the timer that was just set.
RunEffectLate ==
    /\ toast.effect # toast.timer
    /\ toast' = [toast EXCEPT !.running = @ \ {toast.timer}, !.effect = toast.timer]

\* After the render the old effect is cleaned up, and the new one is set up.
RunEffect ==
    /\ toast.effect # toast.timer
    /\ toast' = [toast EXCEPT !.running = @ \ {toast.effect}, !.effect = toast.timer]

TimerFires(i) ==
    /\ i \in toast.running
    /\ toast' = [toast EXCEPT !.running = @ \ {i}, !.visible = FALSE]

ToastInit == toast = [visible |-> FALSE, running |-> {}, timer |-> NoTimer, effect |-> NoTimer]

ToastNext == RunEffect \/ \E i \in ToastTimers : HandleDemoAction(i) \/ TimerFires(i)

ToastSpec == ToastInit /\ [][ToastNext]_toast

-----------------------------------------------------------------------------
ToastTypeOK == toast \in ToastType

\* A toast that is visible has a timer that will hide it, however many events
\* come between two renders: no cleanup ever clears the newest timer.
ToastHasTimer == toast.visible => toast.timer \in toast.running
=============================================================================
