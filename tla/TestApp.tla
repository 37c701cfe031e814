------------------------------ MODULE TestApp ------------------------------
(***************************************************************************)
(* src/test/test.c, the program that atest.cmd builds: it opens a window   *)
(* with a progress control and handles messages until it is told to stop.  *)
(* libaroma itself is not in the repository: its calls succeed, fail or    *)
(* deliver a message as the code that calls them expects, and other threads*)
(* of the library post messages and may take the window off the pool.      *)
(***************************************************************************)
EXTENDS Integers, Sequences

CONSTANTS
    Others,    \* messages the program does not care about
    MaxPosts   \* bound: messages that get posted

VARIABLES
    pc,      \* the statement of winmain or main that is next
    aroma,   \* whether the library is started
    win,     \* the window: "none", "live", or "freed"
    ctl,     \* whether the window has its control
    onpool,  \* win->onpool
    msg,     \* the message that was pooled last
    queue,   \* the window's messages
    posts

vars == <<pc, aroma, win, ctl, onpool, msg, queue, posts>>

Msg == {"exit", "power"} \union Others

Init ==
    /\ pc = "start" /\ aroma = FALSE
    /\ win = "none" /\ ctl = FALSE /\ onpool = FALSE
    /\ msg = "none" /\ queue = <<>> /\ posts = 0

Start ==
    /\ pc = "start" /\ pc' = "window" /\ aroma' = TRUE
    /\ UNCHANGED <<win, ctl, onpool, msg, queue, posts>>

\* libaroma_window, which may fail.
OpenWindow ==
    /\ pc = "window"
    /\ \/ pc' = "ctl" /\ win' = "live"
       \/ pc' = "end" /\ UNCHANGED win
    /\ UNCHANGED <<aroma, ctl, onpool, msg, queue, posts>>

\* libaroma_ctl_progress: when it fails winmain returns, the window stays.
AddProgress ==
    /\ pc = "ctl"
    /\ \/ pc' = "show" /\ ctl' = TRUE
       \/ pc' = "end" /\ UNCHANGED ctl
    /\ UNCHANGED <<aroma, win, onpool, msg, queue, posts>>

Show ==
    /\ pc = "show" /\ pc' = "pool" /\ onpool' = TRUE
    /\ UNCHANGED <<aroma, win, ctl, msg, queue, posts>>

\* libaroma_window_pool waits for a message.
Pool ==
    /\ pc = "pool" /\ pc' = "test"
    /\ IF queue = <<>> THEN ~onpool /\ UNCHANGED <<msg, queue>>
       ELSE msg' = Head(queue) /\ queue' = Tail(queue)
    /\ UNCHANGED <<aroma, win, ctl, onpool, posts>>

\* Faulty variant: the loop looks at the pool only.
TestPool ==
    /\ pc = "test" /\ pc' = IF onpool THEN "pool" ELSE "free"
    /\ UNCHANGED <<aroma, win, ctl, onpool, msg, queue, posts>>

\* The break, and the loop's condition.
Test ==
    /\ pc = "test"
    /\ pc' = IF msg \notin {"exit", "power"} /\ onpool THEN "pool" ELSE "free"
    /\ UNCHANGED <<aroma, win, ctl, onpool, msg, queue, posts>>

Free ==
    /\ pc = "free" /\ pc' = "end" /\ win' = "freed" /\ onpool' = FALSE
    /\ UNCHANGED <<aroma, ctl, msg, queue, posts>>

End ==
    /\ pc = "end" /\ pc' = "done" /\ aroma' = FALSE
    /\ UNCHANGED <<win, ctl, onpool, msg, queue, posts>>

\* The library posts a message to the window that is shown.
Post(m) ==
    /\ posts < MaxPosts /\ win = "live" /\ pc \notin {"ctl", "end", "done"}
    /\ posts' = posts + 1 /\ queue' = Append(queue, m)
    /\ UNCHANGED <<pc, aroma, win, ctl, onpool, msg>>

\* Somebody takes the window off the pool.
LeavePool ==
    /\ onpool /\ onpool' = FALSE
    /\ UNCHANGED <<pc, aroma, win, ctl, msg, queue, posts>>

Main == Start \/ OpenWindow \/ AddProgress \/ Show \/ Pool \/ Test \/ Free \/ End
Next == Main \/ (\E m \in Msg : Post(m)) \/ LeavePool

\* The program runs on whenever it is not waiting for a message.
Spec == Init /\ [][Next]_vars /\ WF_vars(Main)
-----------------------------------------------------------------------------
\* Type correctness, and every call of the library is between libaroma_start
\* and libaroma_end, on a window that is not freed.
TypeOK ==
    /\ pc \in {"start", "window", "ctl", "show", "pool", "test", "free", "end", "done"}
    /\ win \in {"none", "live", "freed"} /\ ctl \in BOOLEAN /\ onpool \in BOOLEAN
    /\ msg \in Msg \union {"none"} /\ queue \in Seq(Msg) /\ posts \in 0 .. MaxPosts
    /\ aroma = (pc \notin {"start", "done"})
    /\ pc \in {"ctl", "show", "pool", "test", "free"} => win = "live"

\* The program ends with its window freed, unless there was none or its control
\* could not be made: then winmain leaves the window to libaroma_end.
WindowFreed == pc = "done" => win # "live" \/ ~ctl

\* However many other messages are queued before it, a request to exit ends
\* the program.
ExitEnds ==
    (win = "live" /\ \E i \in DOMAIN queue : queue[i] \in {"exit", "power"}) ~> pc = "done"
=============================================================================
