-------------------------- MODULE ControllerReaper --------------------------
(***************************************************************************)
(* The FIFO of pipeline/ControllerReaper.cpp and its one worker thread.    *)
(* What a job does is up to the module that composes this one: it acts     *)
(* while the job is the running one, then calls Finish.                    *)
(*                                                                         *)
(* enqueue() after shutdown() runs the job on the caller's thread; nothing *)
(* in the plugin can reach it (the UI thread is the last caller, and it is *)
(* inside shutdown()), so Enqueue is only modelled before shutdown().      *)
(***************************************************************************)
EXTENDS Sequences

CONSTANT NoJob

VARIABLES
    queue,           \* m_queue
    running,         \* the job the worker runs, or NoJob
    shuttingDown,    \* m_shutting_down
    exited           \* the worker has left worker_loop()

reaperVars == <<queue, running, shuttingDown, exited>>

ReaperInit == queue = <<>> /\ running = NoJob /\ shuttingDown = FALSE /\ exited = FALSE

Enqueue(job) ==
    /\ ~shuttingDown
    /\ queue' = Append(queue, job)
    /\ UNCHANGED <<running, shuttingDown, exited>>

Take ==
    /\ ~exited /\ running = NoJob /\ queue # <<>>
    /\ running' = Head(queue) /\ queue' = Tail(queue)
    /\ UNCHANGED <<shuttingDown, exited>>

Finish == running' = NoJob /\ UNCHANGED <<queue, shuttingDown, exited>>

(* shutdown(), before the join. *)
RequestShutdown == shuttingDown' = TRUE /\ UNCHANGED <<queue, running, exited>>

Exit_Undrained == ~exited /\ shuttingDown /\ running = NoJob
                  /\ exited' = TRUE /\ UNCHANGED <<queue, running, shuttingDown>>

Exit ==
    /\ ~exited /\ shuttingDown /\ running = NoJob /\ queue = <<>>
    /\ exited' = TRUE
    /\ UNCHANGED <<queue, running, shuttingDown>>
=============================================================================
