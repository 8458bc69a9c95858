---------------------------- MODULE ChildProcess ----------------------------
(***************************************************************************)
(* The program that holds one component (child_process_launcher): it       *)
(* installs ShutdownSignal, loads the component, starts the worker, whose  *)
(* callback stops the component, and executes the component until its      *)
(* state machine ends.  The component is abstract: it leaves               *)
(* "initialization" and may quit at any time (module App has the details). *)
(***************************************************************************)
EXTENDS ShutdownSignal

VARIABLES
  main,        (* where main() is                                          *)
  component,   (* the component's state                                    *)
  seen,        (* the state the callback has read                          *)
  asked,       (* quit_request was raised by the callback                  *)
  noticed      (* history: a handler has written to the pipe               *)

childVars == <<main, component, seen, asked, noticed>>
vars == <<ssVars, childVars>>

MainPlace == {"construct", "load", "start", "execute", "destroy", "return", "ended",
              "exited", "python"}

(* "none" before it is loaded, "live" every state between the two others.  *)
ComponentState == {"none", "initialization", "live", "quit"}

TypeOK ==
  /\ SSTypeOK
  /\ main \in MainPlace
  /\ component \in ComponentState
  /\ seen \in ComponentState
  /\ asked \in BOOLEAN
  /\ noticed \in BOOLEAN

Init ==
  /\ SSInit
  /\ main = "construct"
  /\ component = "none"
  /\ seen = "none"
  /\ asked = FALSE
  /\ noticed = FALSE

MainGoes(from, to) == main = from /\ main' = to

(* The process, and with it its threads and handlers, is there.            *)
Running == main \notin {"ended", "exited", "python"}

-----------------------------------------------------------------------------
(* main().                                                                 *)

Constructs ==
  /\ main = "construct"
  /\ Construct \/ ReleaseAll
  /\ main' = IF owner' = "ready" THEN "load" ELSE IF owner' = "gone" THEN "return" ELSE main
  /\ UNCHANGED <<component, seen, asked, noticed>>

(* The arguments are bad or the component cannot be loaded: exit(), which  *)
(* destroys no local object.                                               *)
LoadFails ==
  /\ MainGoes("load", "exited")
  /\ UNCHANGED <<ssVars, component, seen, asked, noticed>>

(* A Python component replaces the program, its handlers and the pipe.     *)
ExecPython ==
  /\ MainGoes("load", "python")
  /\ UNCHANGED <<ssVars, component, seen, asked, noticed>>

Loads ==
  /\ MainGoes("load", "start")
  /\ component' = "initialization"
  /\ UNCHANGED <<ssVars, seen, asked, noticed>>

Starts ==
  /\ MainGoes("start", "execute")
  /\ StartWorker
  /\ UNCHANGED <<component, seen, asked, noticed>>

Initializes ==
  /\ main = "execute"
  /\ component = "initialization"
  /\ component' = "live"
  /\ UNCHANGED <<ssVars, main, seen, asked, noticed>>

(* For a request of the callback or for another reason.                    *)
Quits ==
  /\ main = "execute"
  /\ component = "live"
  /\ component' = "quit"
  /\ UNCHANGED <<ssVars, main, seen, asked, noticed>>

ExecuteReturns ==
  /\ component = "quit"
  /\ MainGoes("execute", "destroy")
  /\ UNCHANGED <<ssVars, component, seen, asked, noticed>>

(* shutdown_signal is destroyed before pComponent.                         *)
Destroys ==
  /\ main = "destroy"
  /\ Destruct
  /\ main' = IF owner' = "gone" THEN "return" ELSE main
  /\ UNCHANGED <<component, seen, asked, noticed>>

(* The rest of the process is taken down, and its threads with it.         *)
ProcessEnds ==
  /\ MainGoes("return", IF component = "none" THEN "exited" ELSE "ended")
  /\ UNCHANGED <<ssVars, component, seen, asked, noticed>>

-----------------------------------------------------------------------------
(* The callback and the other threads.                                     *)

ReadsState ==
  /\ Running /\ worker = "callback" /\ seen = "none"
  /\ seen' = component
  /\ UNCHANGED <<ssVars, main, component, asked, noticed>>

(* stop() raises quit_request, which "initialization" would discard.       *)
Answers ==
  /\ Running /\ seen # "none"
  /\ CallbackReturns(seen # "initialization")
  /\ asked' = (asked \/ seen = "live")
  /\ seen' = "none"
  /\ UNCHANGED <<main, component, noticed>>

WorkerSteps ==
  /\ Running
  /\ WorkerTests \/ WorkerPolls \/ WorkerDecides
  /\ UNCHANGED childVars

Signal(h) ==
  /\ Running
  /\ Deliver(h)
  /\ UNCHANGED childVars

HandlerSteps(h) ==
  /\ Running
  /\ Handle(h)
  /\ noticed' = (noticed \/ handler[h] = "write")
  /\ UNCHANGED <<main, component, seen, asked>>

Main == Constructs \/ LoadFails \/ ExecPython \/ Loads \/ Starts \/ ExecuteReturns \/ Destroys
        \/ ProcessEnds

Worker == WorkerSteps \/ ReadsState \/ Answers

Next ==
  \/ Main \/ Initializes \/ Quits
  \/ Worker
  \/ \E h \in Handler : Signal(h) \/ HandlerSteps(h)

Spec == Init /\ [][Next]_vars

(* The threads run, loading ends, and a component leaves initialization by *)
(* itself.  Nothing makes it quit.                                         *)
FairSpec ==
  /\ Spec
  /\ WF_vars(Main) /\ WF_vars(Initializes) /\ WF_vars(Worker)
  /\ \A h \in Handler : WF_vars(HandlerSteps(h))

-----------------------------------------------------------------------------
(* Properties.                                                             *)

(* No handler writes to the descriptor once it is closed, however handlers *)
(* and the destructor, or a constructor that fails, overlap: another file  *)
(* could have been given the number.                                       *)
NoWriteAfterClose == Running => \A h \in Handler : handler[h] = "write" => open

(* The callback runs only while the component and the signal's object are  *)
(* there.                                                                  *)
CallbackInLifetime ==
  Running /\ worker \notin {"none", "done"} =>
    main \in {"execute", "destroy"} /\ owner \in {"ready", "joining"} /\ open

(* A signal that was noticed, before start() or after, reaches a component *)
(* that is neither quitting nor gone, and not while it would be discarded. *)
(* A Python component's does not outlive execl().                          *)
SignalIsHeard ==
  noticed ~> (asked \/ component = "quit" \/ main \in {"exited", "python"})

(* The destructor waits for the worker and for the handlers, and ends.     *)
DestructorEnds == (main = "destroy") ~> (main = "ended")
=============================================================================
