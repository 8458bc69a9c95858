--------------------------- MODULE ShutdownSignal ---------------------------
(***************************************************************************)
(* The hand-over of SIGINT and SIGTERM to a thread of the program (class   *)
(* ShutdownSignal of modules/utils): handlers write a byte to a pipe, a    *)
(* worker reads it and calls back until the callback accepts.  A handler   *)
(* interrupts any thread, and several run at once.  Module ChildProcess    *)
(* builds a program on it.                                                 *)
(***************************************************************************)
EXTENDS Integers, FiniteSets

CONSTANTS
  Handler,     (* invocations of handle() that can overlap                 *)
  Capacity,    (* bytes the pipe holds                                     *)
  ReadSize,    (* bytes the worker reads at a time                         *)
  MaxSignals   (* bound: signals delivered in a behaviour                  *)

ASSUME SignalAssumption == /\ IsFiniteSet(Handler)
                           /\ Capacity \in Nat \ {0}
                           /\ ReadSize \in Nat \ {0}
                           /\ MaxSignals \in Nat

VARIABLES
  owner,       (* how far the constructor or the destructor is             *)
  write_fd,    (* write_fd_ is the pipe's descriptor                       *)
  handlers,    (* handlers_                                                *)
  pipe,        (* bytes in the pipe                                        *)
  open,        (* the pipe's descriptors are open                          *)
  installed,   (* the signals handle() is installed for                    *)
  handler,     (* where each invocation of handle() is                     *)
  stopping_,   (* stopping_                                                *)
  worker,      (* where the worker is                                      *)
  pending,     (* the worker's variable pending                            *)
  signals      (* number of signals delivered so far                       *)

ssVars == <<owner, write_fd, handlers, pipe, open, installed, handler,
            stopping_, worker, pending, signals>>

OwnerPlace == {"new", "int", "term", "ready", "undo", "joining", "restoring",
               "release", "draining", "closing", "gone"}
HandlerPlace == {"out", "entered", "counted", "write", "leave"}
WorkerPlace == {"none", "test", "poll", "decide", "callback", "done"}

SSTypeOK ==
  /\ owner \in OwnerPlace
  /\ write_fd \in BOOLEAN
  /\ handlers \in Nat
  /\ pipe \in 0..Capacity
  /\ open \in BOOLEAN
  /\ installed \subseteq {"SIGINT", "SIGTERM"}
  /\ handler \in [Handler -> HandlerPlace]
  /\ stopping_ \in BOOLEAN
  /\ worker \in WorkerPlace
  /\ pending \in BOOLEAN
  /\ signals \in Nat

SSInit ==
  /\ owner = "new"
  /\ write_fd = FALSE
  /\ handlers = 0
  /\ pipe = 0
  /\ open = FALSE
  /\ installed = {}
  /\ handler = [h \in Handler |-> "out"]
  /\ stopping_ = FALSE
  /\ worker = "none"
  /\ pending = FALSE
  /\ signals = 0

-----------------------------------------------------------------------------
(* handle().                                                               *)

HandlerGoes(h, from, to) ==
  handler[h] = from /\ handler' = [handler EXCEPT ![h] = to]

(* A signal is delivered; without a handler it ends the process.           *)
Deliver(h) ==
  /\ installed # {} /\ signals < MaxSignals
  /\ HandlerGoes(h, "out", "entered")
  /\ signals' = signals + 1
  /\ UNCHANGED <<owner, write_fd, handlers, pipe, open, installed, stopping_, worker, pending>>

HandlerCounts(h) ==
  /\ HandlerGoes(h, "entered", "counted")
  /\ handlers' = handlers + 1
  /\ UNCHANGED <<owner, write_fd, pipe, open, installed, stopping_, worker, pending, signals>>

(* Fault: a handler that finds no descriptor returns without uncounting.   *)
HandlerReturnsEarly(h) ==
  /\ HandlerGoes(h, "counted", IF write_fd THEN "write" ELSE "out")
  /\ UNCHANGED <<owner, write_fd, handlers, pipe, open, installed, stopping_, worker, pending,
                 signals>>

HandlerLoads(h) ==
  /\ HandlerGoes(h, "counted", IF write_fd THEN "write" ELSE "leave")
  /\ UNCHANGED <<owner, write_fd, handlers, pipe, open, installed, stopping_, worker, pending,
                 signals>>

(* EAGAIN from a full pipe is ignored.                                     *)
HandlerWrites(h) ==
  /\ HandlerGoes(h, "write", "leave")
  /\ pipe' = IF pipe < Capacity THEN pipe + 1 ELSE pipe
  /\ UNCHANGED <<owner, write_fd, handlers, open, installed, stopping_, worker, pending, signals>>

HandlerLeaves(h) ==
  /\ HandlerGoes(h, "leave", "out")
  /\ handlers' = handlers - 1
  /\ UNCHANGED <<owner, write_fd, pipe, open, installed, stopping_, worker, pending, signals>>

Handle(h) == HandlerCounts(h) \/ HandlerLoads(h) \/ HandlerWrites(h) \/ HandlerLeaves(h)

-----------------------------------------------------------------------------
(* The worker.                                                             *)

WorkerGoes(from, to) == worker = from /\ worker' = to

WorkerTests ==
  /\ WorkerGoes("test", IF stopping_ THEN "done" ELSE "poll")
  /\ UNCHANGED <<owner, write_fd, handlers, pipe, open, installed, handler, stopping_, pending,
                 signals>>

(* Fault: a notification is tried once.                                    *)
WorkerForgets ==
  /\ WorkerGoes("poll", "decide")
  /\ pipe' = IF pipe > ReadSize THEN pipe - ReadSize ELSE 0
  /\ pending' = (pipe > 0)
  /\ UNCHANGED <<owner, write_fd, handlers, open, installed, handler, stopping_, signals>>

(* poll() waits for a byte, 50 ms at most.                                 *)
WorkerPolls ==
  /\ WorkerGoes("poll", "decide")
  /\ pipe' = IF pipe > ReadSize THEN pipe - ReadSize ELSE 0
  /\ pending' = (pending \/ pipe > 0)
  /\ UNCHANGED <<owner, write_fd, handlers, open, installed, handler, stopping_, signals>>

WorkerDecides ==
  /\ WorkerGoes("decide", IF pending /\ ~stopping_ THEN "callback" ELSE "test")
  /\ UNCHANGED <<owner, write_fd, handlers, pipe, open, installed, handler, stopping_, pending,
                 signals>>

CallbackReturns(accepted) ==
  /\ WorkerGoes("callback", IF accepted THEN "done" ELSE "test")
  /\ UNCHANGED <<owner, write_fd, handlers, pipe, open, installed, handler, stopping_, pending,
                 signals>>

-----------------------------------------------------------------------------
(* The constructor, start(), the destructor and release().                 *)

OwnerGoes(from, to) == owner = from /\ owner' = to

(* pipe2, and write_fd_ is taken; one instance per executable.             *)
OpenPipe ==
  /\ OwnerGoes("new", "int")
  /\ open' = TRUE
  /\ write_fd' = TRUE
  /\ UNCHANGED <<handlers, pipe, installed, handler, stopping_, worker, pending, signals>>

InstallSucceeds ==
  /\ \/ OwnerGoes("int", "term") /\ installed' = {"SIGINT"}
     \/ OwnerGoes("term", "ready") /\ installed' = {"SIGINT", "SIGTERM"}
  /\ UNCHANGED <<write_fd, handlers, pipe, open, handler, stopping_, worker, pending, signals>>

(* sigaction fails: what was done is undone and the constructor throws.    *)
InstallFails ==
  /\ OwnerGoes("int", "release") \/ OwnerGoes("term", "undo")
  /\ UNCHANGED <<write_fd, handlers, pipe, open, installed, handler, stopping_, worker, pending,
                 signals>>

UndoInstall ==
  /\ OwnerGoes("undo", "release")
  /\ installed' = {}
  /\ UNCHANGED <<write_fd, handlers, pipe, open, handler, stopping_, worker, pending, signals>>

StartWorker ==
  /\ owner = "ready"
  /\ WorkerGoes("none", "test")
  /\ UNCHANGED <<owner, write_fd, handlers, pipe, open, installed, handler, stopping_, pending,
                 signals>>

DestructorBegins ==
  /\ OwnerGoes("ready", "joining")
  /\ stopping_' = TRUE
  /\ UNCHANGED <<write_fd, handlers, pipe, open, installed, handler, worker, pending, signals>>

(* Fault: the worker is not joined.                                        *)
LeavesWorker ==
  /\ OwnerGoes("joining", "restoring")
  /\ write_fd' = FALSE
  /\ UNCHANGED <<handlers, pipe, open, installed, handler, stopping_, worker, pending, signals>>

JoinsWorker ==
  /\ worker \in {"none", "done"}
  /\ OwnerGoes("joining", "restoring")
  /\ write_fd' = FALSE
  /\ UNCHANGED <<handlers, pipe, open, installed, handler, stopping_, worker, pending, signals>>

RestoreHandlers ==
  /\ owner = "restoring"
  /\ IF "SIGINT" \in installed
     THEN installed' = {"SIGTERM"} /\ UNCHANGED owner
     ELSE installed' = {} /\ owner' = "release"
  /\ UNCHANGED <<write_fd, handlers, pipe, open, handler, stopping_, worker, pending, signals>>

Release ==
  /\ OwnerGoes("release", "draining")
  /\ write_fd' = FALSE
  /\ UNCHANGED <<handlers, pipe, open, installed, handler, stopping_, worker, pending, signals>>

(* Fault: handlers in progress are not waited for.                         *)
NoDrain ==
  /\ OwnerGoes("draining", "closing")
  /\ UNCHANGED <<write_fd, handlers, pipe, open, installed, handler, stopping_, worker, pending,
                 signals>>

(* The loop that yields until handlers_ is 0.                              *)
Drain ==
  /\ handlers = 0
  /\ OwnerGoes("draining", "closing")
  /\ UNCHANGED <<write_fd, handlers, pipe, open, installed, handler, stopping_, worker, pending,
                 signals>>

ClosePipe ==
  /\ OwnerGoes("closing", "gone")
  /\ open' = FALSE
  /\ UNCHANGED <<write_fd, handlers, pipe, installed, handler, stopping_, worker, pending, signals>>

Construct == OpenPipe \/ InstallSucceeds \/ InstallFails \/ UndoInstall
ReleaseAll == Release \/ Drain \/ ClosePipe
Destruct == DestructorBegins \/ JoinsWorker \/ RestoreHandlers \/ ReleaseAll
=============================================================================
