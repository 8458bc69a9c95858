------------------------------ MODULE MCStartup ------------------------------
(***************************************************************************)
(* A layer l and its double d, an application a that l loads, and the      *)
(* framework node f, brought up, called and shut down in every way.        *)
(***************************************************************************)
EXTENDS Startup, TLC

CONSTANTS l, d, a, f

MCOwnerOf == l :> "layer" @@ d :> "layer" @@ a :> "app" @@ f :> "node"
MCOffers == l :> {"activate", "load"} @@ d :> {"activate"} @@ a :> {"activate", "shutdown"}
            @@ f :> {"shutdown"}

Case(steps, up) == [steps |-> steps, up |-> up]

MCProcedures ==
  {Case(runLayer("layer"), {l}), Case(runLayer("layer"), {l, d}),
   Case(startApplication("app", "load", "layer"), {l}),
   Case(runProcedure("app"), {a}), Case(runProcedure("layer"), {l, d}),
   Case(commandLine(NoOwner, "activate", FALSE), {l, a}),
   Case(commandLine(NoOwner, "shutdown", TRUE), {f, a}),
   Case(commandLine("node", "shutdown", FALSE), {f})}
=============================================================================
