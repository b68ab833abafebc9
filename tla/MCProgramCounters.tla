-------------------------- MODULE MCProgramCounters --------------------------
(***************************************************************************)
(* A program for ProgramCounters of the shape of a comparison: two shares  *)
(* are opened, each result starts a callback with exchanges of its own,    *)
(* one calls a preprocessed method and one schedules a further callback,   *)
(* and the reactor may be entered in both.                                 *)
(***************************************************************************)
EXTENDS ProgramCounters

Ex == [do |-> "exchange"]
Act == [do |-> "activate"]
On(b, i, body) == [do |-> "schedule", on |-> <<b, i>>, body |-> body]
In(body) == [do |-> "fork", body |-> body]

MCBodies == {"main", "left", "right", "deep", "method"}

MCCode ==
    [b \in MCBodies |->
        CASE b = "main"   -> <<Ex, Ex, On("main", 1, "left"), Act,
                               On("main", 2, "right"), Ex>>
          [] b = "left"   -> <<Ex, Act, On("left", 1, "deep")>>
          [] b = "right"  -> <<In("method"), Ex>>
          [] b = "method" -> <<Ex, Act>>
          [] b = "deep"   -> <<Ex>>]

==============================================================================
