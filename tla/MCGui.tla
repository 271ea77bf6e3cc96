------------------------------- MODULE MCGui --------------------------------
(* One worker a generation.  A behaviour starts with a saved wallet and has one session with two
   generations, so that the old worker may still be in a call when the next one starts; or one
   session with a generation that mines while the wallet is replaced; or it starts without a file
   and has two sessions, so that the program may end while its first wallet is written. *)
EXTENDS Gui
MCPasts == {[launches |-> 1, file |-> 3, keys |-> 3, saved |-> {3}, gens |-> 0],
            [launches |-> 1, file |-> 2, keys |-> 2, saved |-> {2}, gens |-> 1],
            [launches |-> 0, file |-> Absent, keys |-> 2, saved |-> {1}, gens |-> 1]}
=============================================================================
