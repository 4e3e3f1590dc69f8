------------------------------- MODULE Units --------------------------------
(***************************************************************************)
(* The sequential parts of Nachos, one at a time: the simulated processor  *)
(* with the programs that show its instructions, the context switch, the   *)
(* program loaders, lists, stacks, demand paging below the file system     *)
(* calls, and the parsing of paths.  Every behaviour is one of one part;   *)
(* the state of the others rests.                                          *)
(***************************************************************************)
EXTENDS Disassembler, ContextSwitch, Loader, Lists, Paging, Paths

VARIABLE part   \* which one

unitVars == <<part, vars, switchVars, loaderVars, listVars, stackVars, pagingVars, pathVars>>

Parts == {"cpu", "switch", "loader", "list", "stack", "paging", "path"}

UnitsInit ==
    /\ part \in Parts
    /\ Init /\ (part # "cpu" => cpu = CHOOSE c \in UserStates : TRUE)
    /\ SwitchInit /\ (part # "switch" => host = CHOOSE h \in Host : TRUE)
    /\ LoaderInit
    /\ ListsInit
    /\ IF part = "stack" THEN StacksInit ELSE array = NoArray /\ test = NoTest
    /\ PagingInit
    /\ IF part = "path" THEN PathsInit ELSE name = <<>> /\ rest = <<>> /\ descended = <<>>

UnitsNext ==
    \/ /\ part = "cpu" /\ Next
       /\ UNCHANGED <<part, switchVars, loaderVars, listVars, stackVars, pagingVars, pathVars>>
    \/ /\ part = "switch" /\ SwitchNext
       /\ UNCHANGED <<part, vars, loaderVars, listVars, stackVars, pagingVars, pathVars>>
    \/ /\ part = "loader" /\ LoaderNext
       /\ UNCHANGED <<part, vars, switchVars, listVars, stackVars, pagingVars, pathVars>>
    \/ /\ part = "list" /\ ListsNext
       /\ UNCHANGED <<part, vars, switchVars, loaderVars, pagingVars, pathVars>>
    \/ /\ part = "stack" /\ StacksNext
       /\ UNCHANGED <<part, vars, switchVars, loaderVars, pagingVars, pathVars>>
    \/ /\ part = "paging" /\ PagingNext
       /\ UNCHANGED <<part, vars, switchVars, loaderVars, listVars, stackVars, pathVars>>
    \/ /\ part = "path" /\ PathsNext
       /\ UNCHANGED <<part, vars, switchVars, loaderVars, listVars, stackVars, pagingVars>>

UnitsSpec == UnitsInit /\ [][UnitsNext]_unitVars
=============================================================================
