------------------------------ MODULE Startup ------------------------------
(***************************************************************************)
(* The two ways a repository gets its database: cidx init makes it         *)
(* (Initialize), every other command opens it and brings it up to date     *)
(* (DatabaseOpen).  Every other command needs the configuration init links *)
(* last, so they do not meet: a behaviour is one of them.                  *)
(***************************************************************************)
EXTENDS Initialize, DatabaseOpen

VARIABLE command

startupVars == <<vars, openVars, command>>

InitRests ==
  /\ dirs = {} /\ temp = Nobody /\ db = Nobody /\ ready = FALSE /\ sidecar = FALSE /\ config = Nobody
  /\ pc = [p \in Procs |-> "config?"] /\ state = [p \in Procs |-> {}] /\ disturbed = FALSE
  /\ unremoved = [p \in Procs |-> {}]

OpenRests ==
  /\ current = NoFile /\ legacy = NoFile /\ leftovers = FALSE /\ origin = NoFile
  /\ opening = [p \in Openers |-> "look"] /\ at = [p \in Openers |-> 0]
  /\ written = {} /\ hindered = FALSE

StartupInit ==
  \/ command = "init" /\ Init /\ OpenRests
  \/ command = "open" /\ InitRests /\ OpenInit

StartupNext ==
  \/ command = "init" /\ Next /\ UNCHANGED <<openVars, command>>
  \/ command = "open" /\ OpenNext /\ UNCHANGED <<vars, command>>

StartupSpec == StartupInit /\ [][StartupNext]_startupVars
=============================================================================
