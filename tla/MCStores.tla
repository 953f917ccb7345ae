-------------------------------- MODULE MCStores --------------------------------
(* What is remembered, in memory and on disk: the small instances of           *)
(* NonceStore, CliNonceFile and CommandLine, and one of WalletFile.  The four  *)
(* share no state, so one of them moves while the others rest where they       *)
(* began.                                                                      *)
EXTENDS MCNonceStore, MCCliNonceFile, MCCommandLine, WalletFile

CONSTANTS h1, h2, alice, bob, x, y, p1, p2

CliRest == alone = {} /\ asks = [r \in Run |-> c1] /\ CliInit
CmdRest == time = 0 /\ job = Overwriting /\ CmdInit
WfRest == disk.kind = "absent" /\ sealing[h1] = p1 /\ mem[h1].owner = alice /\ WfInit

MCInit == NSInit /\ CliInit /\ CmdInit /\ WfInit /\ WfRest

MCNext ==
    \/ CliRest /\ CmdRest /\ WfRest /\ NSNext /\ UNCHANGED <<cliVars, cmdVars, wfVars>>
    \/ NSInit /\ CmdRest /\ WfRest /\ CliNext /\ UNCHANGED <<nsVars, cmdVars, wfVars>>
    \/ NSInit /\ CliRest /\ WfRest /\ CmdNext /\ UNCHANGED <<nsVars, cliVars, wfVars>>
    \/ NSInit /\ CliRest /\ CmdRest /\ WfNext /\ UNCHANGED <<nsVars, cliVars, cmdVars>>

MCSpec == MCInit /\ [][MCNext]_<<nsVars, cliVars, cmdVars, wfVars>>
===============================================================================
