------------------------------ MODULE MCDocuments ------------------------------
(* What is written down and read back: the small instances of Disclosure,      *)
(* Encoding and Interop.  The three share no state, so one of them moves while *)
(* the others rest where they began, and the writers of Encoding rest while    *)
(* its text moves.                                                             *)
EXTENDS MCDisclosure, MCInterop

DsRest ==
    /\ issued.commit.category = "identity" /\ issued.relies_on = <<>>
    /\ claim = issued /\ d = NotDisclosed /\ alterations = 0

IoRest ==
    /\ today = NewYear(2000) /\ walked = 0
    /\ native = Nothing /\ doc = Nothing /\ altered = 0

MCInit == DsInit /\ EncInit /\ IoInit /\ (DsRest \/ IoRest)

MCNext ==
    \/ EncInit /\ IoRest /\ DsNext /\ UNCHANGED <<encVars, ioVars>>
    \/ DsRest /\ EncInit /\ IoNext /\ UNCHANGED <<dsVars, encVars>>
    \/ DsRest /\ IoRest /\ text = <<>> /\ (WriteLeft \/ WriteRight) /\ UNCHANGED <<dsVars, ioVars>>
    \/ DsRest /\ IoRest /\ left = Unused /\ right = Unused /\ Type /\ UNCHANGED <<dsVars, ioVars>>

MCSpec == MCInit /\ [][MCNext]_<<dsVars, encVars, ioVars>>
===============================================================================
