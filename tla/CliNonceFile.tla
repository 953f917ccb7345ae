----------------------------- MODULE CliNonceFile -----------------------------
(****************************************************************************)
(* `aion-trust verify --nonce-store FILE` (aion-trust-cli/src/main.rs).     *)
(*                                                                          *)
(* Every invocation is a process of its own.  It loads the file, verifies,  *)
(* writes its own copy back over the file whatever the verdict, and prints  *)
(* the verdict.  Nothing locks the file.  std::fs::write truncates the file *)
(* and then writes from its start, so two writers may overlap.              *)
(*                                                                          *)
(* A process may stop at any step: it is killed, or an error of the file    *)
(* system or of decoding ends it.  An invocation without --nonce-store      *)
(* touches no file and is not modelled.                                     *)
(****************************************************************************)
EXTENDS FiniteSets

CONSTANTS
    Run,       \* the invocations
    Challenge  \* what a record remembers: an audience and the text of a nonce

VARIABLES
    file,      \* what is on disk
    pc,        \* where a process is
    asks,      \* the challenge its presentation answers
    copy,      \* the records it holds in memory
    verdict,   \* whether its report accepts
    before,    \* history: the processes that had ended when it began
    alone      \* history: the processes no other process overlapped so far

cliVars == <<file, pc, asks, copy, verdict, before, alone>>

Whole(records) == [kind |-> "whole", records |-> records]
Absent == [kind |-> "absent", records |-> {}]
Empty == [kind |-> "empty", records |-> {}]
Broken == [kind |-> "broken", records |-> {}]   \* text that does not parse

Loaded == {"judging", "saving", "writing", "reporting", "ended"}
AliveAt == {"loading", "judging", "saving", "writing", "reporting"}
Alive == {r \in Run : pc[r] \in AliveAt}
Over == {r \in Run : pc[r] \in {"ended", "failed"}}

Goto(r, where) == pc' = [pc EXCEPT ![r] = where]

-------------------------------------------------------------------------------
CliInit ==
    /\ file = Absent
    /\ pc = [r \in Run |-> "idle"]
    /\ asks \in [Run -> Challenge]
    /\ copy = [r \in Run |-> {}]
    /\ verdict = [r \in Run |-> FALSE]
    /\ before = [r \in Run |-> {}]
    /\ alone = {}

Begin(r) ==
    /\ pc[r] = "idle"
    /\ Goto(r, "loading")
    /\ before' = [before EXCEPT ![r] = Over]
    /\ alone' = IF Alive = {} THEN alone \cup {r} ELSE alone \ Alive
    /\ UNCHANGED <<file, asks, copy, verdict>>

(* Mutant of Load: a file that does not parse counts as an empty store. *)
LoadOrDefault(r) ==
    /\ pc[r] = "loading"
    /\ copy' = [copy EXCEPT ![r] = file.records]
    /\ Goto(r, "judging")
    /\ UNCHANGED <<file, asks, verdict, before, alone>>

(* An absent file is an empty store; any other must parse. *)
Load(r) ==
    /\ pc[r] = "loading"
    /\ file.kind \in {"absent", "whole"}
    /\ copy' = [copy EXCEPT ![r] = file.records]
    /\ Goto(r, "judging")
    /\ UNCHANGED <<file, asks, verdict, before, alone>>

Unreadable(r) ==
    /\ pc[r] = "loading"
    /\ file.kind \notin {"absent", "whole"}
    /\ Goto(r, "failed")
    /\ UNCHANGED <<file, asks, copy, verdict, before, alone>>

(* Mutant of Judge: the report is made on the copy, the record is forgotten. *)
JudgeUnrecorded(r, rest) ==
    LET accepted == rest /\ asks[r] \notin copy[r]
    IN  /\ pc[r] = "judging"
        /\ verdict' = [verdict EXCEPT ![r] = accepted]
        /\ Goto(r, "saving")
        /\ UNCHANGED <<file, asks, copy, before, alone>>

(* `rest` is the verdict of every check but the nonce's freshness. *)
Judge(r, rest) ==
    LET accepted == rest /\ asks[r] \notin copy[r]
    IN  /\ pc[r] = "judging"
        /\ verdict' = [verdict EXCEPT ![r] = accepted]
        /\ copy' = IF accepted THEN [copy EXCEPT ![r] = @ \cup {asks[r]}] ELSE copy
        /\ Goto(r, "saving")
        /\ UNCHANGED <<file, asks, before, alone>>

Truncate(r) ==
    /\ pc[r] = "saving"
    /\ file' = Empty
    /\ Goto(r, "writing")
    /\ UNCHANGED <<asks, copy, verdict, before, alone>>

(* The text is laid over what another writer put there meanwhile.  A text    *)
(* with more records is longer; the tail of a longer one spoils the file.    *)
Overlaid(records) ==
    IF file.kind \in {"absent", "empty"} \/ (file.kind = "whole" /\ file.records \subseteq records)
    THEN {Whole(records)}
    ELSE IF file.kind = "whole" /\ records \subseteq file.records
    THEN {Broken}
    ELSE {Whole(records), Broken}

Write(r) ==
    /\ pc[r] = "writing"
    /\ file' \in Overlaid(copy[r])
    /\ Goto(r, "reporting")
    /\ UNCHANGED <<asks, copy, verdict, before, alone>>

Report(r) ==
    /\ pc[r] = "reporting"
    /\ Goto(r, "ended")
    /\ UNCHANGED <<file, asks, copy, verdict, before, alone>>

(* A process that stops while it writes may leave part of its text. *)
Stop(r) ==
    /\ pc[r] \in AliveAt
    /\ file' \in IF pc[r] = "writing" THEN {file, Broken} ELSE {file}
    /\ Goto(r, "failed")
    /\ UNCHANGED <<asks, copy, verdict, before, alone>>

CliNext ==
    \E r \in Run :
        \/ Begin(r) \/ Load(r) \/ Unreadable(r)
        \/ \E rest \in BOOLEAN : Judge(r, rest)
        \/ Truncate(r) \/ Write(r) \/ Report(r) \/ Stop(r)

CliSpec == CliInit /\ [][CliNext]_cliVars

-------------------------------------------------------------------------------
(* Properties. *)

File == [kind : {"absent", "empty", "broken", "whole"}, records : SUBSET Challenge]

CliTypeOK ==
    /\ file \in File /\ (file.kind # "whole" => file.records = {})
    /\ pc \in [Run -> AliveAt \cup {"idle", "ended", "failed"}]
    /\ asks \in [Run -> Challenge]
    /\ copy \in [Run -> SUBSET Challenge]
    /\ verdict \in [Run -> BOOLEAN] /\ \A r \in Run : verdict[r] => asks[r] \in copy[r]
    /\ before \in [Run -> SUBSET Run] /\ alone \subseteq Run

Accepted(r) == pc[r] = "ended" /\ verdict[r]

(* r ended with ACCEPTED and no other process ran meanwhile. *)
Settled(r) == r \in alone /\ Accepted(r)

(* A challenge accepted by a process that ran alone is never accepted again  *)
(* by any later one, however these overlap, overwrite each other or stop     *)
(* half-way (main.rs:446-453, 494-506).                                      *)
AloneIsFinal ==
    \A r, q \in Run : Settled(r) /\ r \in before[q] /\ asks[q] = asks[r] => ~Accepted(q)

(* What such a process accepted stays in the file for as long as the file    *)
(* can be read: a damaged store refuses, it does not forget.                 *)
KeptOrRefused ==
    \A r \in Run : Settled(r) =>
        /\ file.kind # "absent"
        /\ file.kind = "whole" => asks[r] \in file.records

(* What the option's help says: when given, a replayed presentation is       *)
(* rejected (main.rs:107-108): no process that begins after another has      *)
(* ended with ACCEPTED accepts the same challenge.                           *)
ReplayRejected ==
    \A r, q \in Run : Accepted(r) /\ r \in before[q] /\ asks[q] = asks[r] => ~Accepted(q)
===============================================================================
