------------------------------ MODULE WalletFile ------------------------------
(****************************************************************************)
(* A wallet's file (aion-trust-wallet/src/lib.rs, save and load).           *)
(*                                                                          *)
(* A handle is a Wallet value of some process.  It is created around a new  *)
(* or a restored identity or loaded from the file, claims are added to it,  *)
(* and it is saved as a whole, under any passphrase.  Nothing locks the     *)
(* file.  std::fs::write truncates it and then writes from its start: two   *)
(* saves may overlap, and one may be cut short by an error of the file      *)
(* system or by the end of its process.                                     *)
(*                                                                          *)
(* The ciphertext opens for the passphrase it was sealed with and is only   *)
(* recognized whole.                                                        *)
(****************************************************************************)
CONSTANTS
    Handle, Owner,  \* an owner is an identity: the secret in the file
    Evidence,       \* the claims that may be added
    Passphrase

VARIABLES
    disk,    \* the file
    at,      \* at[h]: closed, open, or writing (in std::fs::write)
    mem,     \* mem[h]: the identity and the claims it holds
    sealing, \* sealing[h]: the passphrase of its save
    saved,   \* history: what the last completed save was to write
    torn,    \* history: the last save to begin was cut short or overlapped
    based    \* history: the open handles that hold what was saved last

wfVars == <<disk, at, mem, sealing, saved, torn, based>>

Sealed(content, pass) == [kind |-> "sealed", content |-> content, pass |-> pass]
Unusable(kind) == [kind |-> kind]

Writing == {h \in Handle : at[h] = "writing"}

-------------------------------------------------------------------------------
WfInit ==
    /\ disk = Unusable("absent") /\ saved = disk /\ torn = FALSE /\ based = {}
    /\ at = [h \in Handle |-> "closed"]
    /\ \E o \in Owner : mem = [h \in Handle |-> [owner |-> o, claims |-> {}]]
    /\ \E pass \in Passphrase : sealing = [h \in Handle |-> pass]

Open(h, content) ==
    /\ at[h] = "closed"
    /\ at' = [at EXCEPT ![h] = "open"]
    /\ mem' = [mem EXCEPT ![h] = content]
    /\ UNCHANGED <<disk, sealing, saved, torn>>

(* Around a new identity, or one restored from its secret. *)
Create(h, o) ==
    /\ Open(h, [owner |-> o, claims |-> {}])
    /\ based' = IF saved.kind = "absent" THEN based \cup {h} ELSE based

(* Mutant of LoadWallet: the identity is restored, the claims are not. *)
LoadIdentity(h, pass) ==
    /\ disk.kind = "sealed" /\ disk.pass = pass
    /\ Open(h, [disk.content EXCEPT !.claims = {}])
    /\ based' = based \cup {h}

(* Any other file, or another passphrase, is an error, and nothing opens. *)
LoadWallet(h, pass) ==
    /\ disk.kind = "sealed" /\ disk.pass = pass
    /\ Open(h, disk.content)
    /\ based' = based \cup {h}

AddClaim(h, c) ==
    /\ at[h] = "open" /\ c \notin mem[h].claims
    /\ mem' = [mem EXCEPT ![h].claims = @ \cup {c}]
    /\ UNCHANGED <<disk, at, sealing, saved, torn, based>>

(* Mutant of BeginSave: the file is opened without being truncated. *)
BeginSaveInPlace(h, pass) ==
    /\ at[h] = "open"
    /\ at' = [at EXCEPT ![h] = "writing"] /\ sealing' = [sealing EXCEPT ![h] = pass]
    /\ torn' = (Writing # {})
    /\ UNCHANGED <<disk, mem, saved, based>>

BeginSave(h, pass) ==
    /\ at[h] = "open"
    /\ at' = [at EXCEPT ![h] = "writing"] /\ sealing' = [sealing EXCEPT ![h] = pass]
    /\ disk' = Unusable("empty")
    /\ torn' = (Writing # {})
    /\ UNCHANGED <<mem, saved, based>>

(* A text is laid over what is there; the more claims, the longer it is, and *)
(* the tail of a longer one spoils the file.                                 *)
LaidOver(file) ==
    IF disk.kind \in {"absent", "empty"} THEN {file}
    ELSE IF disk.kind = "sealed" /\ disk.content.claims \subseteq file.content.claims THEN {file}
    ELSE IF disk.kind = "sealed" /\ file.content.claims \subseteq disk.content.claims
    THEN {Unusable("broken")}
    ELSE {file, Unusable("broken")}

EndSave(h) ==
    /\ at[h] = "writing"
    /\ at' = [at EXCEPT ![h] = "open"]
    /\ saved' = Sealed(mem[h], sealing[h])
    /\ disk' \in LaidOver(saved')
    /\ based' = {h}
    /\ UNCHANGED <<mem, sealing, torn>>

(* The write fails, or its process ends: part of the text may be on disk. *)
CutShort(h, where) ==
    /\ at[h] = "writing"
    /\ at' = [at EXCEPT ![h] = where]
    /\ disk' \in {disk, Unusable("broken")}
    /\ torn' = TRUE
    /\ based' = IF where = "open" THEN based ELSE based \ {h}
    /\ UNCHANGED <<mem, sealing, saved>>

(* The process ends, with what it did not save. *)
Close(h) ==
    /\ at[h] = "open"
    /\ at' = [at EXCEPT ![h] = "closed"]
    /\ based' = based \ {h}
    /\ UNCHANGED <<disk, mem, sealing, saved, torn>>

WfNext ==
    \E h \in Handle :
        \/ \E o \in Owner : Create(h, o)
        \/ \E pass \in Passphrase : LoadWallet(h, pass) \/ BeginSave(h, pass)
        \/ \E c \in Evidence : AddClaim(h, c)
        \/ EndSave(h) \/ Close(h)
        \/ \E where \in {"open", "closed"} : CutShort(h, where)

WfSpec == WfInit /\ [][WfNext]_wfVars

-------------------------------------------------------------------------------
(* Properties. *)

Content == [owner : Owner, claims : SUBSET Evidence]
SealedFile == [kind : {"sealed"}, content : Content, pass : Passphrase]

WfTypeOK ==
    /\ disk \in SealedFile \cup {Unusable(k) : k \in {"absent", "empty", "broken"}}
    /\ at \in [Handle -> {"closed", "open", "writing"}]
    /\ mem \in [Handle -> Content] /\ sealing \in [Handle -> Passphrase]
    /\ saved \in SealedFile \cup {Unusable("absent")}
    /\ torn \in BOOLEAN /\ based \subseteq {h \in Handle : at[h] # "closed"}

(* A file that opens at all is exactly what the last completed save wrote,   *)
(* whatever was in it before (a longer text, a broken one, another           *)
(* identity's).  Only while a save is under way, or after one that was cut   *)
(* short or overlapped with another, it may not open, and then the key is    *)
(* gone with it; the next whole save heals the file (lib.rs:262).            *)
IntactUnlessTorn ==
    /\ disk.kind = "sealed" => disk = saved
    /\ ~torn /\ Writing = {} => disk = saved

(* Handles that take turns lose nothing: one that was loaded after the last  *)
(* save, or made that save itself, has that identity and all of its claims,  *)
(* so that saving it keeps them, torn saves or not.  (A handle that is       *)
(* behind overwrites what it never saw, lib.rs:246-262.)                     *)
CurrentCopiesLoseNothing ==
    saved.kind = "sealed" =>
        \A h \in based : /\ mem[h].owner = saved.content.owner
                         /\ saved.content.claims \subseteq mem[h].claims
===============================================================================
