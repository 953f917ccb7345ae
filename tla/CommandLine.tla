------------------------------ MODULE CommandLine ------------------------------
(****************************************************************************)
(* The commands of `aion-trust` that work on files, apart from the nonce    *)
(* store (aion-trust-cli/src/main.rs): keygen, issue, issue-check, present, *)
(* verify, and the export and import of presentations and credentials.      *)
(*                                                                          *)
(* Every invocation is a process.  It reads its input files one after the   *)
(* other, computes, and writes its output over whatever is there; others    *)
(* run at the same time, and each may stop at any step.  A key is named by  *)
(* the keygen that drew it; a nonce by the invocation that drew it.  A      *)
(* document of the interop crate is the presentation it was made from (what *)
(* the conversion does is in Interop).                                      *)
(****************************************************************************)
EXTENDS Presenting

CONSTANTS
    Invocation,
    Scripts,     \* what some of the invocations are to do, a function of these
    Given,       \* what is in some files before
    Stdout,      \* the output of a command without --out
    MixedKey,    \* the key of a secret that is part one's, part another's
    MaxTime, MaxAtOnce  \* bounds on the clock and on the processes at a time

(* The parser of the command line (main.rs:29-157) sees to it that a command *)
(* has the input files it needs (--claim is required of `present`) and that  *)
(* numbers are of their range; the nonce that an invocation draws has its    *)
(* full length.  A --reveal entry is about a claim that is presented, and no *)
(* set of keys stands for all.  Claims, presentations and documents come     *)
(* from these invocations only: before them there are keys and disclosures.  *)
ASSUME CommandAssumption ==
    /\ MinSecond \in Int /\ MaxSecond \in Int /\ MinSecond <= 0
    /\ MaxTime \in Nat /\ MaxTime <= MaxSecond
    /\ Invocation \cap ShortNonce = {}
    /\ \A f \in DOMAIN Given : Given[f].kind \in {"secret", "disclosed"}
    /\ \A script \in Scripts :
          /\ DOMAIN script \subseteq Invocation
          /\ \A j \in Range(script) :
                /\ j.in \in Seq(Range(j.in)) /\ Stdout \notin Range(j.in)
                /\ j.cmd # "keygen" => Len(j.in) > 0
                /\ j.cmd = "present" =>
                      /\ Len(j.in) > 1 /\ j.expires_in \in MinSecond..MaxSecond
                      /\ j.reveal \in Seq(Range(j.reveal))
                      /\ \A e \in Range(j.reveal) : e.of \in 2..Len(j.in) /\ e.keys # AllFields

VARIABLES
    job,      \* job[r]: [cmd, in, out] and the arguments of the command
    path,     \* path[f]: what is in a file
    step,     \* step[r]: idle, running, writing, ended or failed
    named,    \* named[r]: the --reveal entries, with the ids the user saw
    got,      \* got[r]: what it has read
    made,     \* made[r]: what it computed
    time,
    started,  \* history: started[r], when it computed
    replaced  \* history: those whose inputs were written to since they began

process == <<job, named>>
cmdVars == <<process, path, step, got, made, time, started, replaced>>

Parsed(kind, value) == [kind |-> kind, value |-> value]
Unparsed(why) == [kind |-> why]

Busy == {r \in Invocation : step[r] \in {"running", "writing"}}
Made(r, kind) == made[r].kind = kind
Paths == (UNION {Range(j.in) \cup {j.out} : j \in Range(job)}) \ {Stdout}

-------------------------------------------------------------------------------
CmdInit ==
    /\ job \in Scripts
    /\ path = [f \in DOMAIN Given \cup Paths |->
                   IF f \in DOMAIN Given THEN Given[f] ELSE Unparsed("absent")]
    /\ step = [r \in Invocation |-> "idle"]
    /\ named = [r \in Invocation |-> <<>>] /\ got = named
    /\ made = [r \in Invocation |-> Unparsed("none")]
    /\ time = 0 /\ started = [r \in Invocation |-> 0] /\ replaced = {}

(* The dids and public keys among the arguments have been printed, and the   *)
(* claim ids of --reveal are those in the files by now.  An entry            *)
(* [of, keys] is about the claim in the of-th input.                         *)
BeginCommand(r) ==
    LET j == job[r]
        reveal == IF j.cmd = "present" THEN j.reveal ELSE <<>>
    IN  /\ step[r] = "idle" /\ Cardinality(Busy) < MaxAtOnce
        /\ j.cmd \in {"issue", "issue-check"} => Made(j.subject, "secret")
        /\ \A e \in Range(reveal) : path[j.in[e.of]].kind = "claim"
        /\ named' = [named EXCEPT ![r] =
              [i \in DOMAIN reveal |-> [claim_id |-> path[j.in[reveal[i].of]].value.claim_id,
                                        keys |-> reveal[i].keys]]]
        /\ step' = [step EXCEPT ![r] = "running"]
        /\ UNCHANGED <<job, path, got, made, time, started, replaced>>

(* The kinds of file the command reads, in order; any other is an error. *)
Expected(j) ==
    CASE j.cmd \in {"issue", "issue-check"} -> <<"secret">>
      [] j.cmd = "present" -> [i \in DOMAIN j.in |-> IF i = 1 THEN "secret" ELSE "claim"]
      [] j.cmd \in {"verify", "export-vp"} -> <<"presentation">>
      [] j.cmd = "import-vp" -> <<"vp">>
      [] j.cmd = "export-vc" -> <<"disclosed">>
      [] j.cmd = "import-vc" -> <<"vc">>
      [] OTHER -> <<>>

ReadNext(r) ==
    LET n == Len(got[r]) + 1
    IN  /\ step[r] = "running" /\ n \in DOMAIN job[r].in
        /\ IF path[job[r].in[n]].kind = Expected(job[r])[n]
           THEN got' = [got EXCEPT ![r] = Append(@, path[job[r].in[n]].value)] /\ UNCHANGED step
           ELSE step' = [step EXCEPT ![r] = "failed"] /\ UNCHANGED got
        /\ UNCHANGED <<process, path, made, time, started, replaced>>

Overwritten(f, by) == {r \in Busy \ {by} : f \in Range(job[r].in)}

Ready(r) == step[r] = "running" /\ Len(got[r]) = Len(job[r].in)

(* What was computed is printed, or the output file is opened for writing. *)
Emit(r, result) ==
    LET out == job[r].out
    IN  /\ Ready(r)
        /\ made' = [made EXCEPT ![r] = result]
        /\ started' = [started EXCEPT ![r] = time]
        /\ IF out = Stdout
           THEN step' = [step EXCEPT ![r] = "ended"] /\ UNCHANGED <<path, replaced>>
           ELSE /\ step' = [step EXCEPT ![r] = "writing"]
                /\ path' = [path EXCEPT ![out] = Unparsed("empty")]
                /\ replaced' = replaced \cup Overwritten(out, r)
        /\ UNCHANGED <<process, got, time>>

(* An error of the computation: nothing is written. *)
Reject(r, wrong) ==
    /\ Ready(r) /\ wrong
    /\ step' = [step EXCEPT ![r] = "failed"]
    /\ UNCHANGED <<process, path, got, made, time, started, replaced>>

-------------------------------------------------------------------------------
(* The commands. *)

(* The did is printed before the secret is written. *)
Keygen(r) == job[r].cmd = "keygen" /\ Emit(r, Parsed("secret", r))

(* Mutant of Issue: the end of the validity is left out. *)
IssueOpen(r) ==
    /\ job[r].cmd = "issue"
    /\ Emit(r, Parsed("claim", IssueClaim(job[r].subject, got[r][1], "employment", "v1", time,
                                          OpenEnd, job[r].body, {})))

Issue(r) ==
    /\ job[r].cmd = "issue"
    /\ Emit(r, Parsed("claim", IssueClaim(job[r].subject, got[r][1], "employment", "v1", time,
                                          job[r].until, job[r].body, {})))

(* --valid-until is a field of the body; the claim itself has no end. *)
IssueCheck(r) ==
    /\ job[r].cmd = "issue-check"
    /\ Emit(r, Parsed("claim", IssueClaim(job[r].subject, got[r][1], "background_check", "v1",
                                          time, OpenEnd, job[r].body, {})))

Claims(r) == Tail(got[r])

(* Mutant of SelectorOf: entries are taken in the order of the claims. *)
SelectorByPlace(r, i) ==
    IF i \in DOMAIN named[r] THEN named[r][i].keys ELSE AllFields

(* A later entry for an id replaces an earlier; without one all is shown. *)
LookUp(entries, id) ==
    LET mine == SelectLastInSeq(entries, LAMBDA e : e.claim_id = id)
    IN  IF mine = 0 THEN AllFields ELSE entries[mine].keys

SelectorOf(r, i) == LookUp(named[r], Claims(r)[i].claim_id)

UnknownKey(r) ==
    \E i \in DOMAIN Claims(r) :
        LET keys == SelectorOf(r, i)
        IN  keys # AllFields /\ ~(keys \subseteq DOMAIN Claims(r)[i].body_root)

PresentFiles(r) ==
    /\ job[r].cmd = "present" /\ Ready(r)
    /\ \/ Reject(r, UnknownKey(r))
       \/ /\ ~UnknownKey(r)
          /\ Emit(r, Parsed("presentation",
                 BuildFor(got[r][1], job[r].audience, r, time, job[r].expires_in,
                          [i \in DOMAIN Claims(r) |-> DiscloseBy(Claims(r)[i], SelectorOf(r, i))])))

KnownIssuers(j) ==
    [issuers |-> j.issuer_keys, required |-> {}, accredited |-> {},
     revoked |-> {}, unresolvable |-> {}]

VerifyFile(r) ==
    /\ job[r].cmd = "verify"
    /\ Emit(r, Parsed("verdict", Accepts(FailedChecks(got[r][1], job[r].audience, time,
                                                      KnownIssuers(job[r]), FALSE,
                                                      job[r].predicates))))

(* Every issuer's key is needed to name the credentials' methods. *)
ExportFile(r) ==
    LET resolved == \A c \in Range(got[r][1].claims) : c.issuer_id \in job[r].issuer_keys
    IN  /\ job[r].cmd = "export-vp" /\ Ready(r)
        /\ Reject(r, ~resolved) \/ (resolved /\ Emit(r, Parsed("vp", got[r][1])))

(* The holder's key binds and every credential is authentic, or none pass. *)
ImportFile(r) ==
    LET p == got[r][1]
        proven == p.subject_key = p.subject_id /\ \A c \in Range(p.claims) : Authentic(c)
    IN  /\ job[r].cmd = "import-vp" /\ Ready(r)
        /\ Reject(r, ~proven) \/ (proven /\ Emit(r, Parsed("presentation", p)))

(* Whatever key is given, the credential names it. *)
ExportCredential(r) ==
    /\ job[r].cmd = "export-vc"
    /\ Emit(r, Parsed("vc", [method |-> job[r].issuer_key, disclosed |-> got[r][1]]))

(* The key must be the issuer's, and the disclosure authentic. *)
ImportCredential(r) ==
    LET d == got[r][1].disclosed
        proven == got[r][1].method = d.issuer_id /\ Authentic(d)
    IN  /\ job[r].cmd = "import-vc" /\ Ready(r)
        /\ Reject(r, ~proven) \/ (proven /\ Emit(r, Parsed("disclosed", d)))

-------------------------------------------------------------------------------
(* Over an emptied file the text is whole.  Over another writer's text it is *)
(* that of the longer one, or none; secrets are all of one length.           *)
WriteOut(r) ==
    LET f == job[r].out
    IN  /\ step[r] = "writing"
        /\ path' \in {[path EXCEPT ![f] = text] :
                         text \in IF path[f].kind = "empty" \/ Made(r, "secret") THEN {made[r]}
                                  ELSE {made[r], Unparsed("broken")}}
        /\ step' = [step EXCEPT ![r] = "ended"]
        /\ replaced' = replaced \cup Overwritten(f, r)
        /\ UNCHANGED <<process, got, made, time, started>>

(* A process that ends early may leave part of its text. *)
StopCommand(r) ==
    LET f == job[r].out
        part == IF path[f].kind = "secret" THEN Parsed("secret", MixedKey) ELSE Unparsed("broken")
    IN  /\ r \in Busy
        /\ step' = [step EXCEPT ![r] = "failed"]
        /\ \/ UNCHANGED <<path, replaced>>
           \/ /\ step[r] = "writing" /\ path' = [path EXCEPT ![f] = part]
              /\ replaced' = replaced \cup Overwritten(f, r)
        /\ UNCHANGED <<process, got, made, time, started>>

TimePasses ==
    /\ time < MaxTime /\ time' = time + 1
    /\ UNCHANGED <<process, path, step, got, made, started, replaced>>

CmdNext ==
    \/ TimePasses
    \/ \E r \in DOMAIN job :
          \/ BeginCommand(r) \/ ReadNext(r)
          \/ Keygen(r) \/ Issue(r) \/ IssueCheck(r) \/ PresentFiles(r) \/ VerifyFile(r)
          \/ ExportFile(r) \/ ImportFile(r) \/ ExportCredential(r) \/ ImportCredential(r)
          \/ WriteOut(r) \/ StopCommand(r)

CmdSpec == CmdInit /\ [][CmdNext]_cmdVars

-------------------------------------------------------------------------------
(* Properties. *)

(* One of the issuing commands made this claim, for this subject, with a key *)
(* the verifier knows, and for this time.                                    *)
Vouched(c, holder, v) ==
    \E r \in Invocation :
        /\ Made(r, "claim") /\ made[r].value.claim_id = c.claim_id
        /\ Disclose(made[r].value, DOMAIN c.fields) = c
        /\ got[r][1] \in job[v].issuer_keys /\ job[r].subject = holder
        /\ started[r] <= started[v]
        /\ job[r].cmd = "issue" => job[r].until = OpenEnd \/ started[v] <= job[r].until

(* `verify` says ACCEPTED exactly if the invocations behind the file say so: *)
(* one that holds the key of a keygen presented, to this verifier, not       *)
(* longer ago than it allowed, claims that others issued to that key and     *)
(* that settle what was asked.  Files that were overwritten meanwhile, keys  *)
(* that were drawn anew, processes that stopped and texts that mixed change  *)
(* what is read, never what it means; and what comes out of a credential is  *)
(* what went in, under its issuer's key (main.rs:329-372, 427-477, 526-550). *)
VerdictIsEarned ==
    /\ \A v \in Invocation : Made(v, "verdict") =>
          LET p == got[v][1]
              by == p.nonce
          IN  /\ made[by] = Parsed("presentation", p)
              /\ made[v].value <=>
                    /\ job[by].audience = job[v].audience
                    /\ started[v] - started[by] \in 0..job[by].expires_in
                    /\ \A c \in Range(p.claims) : Vouched(c, got[by][1], v)
                    /\ \A req \in job[v].predicates : \E c \in Range(p.claims) : Settles(req, c)
    /\ \A v \in Invocation : Made(v, "disclosed") =>
          \E e \in DOMAIN job :
              /\ Made(e, "vc") /\ got[e][1] = made[v].value
              /\ job[e].issuer_key = made[v].value.issuer_id

(* A claim that is named by --reveal shows the fields of its last entry, and *)
(* an entry misses its claim, so that every field is shown, only if another  *)
(* invocation wrote to the input files after the user had seen the id        *)
(* (main.rs:345-356, 414-425).                                               *)
RevealIsKept ==
    \A r \in Invocation : Made(r, "presentation") /\ job[r].cmd = "present" =>
        \A i \in DOMAIN made[r].value.claims :
            LET c == made[r].value.claims[i]
                mine == {e \in DOMAIN named[r] : named[r][e].claim_id = c.claim_id}
            IN  /\ mine # {} =>
                      \E e \in mine : DOMAIN c.fields = named[r][e].keys /\ \A x \in mine : x <= e
                /\ (\E e \in Range(job[r].reveal) : e.of = i + 1) /\ r \notin replaced => mine # {}

(* What the documents say of checks: an expired background check fails the   *)
(* validity step (TRUST-MODEL.md:97-98).                                     *)
ExpiredCheckFails ==
    \A v \in Invocation : Made(v, "verdict") /\ made[v].value =>
        \A c \in Range(got[v][1].claims) :
            "valid_until" \in DOMAIN c.body_root => started[v] <= c.body_root.valid_until.rank
===============================================================================
