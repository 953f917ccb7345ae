-------------------------------- MODULE WebDemo --------------------------------
(****************************************************************************)
(* The web demo (aion-trust-web): one world behind one mutex, the form      *)
(* handlers of its three surfaces, and the scripted walkthrough, a task     *)
(* that takes the lock once per act and sleeps in between.                  *)
(*                                                                          *)
(* A handler holds the lock from its first read to its last write, so it is *)
(* one step.  `app` is AppState.  Every identifier the code draws at random *)
(* (a claim id through its salt, a nonce) is the next number of `drawn`; a  *)
(* reset draws new keys, so it begins another `world`.                      *)
(*                                                                          *)
(* The seeded issuers are accredited 2-of-2 from the start epoch without    *)
(* end, and every form names a category one of them may attest: that check  *)
(* never fails here.  Presentations outlive the demo.                       *)
(****************************************************************************)
EXTENDS Integers, Sequences, FiniteSets, Functions

CONSTANTS
    Script,     \* the walkthrough tasks
    Seeded,     \* the contents of the claims a fresh wallet holds, in order
    Issuable,   \* the contents the issue forms may attest
    Request,    \* predicates on a field of a category
    MaxVisits   \* bound on the visitors' requests

(* A content is a category, its fields and the predicates its values meet. *)
ASSUME WebAssumption ==
    /\ Seeded \in Seq(Range(Seeded)) /\ Len(Seeded) > 0 /\ MaxVisits \in Nat
    /\ \A c \in Range(Seeded) \cup Issuable : c.meets \subseteq Request

VARIABLES
    app,
    drawn,         \* how many identifiers have been drawn
    pc, followed,  \* a script's next act and the claim it follows
    shown,         \* the verdicts a script has shown its viewer
    log,           \* history: the presentations accepted, in order
    undisturbed,   \* history: scripts nobody else interfered with so far
    visits         \* how many requests visitors have made

scriptVars == <<pc, followed, shown>>
webVars == <<app, drawn, scriptVars, log, undisturbed, visits>>

None == [nonce |-> 0]

START_EPOCH == 1

-------------------------------------------------------------------------------
(* The world. *)

Seed(world) ==
    [world |-> world, epoch |-> START_EPOCH, registry_epoch |-> START_EPOCH,
     revoked |-> [id \in {} |-> 0],
     wallet |-> [i \in DOMAIN Seeded |-> [id |-> drawn + i, content |-> Seeded[i]]],
     nonces |-> {}, last_presentation |-> None]

(* Mutant of Reset: the pending presentation survives. *)
ResetKeepsPending ==
    /\ app' = [Seed(app.world + 1) EXCEPT !.last_presentation = app.last_presentation]
    /\ drawn' = drawn + Len(Seeded)

Reset ==
    /\ app' = Seed(app.world + 1)
    /\ drawn' = drawn + Len(Seeded)

Held == Range(app.wallet)

HeldIds == {c.id : c \in Held}

(* Mutant of Revoke: the withdrawal takes effect with the next epoch. *)
RevokeLater(id) ==
    app' = [app EXCEPT !.revoked =
               [j \in DOMAIN @ \cup {id} |-> IF j = id THEN app.epoch + 1 ELSE @[j]]]

Revoke(id) ==
    app' = [app EXCEPT !.revoked =
               [j \in DOMAIN @ \cup {id} |-> IF j = id THEN app.epoch ELSE @[j]]]

AdvanceEpoch ==
    app' = [app EXCEPT !.epoch = @ + 1, !.registry_epoch = app.epoch + 1]

Issue(content) ==
    /\ app' = [app EXCEPT !.wallet = Append(@, [id |-> drawn + 1, content |-> content])]
    /\ drawn' = drawn + 1

-------------------------------------------------------------------------------
(* The wallet's surface.  `checked` is a history: the claims and fields the  *)
(* visitor ticked.                                                           *)

Showing(c, fields) == [id |-> c.id, content |-> c.content, fields |-> fields]

InFull(c) == Showing(c, c.content.fields)

Pairs(claims) == UNION {{<<c.id, f>> : f \in c.fields} : c \in claims}

Stash(claims, checked) ==
    /\ app' = [app EXCEPT !.last_presentation =
                  [nonce |-> drawn + 1, world |-> app.world, claims |-> claims,
                   checked |-> checked]]
    /\ drawn' = drawn + 1

(* No box ticked is an empty list, which present_all takes for every claim. *)
Present(ids) ==
    LET chosen == {InFull(c) : c \in {d \in Held : d.id \in ids}}
    IN  /\ ids \subseteq HeldIds
        /\ Stash(IF ids = {} THEN {InFull(c) : c \in Held} ELSE chosen, Pairs(chosen))

(* No field ticked is FieldSelector::All. *)
Disclose(c, fields) ==
    Stash({Showing(c, IF fields = {} THEN c.content.fields ELSE fields)},
          {c.id} \X fields)

Answers(req, c) == c.content.category = req.category /\ req \in c.content.meets

(* Each request is answered by the first claim that can, showing one field.  *)
(* The answer is what was asked for: it counts as ticked.                    *)
Satisfy(reqs) ==
    LET candidates(req) == {i \in DOMAIN app.wallet : Answers(req, app.wallet[i])}
        first(req) == CHOOSE i \in candidates(req) : \A j \in candidates(req) : i <= j
        claims == {Showing(app.wallet[first(req)], {req.field}) : req \in reqs}
    IN  /\ \A req \in reqs : candidates(req) # {}
        /\ Stash(claims, Pairs(claims))

-------------------------------------------------------------------------------
(* The verifier's surface. *)

Frozen == [app EXCEPT !.registry_epoch = app.epoch]

Withdrawn(a, id) == id \in DOMAIN a.revoked /\ a.revoked[id] <= a.registry_epoch

Settles(req, c) == Answers(req, c) /\ req.field \in c.fields

(* Mutant of Accepts: the nonce store is not consulted. *)
AcceptsAgain(a, p, reqs) ==
    /\ p.world = a.world
    /\ p.claims # {} /\ \A c \in p.claims : ~Withdrawn(a, c.id)
    /\ \A req \in reqs : \E c \in p.claims : Settles(req, c)

Accepts(a, p, reqs) ==
    /\ p.world = a.world /\ p.nonce \notin a.nonces
    /\ p.claims # {} /\ \A c \in p.claims : ~Withdrawn(a, c.id)
    /\ \A req \in reqs : \E c \in p.claims : Settles(req, c)

(* Whether the pending presentation, if any, is accepted. *)
Green(reqs) ==
    /\ app.last_presentation # None
    /\ Accepts(Frozen, app.last_presentation, reqs)

VerifyPending(reqs) ==
    /\ app' = IF app.last_presentation = None THEN app
              ELSE IF Green(reqs)
              THEN [Frozen EXCEPT !.nonces = @ \cup {app.last_presentation.nonce}]
              ELSE Frozen
    /\ log' = IF Green(reqs) THEN Append(log, app.last_presentation) ELSE log

-------------------------------------------------------------------------------
(* Visitors. *)

(* Requests that change nothing (a form that names a claim of an earlier     *)
(* world, a predicate no claim meets) are no steps.                          *)
Visit ==
    /\ visits < MaxVisits
    /\ visits' = visits + 1
    /\ undisturbed' = {}
    /\ UNCHANGED scriptVars
    /\ \/ Reset /\ UNCHANGED log
       \/ \E content \in Issuable : Issue(content) /\ UNCHANGED log
       \/ \E id \in HeldIds \cup Range(followed) : Revoke(id) /\ UNCHANGED <<drawn, log>>
       \/ AdvanceEpoch /\ UNCHANGED <<drawn, log>>
       \/ \E ids \in SUBSET HeldIds : Present(ids) /\ UNCHANGED log
       \/ \E c \in Held : \E fields \in SUBSET c.content.fields :
             Disclose(c, fields) /\ UNCHANGED log
       \/ \E reqs \in SUBSET Request : Satisfy(reqs) /\ UNCHANGED log
       \/ \E reqs \in SUBSET Request : VerifyPending(reqs) /\ UNCHANGED drawn

-------------------------------------------------------------------------------
(* The walkthrough. *)

Act(s, from, to) == pc[s] = from /\ pc' = [pc EXCEPT ![s] = to] /\ UNCHANGED visits

Undisturbed(s) == undisturbed' = undisturbed \cap {s}

ScriptStart(s) ==
    /\ Act(s, "idle", "presenting")
    /\ Reset
    /\ followed' = [followed EXCEPT ![s] = app'.wallet[1].id]
    /\ undisturbed' = {s}
    /\ UNCHANGED <<shown, log>>

(* Mutant of ScriptPresent: the script gives up when the claim is gone. *)
PresentOrGiveUp(s) ==
    /\ \/ Act(s, "presenting", "verifying")
       \/ Act(s, "representing", "reverifying")
    /\ \E c \in Held : c.id = followed[s] /\ Stash({InFull(c)}, Pairs({InFull(c)}))
    /\ Undisturbed(s)
    /\ UNCHANGED <<followed, shown, log>>

(* A claim that is gone is passed over in silence. *)
ScriptPresent(s) ==
    /\ \/ Act(s, "presenting", "verifying")
       \/ Act(s, "representing", "reverifying")
    /\ IF followed[s] \in HeldIds
       THEN \E c \in Held : c.id = followed[s] /\ Stash({InFull(c)}, Pairs({InFull(c)}))
       ELSE UNCHANGED <<app, drawn>>
    /\ Undisturbed(s)
    /\ UNCHANGED <<followed, shown, log>>

ScriptVerify(s) ==
    /\ \/ Act(s, "verifying", "revoking")
       \/ Act(s, "reverifying", "closing")
    /\ VerifyPending({})
    /\ shown' = [shown EXCEPT ![s] = Append(@, Green({}))]
    /\ Undisturbed(s)
    /\ UNCHANGED <<drawn, followed>>

ScriptRevoke(s) ==
    /\ Act(s, "revoking", "representing")
    /\ Revoke(followed[s])
    /\ Undisturbed(s)
    /\ UNCHANGED <<drawn, followed, shown, log>>

ScriptDone(s) ==
    /\ Act(s, "closing", "done")
    /\ UNCHANGED <<app, drawn, followed, shown, log, undisturbed>>

ScriptGoesOn(s) == ScriptPresent(s) \/ ScriptVerify(s) \/ ScriptRevoke(s) \/ ScriptDone(s)

-------------------------------------------------------------------------------
WebInit ==
    /\ drawn = Len(Seeded)
    /\ app = [world |-> 1, epoch |-> START_EPOCH, registry_epoch |-> START_EPOCH,
              revoked |-> [id \in {} |-> 0],
              wallet |-> [i \in DOMAIN Seeded |-> [id |-> i, content |-> Seeded[i]]],
              nonces |-> {}, last_presentation |-> None]
    /\ pc = [s \in Script |-> "idle"]
    /\ followed = [s \in Script |-> 0]
    /\ shown = [s \in Script |-> <<>>]
    /\ log = <<>> /\ undisturbed = {} /\ visits = 0

WebNext == Visit \/ \E s \in Script : ScriptStart(s) \/ ScriptGoesOn(s)

(* A script that was started goes on: its task only sleeps for a fixed time  *)
(* and takes a lock that every holder gives back without waiting.  Nobody    *)
(* has to visit.                                                             *)
WebSpec ==
    WebInit /\ [][WebNext]_webVars /\ \A s \in Script : WF_webVars(ScriptGoesOn(s))

-------------------------------------------------------------------------------
(* Properties. *)

(* All parts of the world belong together, whoever resets it when: the       *)
(* pending presentation was built from this wallet for this employer, no     *)
(* revocation lies ahead of the epoch, the registry answers at the epoch the *)
(* page shows, and every claim has an id of its own, however often the same  *)
(* form is sent in the same second (state.rs:110-112, issuer.rs:58-99).      *)
OneWorld ==
    /\ app.registry_epoch = app.epoch
    /\ Cardinality(HeldIds) = Len(app.wallet)
    /\ \A id \in DOMAIN app.revoked : app.revoked[id] <= app.epoch
    /\ app.last_presentation # None =>
          /\ app.last_presentation.world = app.world
          /\ {c.id : c \in app.last_presentation.claims} \subseteq HeldIds

(* No presentation is shown as accepted twice, to visitors or to the viewers *)
(* of a walkthrough, although it stays pending after its verdict             *)
(* (verifier.rs:55-73, walkthrough.rs:174-180).                              *)
AcceptedOnce ==
    \A i, j \in DOMAIN log : log[i].nonce = log[j].nonce => i = j

(* Once anybody has revoked a claim, no verdict accepts it until the world   *)
(* is reset, at whatever epoch and in whatever order the acts of several     *)
(* scripts and visitors fall (issuer.rs:83-89, walkthrough.rs:198-203).      *)
RevokedStaysRed ==
    [][log' # log =>
          \A c \in log'[Len(log')].claims : c.id \notin DOMAIN app.revoked]_webVars

(* A walkthrough nobody interferes with shows what its header announces:     *)
(* first green, then red (walkthrough.rs:2, 112-142).                        *)
UndisturbedTurnsRed ==
    \A s \in undisturbed : pc[s] = "done" => shown[s] = <<TRUE, FALSE>>

(* Every walkthrough that starts tells its viewer that it is done, whatever  *)
(* others do to its world: a claim that is gone, a missing presentation and  *)
(* an unexpected verdict are all played over (walkthrough.rs:71-150).        *)
ScriptEnds == \A s \in Script : pc[s] = "presenting" ~> pc[s] = "done"

(* What the header of the walkthrough says without reservation: verify       *)
(* (green), revoke, re-present, verify (red) (walkthrough.rs:2).             *)
ScriptTurnsRed == \A s \in Script : pc[s] = "done" => shown[s] = <<TRUE, FALSE>>

(* What the wallet's handlers say: the checked claims, only the checked      *)
(* fields (wallet.rs:31, 57).                                                *)
OnlyCheckedShown ==
    app.last_presentation # None =>
        Pairs(app.last_presentation.claims) \subseteq app.last_presentation.checked
===============================================================================
