----------------------------- MODULE WebDemoProofs -----------------------------
(****************************************************************************)
(* What the web demo's world keeps, for every set of scripts, contents,     *)
(* predicates and number of visits.                                         *)
(*                                                                          *)
(* The counter of drawn identifiers carries the argument: every claim id in *)
(* the wallet and every nonce in use is one drawn before, so what is drawn  *)
(* next is new.  An accepted nonce that is the pending one's is remembered, *)
(* which keeps it from being accepted again.  A script that nobody          *)
(* interferes with finds, at each of its acts, what its last act left.      *)
(****************************************************************************)
EXTENDS WebDemo, FiniteSetTheorems, TLAPS

-------------------------------------------------------------------------------
(* The inductive invariant. *)

AppFields == {"world", "epoch", "registry_epoch", "revoked", "wallet", "nonces",
              "last_presentation"}

Card == [id : Nat, content : Range(Seeded) \cup Issuable]

HeldIn(w, id) == \E i \in DOMAIN w : w[i].id = id

(* The wallet's claims have ids of their own, drawn before. *)
WalletOK ==
    /\ app.wallet \in Seq(Card)
    /\ \A i, j \in DOMAIN app.wallet : app.wallet[i].id = app.wallet[j].id => i = j
    /\ \A i \in DOMAIN app.wallet : app.wallet[i].id <= drawn

(* The registry answers at the epoch shown, and no revocation lies ahead. *)
EpochOK ==
    /\ app.epoch \in Nat /\ app.registry_epoch = app.epoch
    /\ \A id \in DOMAIN app.revoked : app.revoked[id] \in Nat /\ app.revoked[id] <= app.epoch

PendingOK ==
    app.last_presentation # None =>
        /\ app.last_presentation.nonce \in Nat /\ app.last_presentation.nonce <= drawn
        /\ app.last_presentation.world = app.world
        /\ \A c \in app.last_presentation.claims : HeldIn(app.wallet, c.id)

(* The nonces of this world, and of the acceptances of all, were drawn; what *)
(* was accepted and is still pending is remembered.                          *)
LogOK ==
    /\ \A n \in app.nonces : n \in Nat /\ n <= drawn
    /\ log \in Seq(Range(log))
    /\ \A i \in DOMAIN log : log[i].nonce \in Nat /\ log[i].nonce <= drawn
    /\ \A i, j \in DOMAIN log : log[i].nonce = log[j].nonce => i = j
    /\ \A i \in DOMAIN log :
          app.last_presentation # None /\ log[i].nonce = app.last_presentation.nonce
              => log[i].nonce \in app.nonces

WorldInv ==
    /\ drawn \in Nat /\ DOMAIN app = AppFields
    /\ WalletOK /\ EpochOK /\ PendingOK /\ LogOK

Acts == {"idle", "presenting", "verifying", "revoking", "representing", "reverifying",
         "closing", "done"}

(* The pending presentation shows what script s follows. *)
PendingIsOf(s) ==
    /\ app.last_presentation # None
    /\ \E c \in app.last_presentation.claims : c.id = followed[s]
    /\ \A c \in app.last_presentation.claims : c.id = followed[s]

(* What a script that nobody interfered with finds at its next act. *)
OnTrack(s) ==
    /\ pc[s] # "idle"
    /\ pc[s] \in {"presenting", "verifying"} => followed[s] \notin DOMAIN app.revoked
    /\ pc[s] \in {"presenting", "verifying", "revoking", "representing"} =>
          HeldIn(app.wallet, followed[s])
    /\ pc[s] = "verifying" =>
          PendingIsOf(s) /\ app.last_presentation.nonce \notin app.nonces
    /\ pc[s] \in {"revoking", "representing", "reverifying"} => shown[s] = <<TRUE>>
    /\ pc[s] \in {"representing", "reverifying"} => followed[s] \in DOMAIN app.revoked
    /\ pc[s] = "reverifying" => PendingIsOf(s)
    /\ pc[s] \in {"closing", "done"} => shown[s] = <<TRUE, FALSE>>

ScriptsOK ==
    /\ pc \in [Script -> Acts] /\ DOMAIN followed = Script /\ DOMAIN shown = Script
    /\ undisturbed \subseteq Script
    /\ \A s \in Script : pc[s] \in {"idle", "presenting", "verifying"} => shown[s] = <<>>
    /\ \A s \in undisturbed : OnTrack(s)

WebInv == WorldInv /\ ScriptsOK

-------------------------------------------------------------------------------
(* What the invariant says of the properties. *)

LEMMA HeldIdsAre == \A id : id \in HeldIds <=> HeldIn(app.wallet, id)
  BY DEF HeldIds, Held, HeldIn, Range

LEMMA IdsAreDrawn ==
  ASSUME WorldInv PROVE \A i \in DOMAIN app.wallet : app.wallet[i].id \in Nat
                                                     /\ app.wallet[i].id <= drawn
  <1> DEFINE w == app.wallet
  <1>1. w \in Seq(Card)
    BY DEF WorldInv, WalletOK
  <1>2. \A i \in DOMAIN w : w[i].id <= drawn
    BY DEF WorldInv, WalletOK
  <1> HIDE DEF w
  <1>3. \A i \in DOMAIN w : w[i] \in Card
    BY <1>1
  <1>4. \A c \in Card : c.id \in Nat
    BY DEF Card
  <1>5. QED
    BY <1>2, <1>3, <1>4 DEF w

LEMMA OneWorldOfInv == WorldInv => OneWorld
  <1> SUFFICES ASSUME WorldInv PROVE OneWorld
    OBVIOUS
  <1> DEFINE n == Len(app.wallet)
             f == [i \in 1..n |-> app.wallet[i].id]
  <1>1. n \in Nat /\ DOMAIN app.wallet = 1..n
    BY DEF WorldInv, WalletOK
  <1>2. f \in Surjection(1..n, HeldIds)
    <2>1. f \in [1..n -> HeldIds]
      BY <1>1, HeldIdsAre DEF HeldIn
    <2>2. \A id \in HeldIds : \E i \in 1..n : f[i] = id
      BY <1>1, HeldIdsAre DEF HeldIn
    <2> HIDE DEF f
    <2>3. QED
      BY <2>1, <2>2 DEF Surjection
  <1>3. f \in Injection(1..n, HeldIds)
    <2>1. f \in [1..n -> HeldIds]
      BY <1>2 DEF Surjection
    <2>2. \A i, j \in 1..n : f[i] = f[j] => i = j
      BY <1>1 DEF WorldInv, WalletOK
    <2>3. DOMAIN f = 1..n
      OBVIOUS
    <2> HIDE DEF f
    <2>4. QED
      BY <2>1, <2>2, <2>3 DEF Injection, IsInjective
  <1>4. Cardinality(HeldIds) = n
    <2>1. IsFiniteSet(1..n) /\ Cardinality(1..n) = n
      BY <1>1, FS_Interval
    <2>2. QED
      BY <1>2, <1>3, <2>1, FS_Surjection
  <1>5. app.last_presentation # None =>
          /\ app.last_presentation.world = app.world
          /\ {c.id : c \in app.last_presentation.claims} \subseteq HeldIds
    BY HeldIdsAre DEF WorldInv, PendingOK
  <1>6. QED
    BY <1>4, <1>5 DEF WorldInv, EpochOK, OneWorld

LEMMA WebInvInit == WebInit => WebInv
  <1> SUFFICES ASSUME WebInit PROVE WebInv
    OBVIOUS
  <1> DEFINE w == [i \in DOMAIN Seeded |-> [id |-> i, content |-> Seeded[i]]]
  <1>1. /\ drawn = Len(Seeded) /\ log = <<>> /\ undisturbed = {}
        /\ DOMAIN app = AppFields
        /\ app.epoch = START_EPOCH /\ app.registry_epoch = START_EPOCH
        /\ DOMAIN app.revoked = {} /\ app.nonces = {} /\ app.last_presentation = None
        /\ app.wallet = w
    BY DEF WebInit, AppFields
  <1>2. Len(Seeded) \in Nat /\ DOMAIN Seeded = 1..Len(Seeded)
        /\ \A i \in DOMAIN Seeded : Seeded[i] \in Range(Seeded)
    BY WebAssumption DEF Range
  <1>3. w \in Seq(Card) /\ DOMAIN w = 1..Len(Seeded) /\ \A i \in DOMAIN w : w[i].id = i
    BY <1>2 DEF Card
  <1> HIDE DEF w
  <1>4. WalletOK
    BY <1>1, <1>2, <1>3 DEF WalletOK
  <1>5. EpochOK /\ PendingOK
    BY <1>1 DEF EpochOK, PendingOK, START_EPOCH
  <1>6. LogOK
    BY <1>1 DEF LogOK
  <1>7. ScriptsOK
    <2>1. pc = [s \in Script |-> "idle"] /\ followed = [s \in Script |-> 0]
          /\ shown = [s \in Script |-> <<>>]
      BY DEF WebInit
    <2>2. QED
      BY <1>1, <2>1 DEF ScriptsOK, Acts
  <1>8. QED
    BY <1>1, <1>2, <1>4, <1>5, <1>6, <1>7 DEF WebInv, WorldInv

-------------------------------------------------------------------------------
(* The world's steps. *)

(* A set of natural numbers has a least one. *)
LEMMA LeastExists ==
  ASSUME NEW S \in SUBSET Nat, S # {}
  PROVE  \E i \in S : \A j \in S : i <= j
  <1> DEFINE Less == {ss \in Nat \X Nat : ss[1] < ss[2]}
  <1>1. Less = OpToRel(<, Nat)
    BY DEF OpToRel
  <1>2. IsWellFoundedOn(Less, Nat)
    BY <1>1, NatLessThanWellFounded
  <1> HIDE DEF Less
  <1>3. PICK i \in S : \A j \in S : ~(<<j, i>> \in Less)
    BY <1>2, WFMin
  <1>4. ASSUME NEW j \in S PROVE i <= j
    <2>1. <<j, i>> \in Nat \X Nat /\ <<j, i>> \notin Less
      BY <1>3
    <2>2. QED
      BY <2>1 DEF Less
  <1>5. QED
    BY <1>4

(* A new world: its claims are drawn now, and nothing is revoked, consumed   *)
(* or pending.                                                               *)
LEMMA ResetWorld ==
  ASSUME WorldInv, Reset, UNCHANGED log
  PROVE  /\ WorldInv'
         /\ DOMAIN app'.revoked = {} /\ HeldIn(app'.wallet, app'.wallet[1].id)
  <1> DEFINE w == [i \in DOMAIN Seeded |-> [id |-> drawn + i, content |-> Seeded[i]]]
             n == Len(Seeded)
  <1>1. /\ DOMAIN app' = AppFields
        /\ app'.epoch = START_EPOCH /\ app'.registry_epoch = START_EPOCH
        /\ DOMAIN app'.revoked = {} /\ app'.nonces = {} /\ app'.last_presentation = None
        /\ app'.wallet = w /\ drawn' = drawn + n
    BY DEF Reset, Seed, AppFields
  <1>2. /\ n \in Nat /\ n > 0 /\ DOMAIN Seeded = 1..n /\ drawn \in Nat
        /\ \A i \in 1..n : Seeded[i] \in Range(Seeded)
    BY WebAssumption DEF Range, WorldInv
  <1>3. DOMAIN w = 1..n /\ \A i \in 1..n : w[i].id = drawn + i /\ w[i] \in Card
    BY <1>2 DEF Card
  <1>4. w \in Seq(Card)
    BY <1>2, <1>3
  <1> HIDE DEF w, n
  <1>5. WalletOK'
    BY <1>1, <1>2, <1>3, <1>4 DEF WalletOK
  <1>6. EpochOK' /\ PendingOK'
    BY <1>1 DEF EpochOK, PendingOK, START_EPOCH
  <1>7. LogOK'
    BY <1>1, <1>2 DEF WorldInv, LogOK
  <1>8. HeldIn(app'.wallet, app'.wallet[1].id)
    BY <1>1, <1>2, <1>3 DEF HeldIn
  <1>9. QED
    BY <1>1, <1>2, <1>5, <1>6, <1>7, <1>8 DEF WorldInv

LEMMA IssueWorld ==
  ASSUME WorldInv, NEW content \in Issuable, Issue(content), UNCHANGED log
  PROVE  WorldInv'
  <1> DEFINE card == [id |-> drawn + 1, content |-> content]
             w == app.wallet
             n == Len(app.wallet)
  <1>1. card \in Card /\ card.id = drawn + 1 /\ drawn \in Nat /\ DOMAIN app = AppFields
    BY DEF Card, WorldInv
  <1> HIDE DEF card
  <1>2. app' = [app EXCEPT !.wallet = Append(w, card)] /\ drawn' = drawn + 1
    BY DEF Issue, card
  <1>3. w \in Seq(Card) /\ n \in Nat /\ DOMAIN w = 1..n
    BY DEF WorldInv, WalletOK
  <1> HIDE DEF w
  <1>4. /\ DOMAIN app' = AppFields /\ app'.wallet = Append(w, card)
        /\ app'.world = app.world /\ app'.epoch = app.epoch
        /\ app'.registry_epoch = app.registry_epoch /\ app'.revoked = app.revoked
        /\ app'.nonces = app.nonces /\ app'.last_presentation = app.last_presentation
    BY <1>1, <1>2 DEF AppFields
  <1>5. /\ app'.wallet \in Seq(Card) /\ DOMAIN app'.wallet = 1..n + 1
        /\ \A i \in 1..n : app'.wallet[i] = w[i]
        /\ app'.wallet[n + 1] = card
    BY <1>1, <1>3, <1>4 DEF w
  <1>6. \A i \in 1..n : w[i].id \in Nat /\ w[i].id <= drawn
    BY <1>3, IdsAreDrawn DEF w
  <1>7. WalletOK'
    <2>1. ASSUME NEW i \in 1..n + 1
          PROVE  app'.wallet[i].id <= drawn' /\ (i # n + 1 => app'.wallet[i].id <= drawn)
      BY <1>1, <1>2, <1>3, <1>5, <1>6
    <2>2. ASSUME NEW i \in 1..n + 1, NEW j \in 1..n + 1, app'.wallet[i].id = app'.wallet[j].id
          PROVE  i = j
      <3>1. CASE i # n + 1 /\ j # n + 1
        <4>1. i \in 1..n /\ j \in 1..n
          BY <1>3, <3>1
        <4>2. QED
          BY <1>3, <1>5, <2>2, <4>1 DEF WorldInv, WalletOK, w
      <3>2. CASE i = n + 1 \/ j = n + 1
        BY <1>1, <1>5, <2>1, <2>2, <3>2
      <3>3. QED
        BY <3>1, <3>2
    <2>3. QED
      BY <1>5, <2>1, <2>2 DEF WalletOK
  <1>8. \A id : HeldIn(w, id) => HeldIn(app'.wallet, id)
    BY <1>3, <1>5 DEF HeldIn
  <1>9. EpochOK' /\ LogOK'
    BY <1>1, <1>2, <1>4 DEF WorldInv, EpochOK, LogOK
  <1>10. PendingOK'
    BY <1>1, <1>2, <1>4, <1>8 DEF WorldInv, PendingOK, w
  <1>11. QED
    BY <1>1, <1>2, <1>4, <1>7, <1>9, <1>10 DEF WorldInv

(* Withdrawn as of now. *)
LEMMA RevokeWorld ==
  ASSUME WorldInv, NEW id, Revoke(id), UNCHANGED <<drawn, log>>
  PROVE  /\ WorldInv'
         /\ id \in DOMAIN app'.revoked
         /\ app'.wallet = app.wallet /\ app'.last_presentation = app.last_presentation
  <1> DEFINE r == [j \in DOMAIN app.revoked \cup {id} |->
                      IF j = id THEN app.epoch ELSE app.revoked[j]]
  <1>1. \A j \in DOMAIN r : r[j] \in Nat /\ r[j] <= app.epoch
    BY DEF WorldInv, EpochOK
  <1>2. id \in DOMAIN r
    OBVIOUS
  <1>3. app' = [app EXCEPT !.revoked = r]
    BY DEF Revoke
  <1> HIDE DEF r
  <1>4. /\ DOMAIN app' = AppFields /\ app'.revoked = r
        /\ app'.world = app.world /\ app'.epoch = app.epoch
        /\ app'.registry_epoch = app.registry_epoch /\ app'.wallet = app.wallet
        /\ app'.nonces = app.nonces /\ app'.last_presentation = app.last_presentation
    BY <1>3 DEF WorldInv, AppFields
  <1>5. EpochOK'
    BY <1>1, <1>4 DEF WorldInv, EpochOK
  <1>6. WalletOK' /\ PendingOK' /\ LogOK'
    BY <1>4 DEF WorldInv, WalletOK, PendingOK, LogOK
  <1>7. QED
    BY <1>2, <1>4, <1>5, <1>6 DEF WorldInv

LEMMA AdvanceEpochWorld ==
  ASSUME WorldInv, AdvanceEpoch, UNCHANGED <<drawn, log>> PROVE WorldInv'
  <1>1. /\ DOMAIN app' = AppFields /\ app'.epoch = app.epoch + 1
        /\ app'.registry_epoch = app.epoch + 1
        /\ app'.world = app.world /\ app'.wallet = app.wallet /\ app'.revoked = app.revoked
        /\ app'.nonces = app.nonces /\ app'.last_presentation = app.last_presentation
    BY DEF AdvanceEpoch, WorldInv, AppFields
  <1>2. EpochOK'
    BY <1>1 DEF WorldInv, EpochOK
  <1>3. WalletOK' /\ PendingOK' /\ LogOK'
    BY <1>1 DEF WorldInv, WalletOK, PendingOK, LogOK
  <1>4. QED
    BY <1>1, <1>2, <1>3 DEF WorldInv

(* What is stashed shows held claims under a nonce nobody has used. *)
LEMMA StashWorld ==
  ASSUME WorldInv, NEW claims, NEW checked, Stash(claims, checked), UNCHANGED log,
         \A c \in claims : HeldIn(app.wallet, c.id)
  PROVE  /\ WorldInv'
         /\ app'.last_presentation # None /\ app'.last_presentation.claims = claims
         /\ app'.last_presentation.nonce \notin app'.nonces
         /\ app'.wallet = app.wallet /\ app'.revoked = app.revoked
  <1> DEFINE q == [nonce |-> drawn + 1, world |-> app.world, claims |-> claims,
                   checked |-> checked]
  <1>1. q.nonce = drawn + 1 /\ q.world = app.world /\ q.claims = claims /\ drawn \in Nat
    BY DEF WorldInv
  <1>2. app' = [app EXCEPT !.last_presentation = q] /\ drawn' = drawn + 1
    BY DEF Stash
  <1> HIDE DEF q
  <1>3. q # None
    BY <1>1 DEF None
  <1>4. /\ DOMAIN app' = AppFields /\ app'.last_presentation = q
        /\ app'.world = app.world /\ app'.epoch = app.epoch
        /\ app'.registry_epoch = app.registry_epoch /\ app'.wallet = app.wallet
        /\ app'.revoked = app.revoked /\ app'.nonces = app.nonces
    BY <1>2 DEF WorldInv, AppFields
  <1>5. EpochOK'
    BY <1>4 DEF WorldInv, EpochOK
  <1>6. WalletOK'
    <2>1. \A i \in DOMAIN app.wallet : app.wallet[i].id \in Nat /\ app.wallet[i].id <= drawn
      BY IdsAreDrawn
    <2>2. QED
      BY <1>1, <1>2, <1>4, <2>1 DEF WorldInv, WalletOK
  <1>7. PendingOK'
    BY <1>1, <1>2, <1>4 DEF PendingOK
  <1>8. LogOK'
    BY <1>1, <1>2, <1>4 DEF WorldInv, LogOK
  <1>9. drawn + 1 \notin app.nonces
    BY <1>1 DEF WorldInv, LogOK
  <1>10. QED
    BY <1>1, <1>2, <1>3, <1>4, <1>5, <1>6, <1>7, <1>8, <1>9 DEF WorldInv

(* What the verdict leaves: the world, but for a nonce if it accepts. *)
LEMMA VerifyEffect ==
  ASSUME WorldInv, NEW reqs, VerifyPending(reqs)
  PROVE  /\ DOMAIN app' = AppFields
         /\ app'.world = app.world /\ app'.epoch = app.epoch /\ app'.registry_epoch = app.epoch
         /\ app'.wallet = app.wallet /\ app'.revoked = app.revoked
         /\ app'.last_presentation = app.last_presentation
         /\ \/ /\ Green(reqs)
               /\ \A n : n \in app'.nonces <=> n \in app.nonces \/ n = app.last_presentation.nonce
               /\ log' = Append(log, app.last_presentation)
            \/ ~Green(reqs) /\ app'.nonces = app.nonces /\ log' = log
  <1>1. /\ DOMAIN Frozen = AppFields
        /\ Frozen.world = app.world /\ Frozen.epoch = app.epoch
        /\ Frozen.registry_epoch = app.epoch /\ Frozen.wallet = app.wallet
        /\ Frozen.revoked = app.revoked /\ Frozen.nonces = app.nonces
        /\ Frozen.last_presentation = app.last_presentation
    BY DEF Frozen, WorldInv, AppFields
  <1>2. CASE Green(reqs)
    <2> DEFINE f == Frozen
               used == app.nonces \cup {app.last_presentation.nonce}
    <2>1. app' = [f EXCEPT !.nonces = used] /\ log' = Append(log, app.last_presentation)
      BY <1>1, <1>2 DEF VerifyPending, Green
    <2>2. \A n : n \in used <=> n \in app.nonces \/ n = app.last_presentation.nonce
      OBVIOUS
    <2> HIDE DEF f, used
    <2>3. /\ DOMAIN app' = AppFields /\ app'.nonces = used
          /\ app'.world = f.world /\ app'.epoch = f.epoch
          /\ app'.registry_epoch = f.registry_epoch /\ app'.wallet = f.wallet
          /\ app'.revoked = f.revoked /\ app'.last_presentation = f.last_presentation
      BY <1>1, <2>1 DEF f, AppFields
    <2>4. QED
      BY <1>1, <1>2, <2>1, <2>2, <2>3 DEF f
  <1>3. CASE ~Green(reqs)
    <2>1. (app' = app \/ app' = Frozen) /\ log' = log
      BY <1>3 DEF VerifyPending
    <2>2. app.registry_epoch = app.epoch /\ DOMAIN app = AppFields
      BY DEF WorldInv, EpochOK
    <2>3. QED
      BY <1>1, <1>3, <2>1, <2>2
  <1>4. QED
    BY <1>2, <1>3

(* A verdict is green exactly if something of this world is pending, with a   *)
(* nonce of its own, nothing withdrawn in it and everything asked for.       *)
LEMMA GreenMeans ==
  ASSUME WorldInv, NEW reqs
  PROVE  Green(reqs) <=>
            /\ app.last_presentation # None
            /\ app.last_presentation.nonce \notin app.nonces
            /\ app.last_presentation.claims # {}
            /\ \A c \in app.last_presentation.claims : c.id \notin DOMAIN app.revoked
            /\ \A req \in reqs : \E c \in app.last_presentation.claims : Settles(req, c)
  <1> DEFINE f == Frozen
             q == app.last_presentation
  <1>1. f.world = app.world /\ f.registry_epoch = app.epoch /\ f.revoked = app.revoked
        /\ f.nonces = app.nonces
    BY DEF Frozen, WorldInv, AppFields
  <1> HIDE DEF f
  <1>2. \A id : Withdrawn(f, id) <=> id \in DOMAIN app.revoked
    BY <1>1 DEF Withdrawn, WorldInv, EpochOK
  <1>3. q # None => q.world = f.world
    BY <1>1 DEF WorldInv, PendingOK
  <1> HIDE DEF q
  <1>4. q # None =>
          (Accepts(f, q, reqs) <=>
              /\ q.nonce \notin app.nonces /\ q.claims # {}
              /\ \A c \in q.claims : c.id \notin DOMAIN app.revoked
              /\ \A req \in reqs : \E c \in q.claims : Settles(req, c))
    BY <1>1, <1>2, <1>3 DEF Accepts
  <1>5. Green(reqs) <=> q # None /\ Accepts(f, q, reqs)
    BY DEF Green, f, q
  <1>6. QED
    BY <1>4, <1>5 DEF q

LEMMA VerifyWorld ==
  ASSUME WorldInv, NEW reqs, VerifyPending(reqs), UNCHANGED drawn
  PROVE  WorldInv'
  <1> DEFINE q == app.last_presentation
  <1>1. /\ DOMAIN app' = AppFields
        /\ app'.world = app.world /\ app'.epoch = app.epoch /\ app'.registry_epoch = app.epoch
        /\ app'.wallet = app.wallet /\ app'.revoked = app.revoked /\ app'.last_presentation = q
    BY VerifyEffect
  <1>2. WalletOK' /\ EpochOK' /\ PendingOK'
    BY <1>1 DEF WorldInv, WalletOK, EpochOK, PendingOK
  <1>3. LogOK'
    <2>1. CASE ~Green(reqs)
      <3>1. app'.nonces = app.nonces /\ log' = log
        BY <2>1, VerifyEffect
      <3>2. QED
        BY <1>1, <3>1 DEF WorldInv, LogOK
    <2>2. CASE Green(reqs)
      <3> DEFINE n == Len(log)
      <3>1. q # None /\ q.nonce \notin app.nonces
        BY <2>2, GreenMeans
      <3>2. /\ \A x : x \in app'.nonces <=> x \in app.nonces \/ x = q.nonce
            /\ log' = Append(log, q)
        BY <2>2, VerifyEffect
      <3>3. q.nonce \in Nat /\ q.nonce <= drawn
        BY <3>1 DEF WorldInv, PendingOK
      <3>4. /\ log \in Seq(Range(log)) /\ n \in Nat /\ DOMAIN log = 1..n
            /\ \A i \in 1..n : log[i].nonce \in Nat /\ log[i].nonce <= drawn
            /\ \A i, j \in 1..n : log[i].nonce = log[j].nonce => i = j
            /\ \A i \in 1..n : log[i].nonce # q.nonce
        BY <3>1 DEF WorldInv, LogOK
      <3> HIDE DEF q
      <3>5. /\ DOMAIN log' = 1..n + 1 /\ Len(log') = n + 1
            /\ \A i \in 1..n : log'[i] = log[i]
            /\ log'[n + 1] = q
        BY <3>2, <3>4
      <3>6. log' \in Seq(Range(log'))
        <4>1. log' \in Seq(Range(log) \cup {q})
          BY <3>2, <3>4
        <4>2. QED
          BY <4>1 DEF Range
      <3>7. \A i \in 1..n + 1 : i \in 1..n \/ i = n + 1
        BY <3>4
      <3> HIDE DEF n
      <3>8. \A i \in 1..n + 1 : log'[i].nonce \in Nat /\ log'[i].nonce <= drawn
        BY <3>3, <3>4, <3>5, <3>7
      <3>9. \A i, j \in 1..n + 1 : log'[i].nonce = log'[j].nonce => i = j
        BY <3>4, <3>5, <3>7
      <3>10. \A x \in app'.nonces : x \in Nat /\ x <= drawn
        BY <3>2, <3>3 DEF WorldInv, LogOK
      <3>11. QED
        BY <1>1, <3>2, <3>5, <3>6, <3>8, <3>9, <3>10 DEF LogOK
    <2>3. QED
      BY <2>1, <2>2
  <1>4. QED
    BY <1>1, <1>2, <1>3 DEF WorldInv

-------------------------------------------------------------------------------
(* Visitors. *)

LEMMA PresentWorld ==
  ASSUME WorldInv, NEW ids, Present(ids), UNCHANGED log PROVE WorldInv'
  <1> DEFINE chosen == {InFull(c) : c \in {d \in Held : d.id \in ids}}
             claims == IF ids = {} THEN {InFull(c) : c \in Held} ELSE chosen
             checked == Pairs(chosen)
  <1>1. Stash(claims, checked)
    BY DEF Present
  <1>2. \A c \in claims : HeldIn(app.wallet, c.id)
    <2>1. \A c \in Held : HeldIn(app.wallet, InFull(c).id)
      BY HeldIdsAre DEF HeldIds, InFull, Showing
    <2>2. QED
      BY <2>1
  <1> HIDE DEF claims, checked
  <1>3. QED
    BY <1>1, <1>2, StashWorld

LEMMA DiscloseWorld ==
  ASSUME WorldInv, NEW c \in Held, NEW fields, Disclose(c, fields), UNCHANGED log
  PROVE  WorldInv'
  <1> DEFINE claims == {Showing(c, IF fields = {} THEN c.content.fields ELSE fields)}
             checked == {c.id} \X fields
  <1>1. Stash(claims, checked)
    BY DEF Disclose
  <1>2. \A x \in claims : HeldIn(app.wallet, x.id)
    BY HeldIdsAre DEF HeldIds, Showing
  <1> HIDE DEF claims, checked
  <1>3. QED
    BY <1>1, <1>2, StashWorld

(* The first claim that can answer is one of the wallet's. *)
LEMMA SatisfyWorld ==
  ASSUME WorldInv, NEW reqs, Satisfy(reqs), UNCHANGED log PROVE WorldInv'
  <1> DEFINE candidates(req) == {i \in DOMAIN app.wallet : Answers(req, app.wallet[i])}
             first(req) == CHOOSE i \in candidates(req) : \A j \in candidates(req) : i <= j
             claims == {Showing(app.wallet[first(req)], {req.field}) : req \in reqs}
             checked == Pairs(claims)
  <1>1. Stash(claims, checked) /\ \A req \in reqs : candidates(req) # {}
    BY DEF Satisfy
  <1>2. ASSUME NEW req \in reqs PROVE first(req) \in DOMAIN app.wallet
    <2>1. candidates(req) \in SUBSET Nat
      BY DEF WorldInv, WalletOK
    <2>2. \E i \in candidates(req) : \A j \in candidates(req) : i <= j
      <3> DEFINE S == candidates(req)
      <3>1. S \in SUBSET Nat /\ S # {}
        BY <1>1, <2>1
      <3> HIDE DEF S
      <3>2. \E i \in S : \A j \in S : i <= j
        BY <3>1, LeastExists
      <3>3. QED
        BY <3>2 DEF S
    <2>3. first(req) \in candidates(req)
      BY <2>2
    <2>4. QED
      BY <2>3
  <1>3. \A c \in claims : HeldIn(app.wallet, c.id)
    <2> SUFFICES ASSUME NEW req \in reqs
                 PROVE  HeldIn(app.wallet, Showing(app.wallet[first(req)], {req.field}).id)
      OBVIOUS
    <2> DEFINE i == first(req)
    <2>1. i \in DOMAIN app.wallet
      BY <1>2
    <2> HIDE DEF i
    <2>2. HeldIn(app.wallet, Showing(app.wallet[i], {req.field}).id)
      BY <2>1 DEF HeldIn, Showing
    <2>3. QED
      BY <2>2 DEF i
  <1> HIDE DEF claims, checked
  <1>4. QED
    BY <1>1, <1>3, StashWorld

LEMMA VisitInv == ASSUME WebInv, Visit PROVE WebInv'
  <1>1. WorldInv
    BY DEF WebInv
  <1>2. WorldInv'
    <2>1. CASE Reset /\ UNCHANGED log
      BY <1>1, <2>1, ResetWorld
    <2>2. ASSUME NEW content \in Issuable, Issue(content), UNCHANGED log PROVE WorldInv'
      BY <1>1, <2>2, IssueWorld
    <2>3. ASSUME NEW id, Revoke(id), UNCHANGED <<drawn, log>> PROVE WorldInv'
      BY <1>1, <2>3, RevokeWorld
    <2>4. CASE AdvanceEpoch /\ UNCHANGED <<drawn, log>>
      BY <1>1, <2>4, AdvanceEpochWorld
    <2>5. ASSUME NEW ids, Present(ids), UNCHANGED log PROVE WorldInv'
      BY <1>1, <2>5, PresentWorld
    <2>6. ASSUME NEW c \in Held, NEW fields, Disclose(c, fields), UNCHANGED log PROVE WorldInv'
      BY <1>1, <2>6, DiscloseWorld
    <2>7. ASSUME NEW reqs, Satisfy(reqs), UNCHANGED log PROVE WorldInv'
      BY <1>1, <2>7, SatisfyWorld
    <2>8. ASSUME NEW reqs, VerifyPending(reqs), UNCHANGED drawn PROVE WorldInv'
      BY <1>1, <2>8, VerifyWorld
    <2>9. QED
      BY <2>1, <2>2, <2>3, <2>4, <2>5, <2>6, <2>7, <2>8 DEF Visit
  <1>3. ScriptsOK'
    BY DEF Visit, scriptVars, WebInv, ScriptsOK
  <1>4. QED
    BY <1>2, <1>3 DEF WebInv

-------------------------------------------------------------------------------
(* The walkthrough. *)

(* An act of one script interferes with all others. *)
LEMMA ActsAlone ==
  ASSUME ScriptsOK, NEW s \in Script, NEW from, NEW to \in Acts, Act(s, from, to),
         DOMAIN followed' = Script, DOMAIN shown' = Script,
         \A t \in Script \ {s} : shown'[t] = shown[t],
         to \in {"presenting", "verifying"} => shown'[s] = <<>>,
         to # "idle",
         undisturbed' \subseteq {s},
         s \in undisturbed' => OnTrack(s)'
  PROVE  ScriptsOK'
  <1>1. pc' = [pc EXCEPT ![s] = to]
    BY DEF Act
  <1>2. pc' \in [Script -> Acts] /\ pc'[s] = to /\ \A t \in Script \ {s} : pc'[t] = pc[t]
    BY <1>1 DEF ScriptsOK
  <1>3. \A t \in Script : pc'[t] \in {"idle", "presenting", "verifying"} => shown'[t] = <<>>
    BY <1>2 DEF ScriptsOK
  <1>4. undisturbed' \subseteq Script /\ \A t \in undisturbed' : OnTrack(t)'
    OBVIOUS
  <1>5. QED
    BY <1>2, <1>3, <1>4 DEF ScriptsOK

LEMMA ScriptStartInv == ASSUME WebInv, NEW s \in Script, ScriptStart(s) PROVE WebInv'
  <1>1. /\ Act(s, "idle", "presenting") /\ Reset /\ UNCHANGED <<shown, log>>
        /\ followed' = [followed EXCEPT ![s] = app'.wallet[1].id] /\ undisturbed' = {s}
    BY DEF ScriptStart
  <1>2. /\ WorldInv' /\ DOMAIN app'.revoked = {} /\ HeldIn(app'.wallet, app'.wallet[1].id)
    BY <1>1, ResetWorld DEF WebInv
  <1>3. pc[s] = "idle" /\ pc'[s] = "presenting" /\ followed'[s] = app'.wallet[1].id
        /\ DOMAIN followed' = Script /\ DOMAIN shown' = Script
    BY <1>1 DEF Act, WebInv, ScriptsOK
  <1>4. OnTrack(s)'
    BY <1>2, <1>3 DEF OnTrack
  <1>5. shown'[s] = <<>>
    BY <1>1, <1>3 DEF WebInv, ScriptsOK
  <1>6. ScriptsOK'
    BY <1>1, <1>3, <1>4, <1>5, ActsAlone DEF WebInv, Acts
  <1>7. QED
    BY <1>2, <1>6 DEF WebInv

LEMMA ScriptPresentInv == ASSUME WebInv, NEW s \in Script, ScriptPresent(s) PROVE WebInv'
  <1>1. WorldInv /\ ScriptsOK
    BY DEF WebInv
  <1>2. /\ undisturbed' = undisturbed \cap {s} /\ UNCHANGED <<followed, shown, log>>
        /\ DOMAIN followed = Script /\ DOMAIN shown = Script
    BY <1>1 DEF ScriptPresent, Undisturbed, ScriptsOK
  <1>3. WorldInv' /\ (HeldIn(app.wallet, followed[s]) =>
                          /\ PendingIsOf(s)'
                          /\ app'.last_presentation.nonce \notin app'.nonces
                          /\ app'.wallet = app.wallet /\ app'.revoked = app.revoked)
    <2>1. CASE followed[s] \notin HeldIds
      <3>1. UNCHANGED <<app, drawn>> /\ ~HeldIn(app.wallet, followed[s])
        BY <2>1, HeldIdsAre DEF ScriptPresent
      <3>2. QED
        BY <1>1, <1>2, <3>1
           DEF WorldInv, WalletOK, EpochOK, PendingOK, LogOK
    <2>2. CASE followed[s] \in HeldIds
      <3>1. PICK c \in Held : c.id = followed[s] /\ Stash({InFull(c)}, Pairs({InFull(c)}))
        BY <2>2 DEF ScriptPresent
      <3> DEFINE claims == {InFull(c)}
                 checked == Pairs({InFull(c)})
      <3>2. Stash(claims, checked)
        BY <3>1
      <3>3. (\A x \in claims : x.id = followed[s]) /\ (\E x \in claims : x.id = followed[s])
        BY <3>1 DEF InFull, Showing
      <3> HIDE DEF claims, checked
      <3>4. \A x \in claims : HeldIn(app.wallet, x.id)
        BY <2>2, <3>3, HeldIdsAre
      <3>5. /\ WorldInv'
            /\ app'.last_presentation # None /\ app'.last_presentation.claims = claims
            /\ app'.last_presentation.nonce \notin app'.nonces
            /\ app'.wallet = app.wallet /\ app'.revoked = app.revoked
        BY <1>1, <1>2, <3>2, <3>4, StashWorld
      <3>6. PendingIsOf(s)'
        BY <1>2, <3>3, <3>5 DEF PendingIsOf, None
      <3>7. QED
        BY <3>5, <3>6
    <2>3. QED
      BY <2>1, <2>2
  <1>4. ScriptsOK'
    <2>1. CASE Act(s, "presenting", "verifying")
      <3>1. pc[s] = "presenting" /\ pc'[s] = "verifying"
        BY <1>1, <2>1 DEF Act, ScriptsOK
      <3>2. s \in undisturbed' => OnTrack(s)'
        BY <1>1, <1>2, <1>3, <3>1 DEF ScriptsOK, OnTrack
      <3>3. shown'[s] = <<>>
        BY <1>1, <1>2, <3>1 DEF ScriptsOK
      <3>4. QED
        BY <1>1, <1>2, <2>1, <3>2, <3>3, ActsAlone DEF Acts
    <2>2. CASE Act(s, "representing", "reverifying")
      <3>1. pc[s] = "representing" /\ pc'[s] = "reverifying"
        BY <1>1, <2>2 DEF Act, ScriptsOK
      <3>2. s \in undisturbed' => OnTrack(s)'
        BY <1>1, <1>2, <1>3, <3>1 DEF ScriptsOK, OnTrack
      <3>3. QED
        BY <1>1, <1>2, <2>2, <3>2, ActsAlone DEF Acts
    <2>3. QED
      BY <2>1, <2>2 DEF ScriptPresent
  <1>5. QED
    BY <1>3, <1>4 DEF WebInv

LEMMA Verdicts ==
  ASSUME NEW x, NEW y
  PROVE  Append(<<>>, x) = <<x>> /\ Append(<<x>>, y) = <<x, y>>
  <1>1. <<>> \in Seq({x}) /\ <<x>> \in Seq({x, y}) /\ <<x, y>> \in Seq({x, y})
    OBVIOUS
  <1>2. Append(<<>>, x) = <<x>>
    BY <1>1
  <1>3. Append(<<x>>, y) = <<x, y>>
    <2> DEFINE t == Append(<<x>>, y)
    <2>1. t \in Seq({x, y}) /\ Len(t) = 2 /\ t[1] = x /\ t[2] = y
      BY <1>1
    <2> HIDE DEF t
    <2>2. t = <<x, y>>
      BY <1>1, <2>1
    <2>3. QED
      BY <2>2 DEF t
  <1>4. QED
    BY <1>2, <1>3

(* The verdict of a script on its track is the one its header announces. *)
LEMMA ScriptVerifyInv == ASSUME WebInv, NEW s \in Script, ScriptVerify(s) PROVE WebInv'
  <1>1. WorldInv /\ ScriptsOK
    BY DEF WebInv
  <1>2. /\ VerifyPending({}) /\ UNCHANGED <<drawn, followed>>
        /\ undisturbed' = undisturbed \cap {s}
        /\ shown' = [shown EXCEPT ![s] = Append(@, Green({}))]
        /\ DOMAIN followed = Script /\ DOMAIN shown = Script
    BY <1>1 DEF ScriptVerify, Undisturbed, ScriptsOK
  <1>3. WorldInv' /\ app'.wallet = app.wallet /\ app'.revoked = app.revoked
    BY <1>1, <1>2, VerifyWorld, VerifyEffect
  <1>4. Green({}) <=>
            /\ app.last_presentation # None
            /\ app.last_presentation.nonce \notin app.nonces
            /\ app.last_presentation.claims # {}
            /\ \A c \in app.last_presentation.claims : c.id \notin DOMAIN app.revoked
    <2> DEFINE none == {}
    <2>1. \A req \in none : FALSE
      OBVIOUS
    <2> HIDE DEF none
    <2>2. Green(none) <=>
            /\ app.last_presentation # None
            /\ app.last_presentation.nonce \notin app.nonces
            /\ app.last_presentation.claims # {}
            /\ \A c \in app.last_presentation.claims : c.id \notin DOMAIN app.revoked
      BY <1>1, <2>1, GreenMeans
    <2>3. QED
      BY <2>2 DEF none
  <1>5. /\ DOMAIN shown' = Script /\ \A t \in Script \ {s} : shown'[t] = shown[t]
        /\ shown'[s] = Append(shown[s], Green({}))
    BY <1>2
  <1>6. CASE Act(s, "verifying", "revoking")
    <2>1. pc[s] = "verifying" /\ pc'[s] = "revoking"
      BY <1>1, <1>6 DEF Act, ScriptsOK
    <2>2. ASSUME s \in undisturbed' PROVE OnTrack(s)'
      <3>1. OnTrack(s)
        BY <1>1, <1>2, <2>2 DEF ScriptsOK
      <3>2. Green({}) = TRUE
        BY <1>4, <2>1, <3>1 DEF OnTrack, PendingIsOf
      <3>3. shown[s] = <<>>
        BY <1>1, <2>1 DEF ScriptsOK
      <3>4. shown'[s] = <<TRUE>>
        BY <1>5, <3>2, <3>3, Verdicts, Zenon
      <3>5. QED
        BY <1>2, <1>3, <2>1, <3>1, <3>4 DEF OnTrack
    <2>3. ScriptsOK'
      BY <1>1, <1>2, <1>5, <1>6, <2>2, ActsAlone DEF Acts
    <2>4. QED
      BY <1>3, <2>3 DEF WebInv
  <1>7. CASE Act(s, "reverifying", "closing")
    <2>1. pc[s] = "reverifying" /\ pc'[s] = "closing"
      BY <1>1, <1>7 DEF Act, ScriptsOK
    <2>2. ASSUME s \in undisturbed' PROVE OnTrack(s)'
      <3>1. OnTrack(s)
        BY <1>1, <1>2, <2>2 DEF ScriptsOK
      <3>2. Green({}) = FALSE
        <4>1. followed[s] \in DOMAIN app.revoked /\ PendingIsOf(s)
          BY <2>1, <3>1 DEF OnTrack
        <4>2. QED
          BY <1>4, <4>1 DEF PendingIsOf, Green
      <3>3. shown[s] = <<TRUE>>
        BY <2>1, <3>1 DEF OnTrack
      <3>4. shown'[s] = <<TRUE, FALSE>>
        BY <1>5, <3>2, <3>3, Verdicts, Zenon
      <3>5. QED
        BY <1>2, <1>3, <2>1, <3>1, <3>4 DEF OnTrack
    <2>3. ScriptsOK'
      BY <1>1, <1>2, <1>5, <1>7, <2>2, ActsAlone DEF Acts
    <2>4. QED
      BY <1>3, <2>3 DEF WebInv
  <1>8. QED
    BY <1>6, <1>7 DEF ScriptVerify

LEMMA ScriptRevokeInv == ASSUME WebInv, NEW s \in Script, ScriptRevoke(s) PROVE WebInv'
  <1>1. WorldInv /\ ScriptsOK
    BY DEF WebInv
  <1>2. /\ Act(s, "revoking", "representing") /\ Revoke(followed[s])
        /\ undisturbed' = undisturbed \cap {s} /\ UNCHANGED <<drawn, followed, shown, log>>
    BY DEF ScriptRevoke, Undisturbed
  <1>3. /\ WorldInv' /\ followed[s] \in DOMAIN app'.revoked /\ app'.wallet = app.wallet
    <2> DEFINE id == followed[s]
    <2>1. Revoke(id)
      BY <1>2
    <2> HIDE DEF id
    <2>2. WorldInv' /\ id \in DOMAIN app'.revoked /\ app'.wallet = app.wallet
      BY <1>1, <1>2, <2>1, RevokeWorld
    <2>3. QED
      BY <2>2 DEF id
  <1>4. /\ pc[s] = "revoking" /\ pc'[s] = "representing"
        /\ DOMAIN followed = Script /\ DOMAIN shown = Script
    BY <1>1, <1>2 DEF Act, ScriptsOK
  <1>5. s \in undisturbed' => OnTrack(s)'
    BY <1>1, <1>2, <1>3, <1>4 DEF ScriptsOK, OnTrack
  <1>6. ScriptsOK'
    BY <1>1, <1>2, <1>4, <1>5, ActsAlone DEF Acts
  <1>7. QED
    BY <1>3, <1>6 DEF WebInv

(* Closing leaves the world and the other scripts alone. *)
LEMMA ScriptDoneInv == ASSUME WebInv, NEW s \in Script, ScriptDone(s) PROVE WebInv'
  <1>1. pc[s] = "closing" /\ pc' = [pc EXCEPT ![s] = "done"]
        /\ UNCHANGED <<app, drawn, followed, shown, log, undisturbed>>
    BY DEF ScriptDone, Act
  <1>2. WorldInv'
    BY <1>1 DEF WebInv, WorldInv, WalletOK, EpochOK, PendingOK, LogOK
  <1>3. pc' \in [Script -> Acts] /\ pc'[s] = "done" /\ \A t \in Script \ {s} : pc'[t] = pc[t]
    BY <1>1 DEF WebInv, ScriptsOK, Acts
  <1>4. ASSUME NEW t \in undisturbed PROVE OnTrack(t)'
    <2>1. OnTrack(t) /\ t \in Script
      BY DEF WebInv, ScriptsOK
    <2>2. CASE t = s
      BY <1>1, <1>3, <2>1, <2>2 DEF OnTrack
    <2>3. CASE t # s
      BY <1>1, <1>3, <2>1, <2>3 DEF OnTrack, PendingIsOf
    <2>4. QED
      BY <2>2, <2>3
  <1>5. ScriptsOK'
    BY <1>1, <1>3, <1>4 DEF WebInv, ScriptsOK
  <1>6. QED
    BY <1>2, <1>5 DEF WebInv

LEMMA WebInvNext == WebInv /\ [WebNext]_webVars => WebInv'
  <1> SUFFICES ASSUME WebInv, [WebNext]_webVars PROVE WebInv'
    OBVIOUS
  <1>1. CASE Visit
    BY <1>1, VisitInv
  <1>2. ASSUME NEW s \in Script, ScriptStart(s) PROVE WebInv'
    BY <1>2, ScriptStartInv
  <1>3. ASSUME NEW s \in Script, ScriptGoesOn(s) PROVE WebInv'
    BY <1>3, ScriptPresentInv, ScriptVerifyInv, ScriptRevokeInv, ScriptDoneInv
       DEF ScriptGoesOn
  <1>4. CASE UNCHANGED webVars
    <2>1. WorldInv'
      BY <1>4 DEF webVars, WebInv, WorldInv, WalletOK, EpochOK, PendingOK, LogOK
    <2>2. ScriptsOK'
      BY <1>4 DEF webVars, scriptVars, WebInv, ScriptsOK, OnTrack, PendingIsOf
    <2>3. QED
      BY <2>1, <2>2 DEF WebInv
  <1>5. QED
    BY <1>1, <1>2, <1>3, <1>4 DEF WebNext

(* The scripts' fairness plays no part. *)
THEOREM WebInvariant == WebSpec => []WebInv
  BY WebInvInit, WebInvNext, PTL DEF WebSpec

-------------------------------------------------------------------------------
(* The parts of the world belong together, however often and by whom it is   *)
(* reset (state.rs:110-112, issuer.rs:58-99).                                *)
THEOREM WorldIsOne == WebSpec => []OneWorld
  <1>1. WebInv => OneWorld
    BY OneWorldOfInv DEF WebInv
  <1>2. QED
    BY WebInvariant, <1>1, PTL

(* No presentation is accepted twice, although it stays pending after its     *)
(* verdict (verifier.rs:55-73, walkthrough.rs:174-180).                      *)
THEOREM NonceAcceptedOnce == WebSpec => []AcceptedOnce
  <1>1. WebInv => AcceptedOnce
    BY DEF WebInv, WorldInv, LogOK, AcceptedOnce
  <1>2. QED
    BY WebInvariant, <1>1, PTL

(* A walkthrough nobody interferes with shows first green, then red           *)
(* (walkthrough.rs:2, 112-142).                                              *)
THEOREM TurnsRed == WebSpec => []UndisturbedTurnsRed
  <1>1. WebInv => UndisturbedTurnsRed
    BY DEF WebInv, ScriptsOK, OnTrack, UndisturbedTurnsRed
  <1>2. QED
    BY WebInvariant, <1>1, PTL

(* No verdict accepts a claim that anybody has revoked since the last reset   *)
(* (issuer.rs:83-89, walkthrough.rs:198-203).                                *)
THEOREM RevokedIsRed == WebSpec => RevokedStaysRed
  <1>1. ASSUME WebInv, [WebNext]_webVars, log' # log
        PROVE  \A c \in log'[Len(log')].claims : c.id \notin DOMAIN app.revoked
    <2>1. WorldInv
      BY <1>1 DEF WebInv
    <2>2. PICK reqs : VerifyPending(reqs)
      BY <1>1
         DEF WebNext, Visit, ScriptStart, ScriptGoesOn, ScriptPresent, ScriptVerify,
             ScriptRevoke, ScriptDone, webVars
    <2>3. Green(reqs) /\ log' = Append(log, app.last_presentation)
      BY <1>1, <2>1, <2>2, VerifyEffect
    <2>4. log'[Len(log')] = app.last_presentation
      <3> DEFINE q == app.last_presentation
      <3>1. log \in Seq(Range(log)) /\ log' = Append(log, q)
        BY <2>1, <2>3 DEF WorldInv, LogOK
      <3> HIDE DEF q
      <3>2. log'[Len(log')] = q
        BY <3>1
      <3>3. QED
        BY <3>2 DEF q
    <2>5. QED
      BY <2>1, <2>3, <2>4, GreenMeans
  <1>2. WebInv /\ [WebNext]_webVars =>
          [log' # log =>
              \A c \in log'[Len(log')].claims : c.id \notin DOMAIN app.revoked]_webVars
    BY <1>1
  <1>3. QED
    BY WebInvariant, <1>2, PTL DEF WebSpec, RevokedStaysRed
================================================================================
