---------------------------- MODULE RegistryProofs ----------------------------
(****************************************************************************)
(* What the registry's answers guarantee, for every set of issuers,         *)
(* accreditors, categories, rules, windows and claims.                      *)
(*                                                                          *)
(* The type invariant is inductive.  QuorumBehindStanding follows from it:  *)
(* the endorsers counted for a record are a subset of those who vouched for *)
(* its issuer, and a rule lists finitely many accreditors.  The two action  *)
(* properties rest on what no call takes away: records, accreditor keys,    *)
(* rules' categories and revoked ids only grow.                             *)
(****************************************************************************)
EXTENDS Registry, FiniteSetTheorems, TLAPS

-------------------------------------------------------------------------------
(* Type correctness. *)

(* Drafting, endorsing and revising make records of the right type. *)
LEMMA DraftType ==
  ASSUME RegTypeOK,
         \/ \E i \in Issuer, c \in Category, w \in Windows : NewAccreditation(i, c, w)
         \/ \E d \in Accreditor : Endorse(d)
         \/ \E w \in Windows : Revise(w)
  PROVE  draft' \in Record
  <1>1. ASSUME NEW i \in Issuer, NEW c \in Category, NEW w \in Windows,
               NewAccreditation(i, c, w)
        PROVE  draft' \in Record
    <2>1. w[1] \in Froms /\ w[2] \in Untils
      BY DEF Froms, Untils
    <2>2. <<>> \in Seq(Signature)
      OBVIOUS
    <2>3. QED
      BY <1>1, <2>1, <2>2 DEF NewAccreditation, Record
  <1>2. ASSUME NEW d \in Accreditor, Endorse(d) PROVE draft' \in Record
    <2> DEFINE sig == [accreditor |-> d, over |-> Content(draft)]
    <2>1. draft \in Record /\ draft' = [draft EXCEPT !.signatures = Append(@, sig)]
      BY <1>2 DEF RegTypeOK, Endorse
    <2>2. Content(draft) \in Contents
      BY <2>1 DEF Content, Contents, Record
    <2>3. sig \in Signature
      BY <2>2 DEF Signature
    <2>4. draft.signatures \in Seq(Signature)
      BY <2>1 DEF Record
    <2>5. Append(draft.signatures, sig) \in Seq(Signature)
      BY <2>3, <2>4
    <2> HIDE DEF sig
    <2>6. QED
      BY <2>1, <2>5 DEF Record
  <1>3. ASSUME NEW w \in Windows, Revise(w) PROVE draft' \in Record
    <2>1. w[1] \in Froms /\ w[2] \in Untils
      BY DEF Froms, Untils
    <2>2. QED
      BY <1>3, <2>1 DEF RegTypeOK, Revise, Record
  <1>4. QED
    BY <1>1, <1>2, <1>3

(* The type invariant is inductive. *)
LEMMA TypeInit == RegInit => RegTypeOK
  BY RegistryAssumption DEF RegInit, RegTypeOK, Epoch

LEMMA TypeNext == RegTypeOK /\ [RegNext]_regVars => RegTypeOK'
  <1> SUFFICES ASSUME RegTypeOK, [RegNext]_regVars PROVE RegTypeOK'
    OBVIOUS
  <1>1. CASE \/ \E i \in Issuer, c \in Category, w \in Windows : NewAccreditation(i, c, w)
             \/ \E d \in Accreditor : Endorse(d)
             \/ \E w \in Windows : Revise(w)
    <2>1. UNCHANGED registryVars
      BY <1>1 DEF NewAccreditation, Endorse, Revise
    <2>2. QED
      BY <1>1, <2>1, DraftType DEF RegTypeOK, registryVars
  <1>2. CASE AddAccreditation
    <2>1. draft \in Record
      BY <1>2 DEF AddAccreditation, RegTypeOK
    <2>2. QED
      BY <1>2, <2>1 DEF AddAccreditation, AddRecord, RegTypeOK
  <1>3. ASSUME NEW i \in Issuer, RegisterIssuer(i) PROVE RegTypeOK'
    BY <1>3 DEF RegisterIssuer, RegTypeOK
  <1>4. ASSUME NEW d \in Accreditor, RegisterAccreditor(d) PROVE RegTypeOK'
    BY <1>4 DEF RegisterAccreditor, RegTypeOK
  <1>5. ASSUME NEW c \in Category, NEW r \in Rules, RequireAccreditation(c, r) PROVE RegTypeOK'
    <2>1. policy' = Put(policy, c, r)
      BY <1>5 DEF RequireAccreditation
    <2>2. /\ DOMAIN policy' = DOMAIN policy \cup {c}
          /\ policy'[c] = r
          /\ \A x \in DOMAIN policy \ {c} : policy'[x] = policy[x]
      BY <2>1 DEF Put
    <2>3. DOMAIN policy \subseteq Category /\ \A x \in DOMAIN policy : policy[x] \in Rules
      BY DEF RegTypeOK
    <2>4. DOMAIN policy' \subseteq Category /\ \A x \in DOMAIN policy' : policy'[x] \in Rules
      BY <2>2, <2>3
    <2>5. QED
      BY <1>5, <2>4 DEF RequireAccreditation, RegTypeOK
  <1>6. ASSUME NEW id \in ClaimId, NEW e \in Epoch, Revoke(id, e) PROVE RegTypeOK'
    <2>1. revoked' = Put(revoked, id, e)
      BY <1>6 DEF Revoke
    <2>2. /\ DOMAIN revoked' = DOMAIN revoked \cup {id}
          /\ revoked'[id] = e
          /\ \A x \in DOMAIN revoked \ {id} : revoked'[x] = revoked[x]
      BY <2>1 DEF Put
    <2>3. DOMAIN revoked \subseteq ClaimId /\ \A x \in DOMAIN revoked : revoked[x] \in Epoch
      BY DEF RegTypeOK
    <2>4. DOMAIN revoked' \subseteq ClaimId /\ \A x \in DOMAIN revoked' : revoked'[x] \in Epoch
      BY <2>2, <2>3
    <2>5. QED
      BY <1>6, <2>4 DEF Revoke, RegTypeOK
  <1>7. ASSUME NEW e \in Epoch, SetEpoch(e) PROVE RegTypeOK'
    BY <1>7 DEF SetEpoch, RegTypeOK
  <1>8. CASE UNCHANGED regVars
    BY <1>8 DEF regVars, registryVars, RegTypeOK
  <1>9. QED
    BY <1>1, <1>2, <1>3, <1>4, <1>5, <1>6, <1>7, <1>8 DEF RegNext

(* The registry and the draft keep their types. *)
THEOREM RegTypeCorrect == RegSpec => []RegTypeOK
  BY TypeInit, TypeNext, PTL DEF RegSpec

-------------------------------------------------------------------------------
(* Standing. *)

(* The endorsers a record counts under a rule. *)
Endorsers(a, rule) ==
    {d \in rule.accreditors \cap accreditor_keys :
        \E s \in Range(a.signatures) : s.accreditor = d /\ s.over = Content(a)}

(* They are finitely many, and counted once each. *)
LEMMA EndorsersFinite ==
  ASSUME NEW a, NEW rule \in Rules
  PROVE  /\ IsFiniteSet(Endorsers(a, rule))
         /\ ValidEndorsements(a, rule) = Cardinality(Endorsers(a, rule))
         /\ ValidEndorsements(a, rule) \in Nat
  <1>1. Endorsers(a, rule) \subseteq rule.accreditors /\ IsFiniteSet(rule.accreditors)
    BY RegistryAssumption DEF Endorsers
  <1>2. IsFiniteSet(Endorsers(a, rule))
    BY <1>1, FS_Subset
  <1>3. ValidEndorsements(a, rule) = Cardinality(Endorsers(a, rule))
    BY DEF ValidEndorsements, Endorsers
  <1>4. QED
    BY <1>2, <1>3, FS_CardinalityType

(* In every typed state a standing has its quorum. *)
LEMMA QuorumOfType == RegTypeOK => QuorumBehindStanding
  <1> SUFFICES ASSUME RegTypeOK, NEW i \in Issuer, NEW c \in Category, Standing(i, c).accredited
               PROVE  Cardinality(Vouchers(i, c) \cap policy[c].accreditors \cap accreditor_keys)
                         >= policy[c].k
    BY DEF QuorumBehindStanding
  <1> DEFINE rule == policy[c]
             V == Vouchers(i, c) \cap rule.accreditors \cap accreditor_keys
  <1>1. c \in DOMAIN policy /\ IsAccredited(i, c)
    BY DEF Standing
  <1>2. rule \in Rules /\ rule.k \in Nat /\ IsFiniteSet(rule.accreditors)
    BY <1>1, RegistryAssumption DEF RegTypeOK
  <1>3. PICK a \in accreditations :
            /\ a.issuer_id = i /\ a.category = c
            /\ ActiveAt(a, epoch)
            /\ ValidEndorsements(a, rule) >= rule.k
    BY <1>1 DEF IsAccredited
  <1>4. Endorsers(a, rule) \subseteq V
    <2> SUFFICES ASSUME NEW d \in Endorsers(a, rule) PROVE d \in V
      OBVIOUS
    <2>1. PICK s \in Range(a.signatures) : s.accreditor = d /\ s.over = Content(a)
      BY DEF Endorsers
    <2>2. d \in rule.accreditors /\ d \in accreditor_keys /\ d \in Accreditor
      BY DEF Endorsers, RegTypeOK
    <2>3. /\ s.over[1] = i /\ s.over[2] = c
          /\ s.over[3] = a.from_epoch /\ s.over[4] = a.until_epoch
      BY <1>3, <2>1 DEF Content
    <2>4. WindowHolds(s.over[3], s.over[4], epoch)
      BY <1>3, <2>3 DEF ActiveAt
    <2>5. d \in Vouchers(i, c)
      BY <2>1, <2>2, <2>3, <2>4 DEF Vouchers
    <2>6. QED
      BY <2>2, <2>5
  <1>5. V \subseteq rule.accreditors
    OBVIOUS
  <1>6. IsFiniteSet(V)
    BY <1>2, <1>5, FS_Subset
  <1>7. Cardinality(Endorsers(a, rule)) <= Cardinality(V) /\ Cardinality(V) \in Nat
    BY <1>4, <1>6, FS_Subset, FS_CardinalityType
  <1>8. QED
    BY <1>2, <1>3, <1>7, EndorsersFinite

(* Whoever stands accredited has K distinct registered accreditors of the    *)
(* rule behind it, who signed for this epoch (lib.rs:182-214).               *)
THEOREM QuorumHolds == RegSpec => []QuorumBehindStanding
  BY RegTypeCorrect, QuorumOfType, PTL

-------------------------------------------------------------------------------
(* What no call takes away. *)
Grown ==
    /\ accreditations \subseteq accreditations'
    /\ accreditor_keys \subseteq accreditor_keys'
    /\ DOMAIN policy \subseteq DOMAIN policy'
    /\ DOMAIN revoked \subseteq DOMAIN revoked'

LEMMA OnlyGrows == [RegNext]_regVars => Grown
  <1>1. ASSUME NEW i \in Issuer, NEW c \in Category, NEW w \in Windows, NewAccreditation(i, c, w)
        PROVE  Grown
    BY <1>1 DEF NewAccreditation, registryVars, Grown
  <1>2. ASSUME NEW d \in Accreditor, Endorse(d) PROVE Grown
    BY <1>2 DEF Endorse, registryVars, Grown
  <1>3. ASSUME NEW w \in Windows, Revise(w) PROVE Grown
    BY <1>3 DEF Revise, registryVars, Grown
  <1>4. CASE AddAccreditation
    BY <1>4 DEF AddAccreditation, AddRecord, Grown
  <1>5. ASSUME NEW i \in Issuer, RegisterIssuer(i) PROVE Grown
    BY <1>5 DEF RegisterIssuer, Grown
  <1>6. ASSUME NEW d \in Accreditor, RegisterAccreditor(d) PROVE Grown
    BY <1>6 DEF RegisterAccreditor, Grown
  <1>7. ASSUME NEW c \in Category, NEW r \in Rules, RequireAccreditation(c, r) PROVE Grown
    <2>1. DOMAIN policy' = DOMAIN policy \cup {c}
      BY <1>7 DEF RequireAccreditation, Put
    <2>2. QED
      BY <1>7, <2>1 DEF RequireAccreditation, Grown
  <1>8. ASSUME NEW id \in ClaimId, NEW e \in Epoch, Revoke(id, e) PROVE Grown
    <2>1. DOMAIN revoked' = DOMAIN revoked \cup {id}
      BY <1>8 DEF Revoke, Put
    <2>2. QED
      BY <1>8, <2>1 DEF Revoke, Grown
  <1>9. ASSUME NEW e \in Epoch, SetEpoch(e) PROVE Grown
    BY <1>9 DEF SetEpoch, Grown
  <1>10. CASE UNCHANGED regVars
    BY <1>10 DEF regVars, registryVars, Grown
  <1>11. QED
    BY <1>1, <1>2, <1>3, <1>4, <1>5, <1>6, <1>7, <1>8, <1>9, <1>10 DEF RegNext

(* A standing is lost only by a change of epoch or rule (lib.rs:182-214).    *)
THEOREM StandingIsStable == RegSpec => StandingLostOnlyByEpochOrRule
  <1>1. ASSUME RegTypeOK, RegTypeOK', [RegNext]_regVars,
               NEW i \in Issuer, NEW c \in Category,
               Standing(i, c).accredited, epoch' = epoch, policy'[c] = policy[c]
        PROVE  Standing(i, c).accredited'
    <2> DEFINE rule == policy[c]
    <2>1. c \in DOMAIN policy /\ IsAccredited(i, c)
      BY <1>1 DEF Standing
    <2>2. rule \in Rules /\ rule.k \in Nat
      BY <2>1, <1>1, RegistryAssumption DEF RegTypeOK
    <2>3. PICK a \in accreditations :
              /\ a.issuer_id = i /\ a.category = c
              /\ ActiveAt(a, epoch)
              /\ ValidEndorsements(a, rule) >= rule.k
      BY <2>1 DEF IsAccredited
    <2>4. a \in accreditations' /\ c \in DOMAIN policy'
      BY <1>1, <2>1, OnlyGrows DEF Grown
    <2>5. Endorsers(a, rule) \subseteq Endorsers(a, rule)'
      BY <1>1, OnlyGrows DEF Grown, Endorsers, Content
    <2>6. /\ IsFiniteSet(Endorsers(a, rule)')
          /\ ValidEndorsements(a, rule)' = Cardinality(Endorsers(a, rule)')
          /\ ValidEndorsements(a, rule)' \in Nat
      <3>1. rule' \in Rules
        BY <1>1, <2>2
      <3>2. Endorsers(a, rule)' \subseteq rule.accreditors /\ IsFiniteSet(rule.accreditors)
        BY <1>1, <2>2, RegistryAssumption DEF Endorsers
      <3>3. IsFiniteSet(Endorsers(a, rule)')
        BY <3>2, FS_Subset
      <3>4. ValidEndorsements(a, rule)' = Cardinality(Endorsers(a, rule)')
        BY DEF ValidEndorsements, Endorsers
      <3>5. QED
        BY <3>3, <3>4, FS_CardinalityType
    <2>7. ValidEndorsements(a, rule) <= ValidEndorsements(a, rule)'
          /\ ValidEndorsements(a, rule) \in Nat
      BY <2>2, <2>5, <2>6, EndorsersFinite, FS_Subset
    <2>8. ValidEndorsements(a, policy[c])' >= policy'[c].k
      BY <1>1, <2>2, <2>3, <2>6, <2>7
    <2>9. ActiveAt(a, epoch)'
      BY <1>1, <2>3 DEF ActiveAt, WindowHolds
    <2>10. IsAccredited(i, c)'
      BY <2>3, <2>4, <2>8, <2>9 DEF IsAccredited
    <2>11. QED
      BY <2>4, <2>10 DEF Standing
  <1>2. RegTypeOK /\ RegTypeOK' /\ [RegNext]_regVars =>
          [\A i \in Issuer, c \in Category :
              Standing(i, c).accredited /\ ~Standing(i, c).accredited' =>
                  epoch' # epoch \/ policy'[c] # policy[c]]_regVars
    BY <1>1
  <1>3. QED
    BY RegTypeCorrect, <1>2, PTL DEF RegSpec, StandingLostOnlyByEpochOrRule

(* A revoked claim is cleared only by setting the epoch back or by revoking  *)
(* it again for a later one, and the ledger agrees with the verdict          *)
(* (lib.rs:159-180, 230-234).                                                *)
THEOREM RevocationIsStable == RegSpec => RestoredOnlyByRedating
  <1>1. ASSUME RegTypeOK, RegTypeOK', [RegNext]_regVars, NEW id \in ClaimId,
               Withdrawn(id), Clear(id)', ~(epoch' < epoch)
        PROVE  id \in DOMAIN revoked' /\ revoked'[id] > revoked[id]
    <2>1. id \in DOMAIN revoked /\ revoked[id] <= epoch
      BY <1>1 DEF Withdrawn, IsRevoked, LedgerRecord
    <2>2. ~(id \in DOMAIN revoked' /\ revoked'[id] <= epoch')
      BY <1>1 DEF Clear, IsRevoked, LedgerRecord
    <2>3. id \in DOMAIN revoked'
      BY <1>1, <2>1, OnlyGrows DEF Grown
    <2>4. epoch \in Int /\ epoch' \in Int /\ revoked[id] \in Int /\ revoked'[id] \in Int
      BY <1>1, <2>1, <2>3, RegistryAssumption DEF RegTypeOK, Epoch
    <2>5. QED
      BY <1>1, <2>1, <2>2, <2>3, <2>4
  <1>2. RegTypeOK /\ RegTypeOK' /\ [RegNext]_regVars =>
          [\A id \in ClaimId :
              Withdrawn(id) /\ Clear(id)' =>
                  epoch' < epoch \/ (id \in DOMAIN revoked' /\ revoked'[id] > revoked[id])]_regVars
    BY <1>1
  <1>3. QED
    BY RegTypeCorrect, <1>2, PTL DEF RegSpec, RestoredOnlyByRedating
===============================================================================
