# aion-trust: a TLA+ model of portable, verifiable trust claims

aion-trust lets an issuer sign a claim about a subject, lets the subject show
parts of it to one verifier in a signed, single-use presentation, and lets the
verifier decide offline, against a registry it holds, whether to believe it.
This directory models that path, checks it with TLC and proves its central
guarantees with TLAPS. Paths below are relative to `src/crates/`.

## 1. Inventory

| component | state it keeps | operations | interacts with |
|---|---|---|---|
| claims (`aion-trust-claims/src/claim.rs`, `reliance.rs`, `fields.rs`, `bodies.rs`) | none; a claim is an immutable signed value | `issue`, `issue_with_reliance`, `disclose`, `verify` | called by issuers and wallets |
| disclosures (`disclosure.rs`) | none | `build`, `verify`, `verify_with_required` | Merkle trees of `aion-trust-core` |
| presentations and the verdict (`presentation.rs`, `predicate.rs`, `anchor.rs`) | none; pure functions of presentation, clock, anchor, predicates | `build_presentation`, `verify_presentation[_with_predicates]` | reads a `TrustAnchor` |
| nonce store (`nonce.rs`) | `(audience, nonce) -> expires_at` | `seen`, `record`, `evict_expired`, `verify_presentation_with_store` | wraps the verdict |
| registry (`aion-trust-registry/src/lib.rs`) | issuer and accreditor keys, accreditation records, K-of-N rules, revocations, epoch | `register_*`, `require_accreditation`, `add_accreditation`, `revoke`, `set_epoch`; `endorse` on a record; answers `issuer_key`, `standing`, `is_revoked`, `ledger_record` | is a `TrustAnchor` |
| wallet (`aion-trust-wallet/src/lib.rs`) | an identity and the claims it was given; an encrypted file | `generate`, `from_secret_hex`, `add`, `present`, `present_all`, `satisfy`, `save`, `load` | builds presentations; several handles may save to one file |
| command line (`aion-trust-cli/src/main.rs`) | files: secrets, claims, presentations, W3C documents, a nonce file | `keygen`, `issue`, `issue-check`, `present`, `verify`, `export-vc/-vp`, `import-vc/-vp`; `serve` starts the web demo | separate processes share files, without locks |
| web demo (`aion-trust-web/src`) | one world under one mutex: issuers, wallet, registry, nonce store, last presentation | form handlers, `reset`, a scripted walkthrough task | every handler and the script share the lock |
| interop (`aion-trust-interop/src`) | none | VC/VP export and import, `did:key`, RFC 3339 | maps native values |
| core (`aion-trust-core/src`) | a `SigningWriter` its buffer, otherwise none | Merkle trees, hex, signing bytes, ids, clock | everyone |

What is hard here, and where:

* **ordering across actors that never talk to each other**: a presentation is
  built, then a claim in it (or one that claim relies on) is revoked, the epoch
  moves, an accreditation lapses, and only then is it delivered, perhaps twice,
  perhaps to two replicas;
* **single use**: a check and a record around a verdict, an eviction that must
  not run ahead of the window check, rejections that must not burn a nonce;
* **trust that narrows and widens**: unresolvable statuses, amber verdicts and
  predicates must never turn a refusal into an acceptance;
* **K-of-N with public records**: endorsements over content that may be revised,
  rules that are replaced, windows with inclusive ends;
* **shared files and shared worlds**: the nonce file, the wallet file and the
  files that commands pass to one another, written by concurrent processes that
  may stop half-way; the walkthrough that drops the lock between its acts;
* **two sides of one comparison**: what a wallet decides to show and what a
  verifier decides to believe are computed apart, from the same claims;
* **numbers at their ends**: lifetimes that are negative or saturate, lengths,
  calendars, unbalanced trees.

The properties that make each component correct are listed with the runs below;
`PROJECT.json` lists every hazard at its line.

## 2. Modules

| module | models | state and actions |
|---|---|---|
| `SingleUse` | nothing in the code: the promise of replay protection | `now`, and `accepted`, what was accepted under which name; `Accept`, `Advance` |
| `NonceStore` | `nonce.rs` | `seen[s]` is the map of store `s`; `VerifyWithStore` is the whole of `verify_presentation_with_store` (the verdict of the checks outside the store is an arbitrary Boolean), `EvictExpired`, `Tick`. `log` is a history of acceptances. `KeyOf` takes the text of a nonce, as the store does; `SignedChallenge` its bytes, as the signature does |
| `Registry` | `aion-trust-registry` | the six fields of `Registry` and one accreditation record being drafted; one action per public method; `Standing`, `IsRevoked`, `LedgerRecord` are its answers |
| `Verification` | `presentation.rs`, `disclosure.rs`, `predicate.rs`, `claim.rs` | operators only: what a claim's and a presentation's signature covers, how a wallet discloses, and `FailedChecks`, the set of checks that fail |
| `Verdict` | one presentation whose verdict is recomputed while everything around it changes | `p`, `anchor`, `now`, `seen`, `reqs` |
| `Presenting` | `present`, `present_all` and `satisfy` of `aion-trust-wallet/src/lib.rs`, `Timestamp::plus_seconds` | operators: what a wallet that holds a sequence of claims discloses for a call, or which error it returns; `BuildFor`, the presentation with its saturating end |
| `Wallet` | one wallet in memory | `claims`, and the last call with what came of it (`deed`); `Add`, `Call`, `HandOver` |
| `WalletFile` | `Wallet::save` and `load` | `disk`; per handle `at`, `mem`, `sealing`. A save is two steps (truncated, written); `CutShort` is a failed write or the end of a process. `saved`, `torn`, `based` are histories |
| `TrustSystem` | issuers, wallets, federation and verifiers together | instances of `Registry` and `NonceStore`, the wallets' answers of `Presenting`, the verdict of `Verification`, plus `issued`, `wallet`, `net` |
| `CliNonceFile` | `verify --nonce-store` of `aion-trust-cli/src/main.rs`, as processes | `file`; per process `pc`, `asks`, `copy`, `verdict`. `Load`/`Unreadable`, `Judge`, `Truncate`, `Write`, `Report` in the order of the function, `Stop` anywhere. `before` and `alone` are histories |
| `CommandLine` | all other commands, as processes | `path[f]` is a file; per process `job` (its command line), `step`, `named` (the ids `--reveal` names), `got` (what it read), `made` (what it computed). `ReadNext` reads one file, each command computes and opens its output in one step, `WriteOut` writes it, `StopCommand` anywhere. `started` and `replaced` are histories |
| `Encoding` | `aion-trust-core/src/encoding.rs` | two `SigningWriter`s that are fed call by call and a hex text that grows; `BigEndian` with the weight of each place (`Weight`), `FromHex`, `ToHex`, `DecodeArray` |
| `WebDemo` | `aion-trust-web` | `app` is `AppState` and changes in one step per handler, since a handler holds the lock throughout; `pc[s]` is the next act of walkthrough `s`, which drops the lock between acts. `Visit` is any form of any surface |
| `Merkle` | `aion-trust-core/src/merkle.rs` | operators: `SplitPoint`, `MerkleRoot`, `AuditPath`, `RootFromPath`; their recursions are the functions `Mth`, `Path` and `Walk` of the number of leaves |
| `Disclosure` | `claim.rs`, `fields.rs`, `reliance.rs`, `bodies.rs`, `disclosure.rs` at the level of leaves, salts, positions and counts | a claim as issued, the claim in the wallet, its disclosure; `DiscloseSome`, and the two alterations a file may suffer. `InOrder` is the order a `BTreeMap` gives its keys; `Rows` and `PairedRoot` are a second definition of the tree, for comparison |
| `CivilDate` | `aion-trust-interop/src/rfc3339.rs` | operators, with the truncating division of the source. The two characters of an hour may be a sign and a digit, and are only compared from above, as in the source |
| `DidKey` | `didkey.rs` | operators: base 58 digit by digit, the carry of one digit (`Carries`) and the digits after each byte (`Digits`) as recursive functions |
| `Interop` | `vc.rs`, `vp.rs` | a calendar walking by days, a presentation, its document; `Build`, `Export`, `Rewrite` (another tool); `ImportVP` is evaluated in every state |
| `PresentingProofs` | | lemmas on building, disclosing, selecting and accepting that the proofs of `TrustSystem`, `Wallet`, `CommandLine` and `Interop` share |
| `StoresProofs` | | proofs about `NonceStore`, `CliNonceFile`, `WalletFile` and `CommandLine` |
| `VerdictProofs` | | proofs about `Verdict` and `Wallet` |
| `DisclosureProofs` | | proofs about `Disclosure`, `Merkle` and `Encoding` |
| `InteropProofs` | | proofs about `Interop`, `CivilDate` and `DidKey` |
| `RegistryProofs`, `TrustSystemProofs`, `WebDemoProofs` | | proofs about the module of that name |
| `MC*` with `*.cfg` | | the small instances TLC checks |

Composition: `TrustSystem` instantiates `Registry` and `NonceStore` and uses
`Verification`; `Verdict` and `Interop` use `Verification`; `Disclosure` uses
`Merkle`, and justifies what `Verification` takes for granted, that a revealed
leaf is proven exactly when it agrees with what was committed. `Presenting` is
the wallet's half of the same matter and is shared by `Wallet`, `TrustSystem` and
`CommandLine`.

Three MC modules run components side by side that share no state. `MCStores`
holds `NonceStore`, `CliNonceFile`, `CommandLine` and `WalletFile`, `MCVerdict`
holds `Verdict` and `Wallet`, `MCDocuments` holds `Disclosure`, `Encoding` and
`Interop`, whose constants `MCDisclosure` and `MCInterop` define.
One of them moves while the others stay where they began; each therefore goes
through exactly the behaviours it has on its own, and its properties are about
its own variables.

Abstractions, all of data and none of control:

* a signature is the key that made it and the content it covers; a did is its
  key; a commitment root (`body_root`, `reliance_root`) is the committed data,
  and a revealed leaf is proven when it agrees with it; `Hash` gives a claim
  content its id. In `Merkle` a hash is the term that was hashed;
* a value is a kind and a rank, which is all the comparison looks at;
* a report is the set of names of its failing checks; details are wording;
* `Result::Err` (a field that is not hex) changes no state, as a failing report
  does not; it is not modelled apart;
* in `NonceStore` the text of a nonce is its bytes and the case of its letters:
  the store is keyed by the text, the signature covers the bytes, and a copy may
  arrive in another spelling than the wallet's, which is lower case. Everywhere
  else a nonce is its bytes and arrives as it was written (`TrustSystem`), or does
  not leave the program (`WebDemo`); in `CliNonceFile` a challenge is the record as
  the file remembers it, a text. The other hex fields are values, whatever their
  spelling: nothing is looked up by their text;
* a presentation's `purpose` is signed and not looked at; it is left out;
* accreditation records are a set: neither their order nor copies matter to any
  answer;
* in `WebDemo` everything drawn at random is a number never used before, and the
  validity window of a presentation (minutes) is longer than the demo; windows
  are the subject of `NonceStore` and `TrustSystem`;
* in `Encoding` a byte has 9 values, a hex digit 3, a length 2 bytes and the
  integers 4 and 2 (256, 16, 4, 8 and 4 in the code): the arithmetic is the
  code's. A field is assumed no longer than its length can say, 4 GiB there;
* a file system call is what it leaves in the file: `std::fs::write` empties the
  file in one step and writes in another; what two writers leave is the longer
  text, or one that does not parse. Secrets are all of one length, so the last
  one written is whole, and a secret written in part over another is a key of
  nobody. The wallet's ciphertext opens for its passphrase and only whole;
* what a user passes on a command line (dids, public keys, claim ids) was printed
  or could be read in a file before;
* in `DidKey` a text is its base-58 digits; the prefix and the fragment, which
  repeats it, are fixed. In `CivilDate` a text is the numbers it writes, and
  whether its year takes four characters.

`NonceStore` is borrowed mutably for the whole verification, so reading it,
verifying and recording is one step. Verifiers that share a store share that
borrow; verifiers with different stores have no replay protection between them,
which the source says too (`nonce.rs:10-16`) and the model allows. The command
line has no such borrow between processes, so there the same three things are
separate steps.

`Verdict`, `Disclosure` and `Interop` let a file arrive altered. That is the
transport, not the program: files travel by hand and through other tools. What
these runs show is that nothing but the choice of which fields to reveal, and the
case of letters in hex fields, is left open by the two signatures, and that a
wrong place in a file is a refusal, never another meaning. The spelling has no
meaning to the verdict; to the nonce store it has (`nonce_respelt`).

## 3. Runs

| run | what it asks | instance, and why it is enough |
|---|---|---|
| `stores_and_files` | Is a presentation ever accepted twice, a challenge answered twice in one spelling, a nonce burnt by a rejection, or something spent reported anything but red, by verifiers of one store? Does the store implement `SingleUse`? What does the nonce file still guarantee when processes overlap, overwrite each other and stop anywhere? Can a wallet file that opens be anything but what was saved last? Does an ACCEPTED mean what the commands behind it did, whatever happened to their files? | `NonceStore`: four verifiers, two replicas on one store, one of another audience on the same store, a replica of the latter on its own store; one challenge answered twice with overlapping windows, a copy of the first answer that spells its nonce in capitals, and the same nonce to the other audience; clock to 4, one past the last window. `CliNonceFile`: three processes and two challenges, one that settled and two that overlap afterwards. `WalletFile`: two handles, owners, claims and passphrases, since every way to lose something has one who saved and one who overwrites. `CommandLine`: three scripts of up to six processes, two at a time, in which a key, a claim, a presentation or a document is made twice into one file, presented in part, expires, or passes through a W3C document; two clock values. 0.8 million states |
| `nonce_respelt` | Is a signed challenge answered once while the first answer could be used, as the store's documentation has it? Not when a copy spells the nonce otherwise | the instance of `NonceStore` above |
| `registry` | Does an accreditation always have a live quorum behind it? Can anything but the epoch or a rule take a standing away, anything but re-dating restore a revoked claim? | One issuer and category, two accreditors, three rules (1-of-2, 2-of-2, 1-of-1 with an outsider), a lapsing and an open window, two endorsements per record, epochs 0..2. One record is held at a time: standings are decided record by record |
| `registry_redated` | Does a revocation stay, as the workflow document says? It does not when the claim is revoked again for a later epoch (`lib.rs:161` overwrites) | as above; the counterexample is three states long |
| `verdict` | Is what is accepted what was signed? Is amber exactly "recoverable"? Can a predicate be settled by withdrawn evidence? Can narrowing ever improve a verdict? What does a wallet show, for how long, and when is it believed? | Two claims, one relying on a claim that is not shown, a number field, a text field and a withheld field, a short nonce, six predicates including a wrong scale and a wrong type. `MaxChanges` bounds how many things differ from the start: every property relates at most the states before and after one change, and its premises need at most three. Beside it a wallet of up to three claims out of four (two that answer the same request, a stranger's, any of them twice), nine lists of selections, some wrong, and lists of requests, lifetimes from the smallest to the largest timestamp, two clock values; its answers are judged by several verifiers at every time of the range |
| `trust_system` | With everything composed and every delivery order: is withdrawn evidence, or evidence without a quorum, ever accepted? Does a claim ever speak for someone else? | Two subjects (claims can end up in the wrong wallet), an identity claim and a check relying on it, an endorsement that lapses, two epochs, three clock values with lifetime 1, two replicas on one store and a verifier with only a directory. One nonce: a second presentation adds nothing the first does not do through repeated delivery |
| `cli_replay` | Is a replayed presentation rejected, as the option's help says? Not when a process that loaded before writes after | the instance of `CliNonceFile` above |
| `cli_expired_check` | Does an expired background check fail, as the documents say? Not one that `issue-check` issued | the scripts of `CommandLine` above |
| `web_demo` | Can anything that falls between the acts of a walkthrough make a verdict accept a revoked claim, or a presentation twice? Does an undisturbed script show green then red? Does every script end? | Two scripts and two requests of visitors, one predicate, two seeded claims and one more to issue. Two requests because every disturbance of a script takes at most two (show something, then verify or revoke it); 0.7 million states |
| `web_scripts` | Does a walkthrough show what it announces, as its header says? Not when a second one resets the world | two scripts, no visitor |
| `web_unchecked` | Do the wallet's forms show only what was ticked? Not when nothing was | no script, three requests |
| `documents` | Is everything honestly disclosed proven, and nothing that was not issued? Do the holder's check and the verifier's agree? Can two messages be one byte string, or a cut hex text another key? Do dates agree with the calendar? Do documents come back as they were, and exactly when their times can be written? Does a document other tools rewrote import anything that was not signed? Is importing stable? | `Disclosure`: all seven schemas with 2 to 7 fields (trees of every shape up to 7 leaves), every selection, 0 to 3 relied-on claims, one twice among them. Two alterations for the schemas of at most three fields, one for the others: what two places of a file can do to each other (an index and its path, a count and a missing entry) shows in the small ones. `Encoding`: two writers of up to three fields each, with field contents that look like lengths, and hex texts of up to five characters. `Interop`: twelve years, day by day, those around the year 0, the first and last that four characters can write, leap centuries and others, the epoch. Exports on the 1st and 29th at the first and the last second of the day, a lifetime far beyond the calendar. One rewritten part, among them the 31st of any month, an hour -1 and a second 60. Keys of two bytes, with zeros in front, carries and full bytes. 0.4 million states |

`registry`, `verdict` and `trust_system` check for deadlock; none can deadlock,
since a verification may always be repeated. `stores_and_files`,
`nonce_respelt`, `cli_*`, `web_*` and `documents` say `CHECK_DEADLOCK FALSE`:
processes and scripts end, a file has been altered as often as the bound allows,
a clock or a calendar has reached its last day.

Only `web_demo` assumes fairness, and only of a script that has started: its task
sleeps for fixed times and then takes a lock which every holder gives back
without waiting for anything, so `WF(ScriptGoesOn(s))` holds. Nobody has to
visit, start a script or make any other call; everywhere else an operation is a
call someone may or may not make, and the properties are safety properties and
refinements.

## 4. What the properties say

* `NonceStore`: `AtMostOnce` and `OnlyAcceptedBurns`. `ChallengeAnsweredOnce` is
  about the challenge that the subject signed, the bytes, and does not hold: see
  the findings. What does hold is `NonceNotReused`, a second answer to a signed
  challenge has to spell its nonce otherwise; `SpentIsRed` says the same from the
  side of a verifier, the lenient one included that lets amber through (what is
  spent is refused by a hard check, so it is never amber); and
  `ImplementsSingleUse`: among the presentations that arrive with the nonce as
  wallets write it, the store keeps the promise of `SingleUse` for signed
  challenges. The refinement maps the log to those acceptances, under their places
  in it, so that one with another spelling is a stutter.
* `Registry`: `QuorumBehindStanding` looks at who signed what, not at how
  endorsements are counted; `StandingLostOnlyByEpochOrRule` and
  `RestoredOnlyByRedating` say which calls may take an answer back.
* `Verification`/`Verdict`: `AcceptedAsSigned`, `AmberIsRecoverable`,
  `NoLaundering`, `NarrowingNeverOpens`.
* `TrustSystem`: `NoWithdrawnEvidence`, `AcceptedIsAuthoritative`,
  `AcceptedSpeaksForPresenter`.
* `Wallet`: `WindowIsLifetime` (the end of a window, saturated or not, is the
  lifetime asked for), `ShowsWhatWasAsked` (nothing besides), and the two that
  relate the wallet's half to the verifier's: `AcceptedIfSound` and
  `AnswersAreTaken`. `AcceptedIfSound` is about direct reliance, as the code is
  (`presentation.rs:385`): a relied-on claim that itself relies on others, which
  are not disclosed, does not keep a presentation from being green.
  `docs/DEPENDENCY-TRUST.md:234-237` lists that as open, while
  `docs/TRUST-MODEL.md:111` says that such a target is at least amber.
* `WalletFile`: `IntactUnlessTorn` and `CurrentCopiesLoseNothing`, what is left of
  durability with a file that is overwritten in place and not locked.
* `CommandLine`: `VerdictIsEarned` traces an ACCEPTED or REJECTED back through the
  files to the processes behind them; `RevealIsKept` says when a selection made on
  the command line reaches its claim.
* `Encoding`: `Unambiguous` for signed bytes, `OneTextPerCase` for hex.
* `CliNonceFile`: `AloneIsFinal` and `KeptOrRefused`, what is left of single use
  without a lock: whatever ran alone is final, and a damaged file refuses instead
  of forgetting.
* `WebDemo`: `OneWorld`, `AcceptedOnce`, `RevokedStaysRed`,
  `UndisturbedTurnsRed`, and `ScriptEnds`, the one liveness property.
* `Disclosure`: `HonestIsProven` (completeness, and the recursive tree compared
  with the one that pairs neighbours), `ProvenIsIssued` (soundness),
  `ClaimAndDisclosureAgree` (two implementations of one check).
* `Interop`: `CalendarAgrees` compares the arithmetic with a day-by-day walk,
  `RoundTripsExactly` says when a document comes back and that it is otherwise
  refused, `ImportedIsSigned` and `ImportIsStable` what a rewritten one may mean:
  only what was signed, and after one import always the same.

The type invariants of `NonceStore`, `Registry`, `Verdict`, `CliNonceFile` and
`WalletFile`, and `RemembersUnexpired`, are proved for every value of the
constants (section 5) and not run again; `TSTypeOK` is checked and proved.

Each is preceded in its module by the sentence it formalises and the lines it is
about. Each passing property also has a mutated definition in `PROJECT.json`
(a dropped check, a boundary off by one, an early return) under which TLC finds
it violated.

## 5. Proofs

`StoresProofs` proves of `NonceStore`, for every set of verifiers, assignment of
audiences and stores, set of presentations and bound on the clock, from
`NonceStoreAssumption` (audiences are dids, times are integers, a nonce text is
bytes and letters):

    TypeOK, AtMostOnce, NonceNotReused, RemembersUnexpired, OnlyAcceptedBurns,
    SpentIsRed, and ImplementsSingleUse, the refinement.

The inductive invariant is `TypeOK /\ AcceptedInTime /\ RemembersUnexpired /\
NonceNotReused`. A challenge cannot be answered again in the same spelling
because (a) while the first answer's window is open its nonce is remembered with
that answer's expiry, and (b) an entry leaves the store only when the clock is
past that expiry. Single use of one presentation then needs (c): it was accepted
inside its own window, so a later acceptance would be both inside and after it.
Drop any of the three and the induction breaks; the mutants of its properties
are exactly such drops. `SpentIsRed` is (a) read from the verifier's side. For
the refinement, two answers to one challenge that both arrive as written spell
its nonce alike (`OneSpelling`), since what a wallet writes is a function of the
bytes; the log only grows, so an answer keeps its name (`AnswersStay`), and an
acceptance adds one answer or, when its nonce is spelled anew, none.

Of `CliNonceFile` it proves, for every finite or infinite set of
invocations and challenges, with no assumption:

    CliTypeOK, AloneIsFinal, KeptOrRefused.

Neither of the last two holds inductively. The invariant adds that while a
process runs alone the file is exactly what its program counter says it last did
to it (`OnDiskAsWritten`), so that it is on disk when the process reports; and
that after it has settled every process alive has loaded its record or nothing
yet (`LaterOnesKnow`), so that whatever these write, in whatever order, contains
it or cannot be read.

Of `WalletFile` it proves, for every set of handles, identities, claims and
passphrases, with no assumption:

    WfTypeOK, IntactUnlessTorn, CurrentCopiesLoseNothing.

The last two lean on each other and on one more fact, `AloneAtIt`: a save that is
not torn is the only one under way and found the file as it had emptied it, so
that what it leaves is its own text, whole. A file that opens is then always the
last completed save, which makes whoever loads it current.

`RegistryProofs` proves, for every set of issuers, accreditors, categories,
rules, windows and claims, from `RegistryAssumption`:

    RegTypeOK, QuorumBehindStanding, StandingLostOnlyByEpochOrRule,
    RestoredOnlyByRedating.

Here the type invariant, with the type of what a signature covers, is inductive
by itself. The quorum follows from it in every state: the endorsers that are
counted are accreditors of the rule, registered, whose signature over this very
record verifies, so they are among those who vouched, and a finite set that
contains at least k of them has at least k members. The action properties need
one more fact, that no call takes away a record, an accreditor's key or a
revoked id (`OnlyGrows`).

`VerdictProofs` proves, for every wallet, anchor, set of predicates and
alteration, and whatever the hash, from `VerdictAssumption` (the wallet holds
what issuers signed and presents disclosures of it; the window and the bounds are
natural numbers):

    VdTypeOK, AcceptedAsSigned, AmberIsRecoverable, NoLaundering,
    NarrowingNeverOpens.

The invariant `VInv` only says that what travels is what the wallet built or one
alteration of it; the work is in what a report without a hard failure rules out.
The subject's signature excludes every alteration outside the claims
(`AlteredSigned`), and the issuer's signature, the two commitments and the full
reliance every one inside a claim (`AlteredAuthentic`), except leaving fields
out. So whatever is green or amber is `Narrower` than what was built. A claim
with fewer fields fails the same checks and settles no further predicate, which
gives both the first property and the step of the last; an anchor that trusts
more fails no further check of a claim (`TrustingClaim`), which gives the rest of
it. Amber rests on one equation: resolving every status removes exactly the soft
check from a claim's failures (`ResolvedClaim`). Nothing is assumed of the hash:
an altered claim is caught by the issuer's signature, which covers the content.

`PresentingProofs` holds what the next three need of the operators (and
`VerdictProofs` with them), for any claims
and requests. A presentation that `BuildFor` signs carries its subject's
signature over itself; a claim as issued keeps its issuer's signature, its two
commitments and its validity under disclosure, and shows the fields chosen and no
other (`DisclosedParts`, `SoundClaim`); whatever `present` or `satisfy` shows is a
disclosure of a claim held (`ShownIsHeld`), and of the right one, since the
wallet's searches return the first that fits (`FindFinds`, `FindSatisfyingFinds`,
from `LeastIsIn`, which rests on the naturals being well founded);
`AcceptedParts` takes a report without failures apart.

`TrustSystemProofs` proves, for every set of subjects, issuers, verifiers,
claims, accreditation records and requests, and every policy and bound, from
`TrustAssumption` (issuers sign what `IssueClaim` builds; no two contents have one
id, which is what the hash promises; rules and records have the registry's
types):

    TSTypeOK, AcceptedSpeaksForPresenter, NoWithdrawnEvidence,
    AcceptedIsAuthoritative.

`TSInv` has a part for each party. The holders' part: whatever travels is a
disclosure of claims that its subject holds, which issuers signed, and a nonce
names one presentation. It is what makes an acceptance speak of claims that were
issued. The federation's part: the registry's types, that issuers, accreditors
and policy stay what they were, and that no revocation lies ahead of the epoch.
The last is what `NoWithdrawnEvidence` needs, since the verifier asks whether a
claim is revoked *at* the current epoch; the finding `registry_redated` shows what
happens without it. The verifiers' part gives the log its type. The theorem on
authority ends in the argument of `RegistryProofs`: a standing issuer has k
signatures that verify over one record, and a finite set with at least k members
of the rule.

Of `Wallet`, `VerdictProofs` proves, for every set of claims, of lists of selections and
requests, and every clock and lifetime, from `WalletAssumption` (times and
lifetimes in the range of a timestamp; the drawn nonce has its full length;
claims as issued, with ids of their own):

    WindowIsLifetime, AcceptedIfSound, AnswersAreTaken, ShowsWhatWasAsked.

Here the invariant is short: the last deed is the outcome of its call on the
claims held, built at the time of the call. The work is between the two halves.
The saturating addition of `PlusSeconds` and the verifier's two comparisons agree
on the window whatever the lifetime; each check of `FailedChecks` comes out empty
for what was built of claims that are sound; and a field that `satisfy` found is,
after it was disclosed alone, still what the verifier's predicate asks for. In the
other direction, each claim shown comes from one selection or request and shows
exactly what that one names.

Of `CommandLine`, `StoresProofs` proves, for every set of invocations, scripts and
files, from `CommandAssumption` (what the parser of the command line grants a command: it has
its input files, numbers are in the range of a timestamp; and that claims,
presentations and documents come from the invocations, not from before):

    VerdictIsEarned, RevealIsKept.

`CmdInv` traces texts to their makers. What parses as a claim, a presentation or a
document, in a file or in what a process has read of it, was computed by an
invocation that can be told from the value (`Traced`). Emptying a file, writing
over another's text, stopping halfway and mixing two texts keep this, since what
they leave is something that was computed, or is no such text at all. What a
process made is what its command makes of its arguments and of what it read
(`Computes`), and neither changes any more once it has computed (`MadeOK`). A
verdict is then taken apart backwards: the presentation names the invocation that
built it, each claim in it was made by an issuing command, and each check of the
report comes down to an argument of one of the three. `RevealIsKept` needs that
the ids the user saw stay those of the inputs as long as nobody writes to them
(`SeenOK`), and that the last entry for an id is the one looked up
(`LastEntryCounts`).

`WebDemoProofs` proves, for any number of scripts, visits, claims and requests,
from `WebAssumption` (there is at least one seeded claim, and a claim meets only
requests of the demo):

    OneWorld, AcceptedOnce, UndisturbedTurnsRed, RevokedStaysRed.

None of the four is inductive. `WorldInv` adds that ids and nonces in use were
drawn before (so that a new one is new), that the registry answers at the epoch
shown with no revocation ahead of it, that the claims of a pending presentation
are in the wallet of the same world, and that a nonce that was accepted and is
still pending is remembered. The last is what survives a reset, which empties the
nonce store: it drops the pending presentation in the same step. `ScriptsOK` says
for each act of a script nobody interfered with what it will find (`OnTrack`):
before it verifies, the pending presentation is of the claim it follows, with a
fresh nonce; after it revoked, that claim is revoked; and so on to the two
verdicts it shows.

`DisclosureProofs` proves of `Encoding`, for every base, every width of lengths and
integers, every set of fields and any number of calls, from `EncodingAssumption`
(digits and bytes are what they are called, and no field is longer than its
length can say):

    Unambiguous, OneTextPerCase.

The invariant says of each writer that its buffer can be cut into pieces
(`Written`), one per field, each the field's length and the field. Two cuts of one
buffer agree piece by piece: at the first place where they did not, both would
begin with a length at the same offset, lengths below `Weight[LengthWidth]` are
determined by their bytes, and so would be the fields. Domains and integers are
pieces like any other. The code's numbers (256, 4, 8, 4) are one instance; those
of the run are another.

Of `Disclosure` it proves, for every set of schemas out of the seven, any number of
relied-on claims and any number and order of alterations, from
`DisclosureAssumption` (what is relied on is a list; the genuine value and the
drawn salt are of their kinds):

    HonestIsProven, ProvenIsIssued, ClaimAndDisclosureAgree.

It rests on the trees, for any number of leaves. `WalkSound`: a walk that ends at
the root of a tree began at the leaf of its index, whatever siblings the path
holds, since a hash is of one leaf or of one pair of nodes only. `WalkComplete`:
the path made for a leaf leads to the root. The largest power of two below the
number of leaves, by which the recursion splits, makes the tree the one that pairs
neighbours row by row (`RootsArePaired`): induction along the powers of two. The
verifier's table gives each key the place that sorting gives it at the issuer
(`OrderedAsTable`); here the order of the 31 keys, which the model takes from the
table, is used as such. Soundness for relied-on claims is a count: as many entries
as the signed number, their indices below it and no two the same, so the map from
entries to indices is onto, and no claim is left out. `DsInv` then only has to say
what the claim and the disclosure are when nothing was altered, and that the
signature, whatever was, is the issuer's.

`InteropProofs` proves, for every wallet, key, claim and lifetime, and calendars
that start in any year and run for any time, from `InteropAssumption` (days,
hours and lifetimes are numbers, keys are byte strings, an open end is no
timestamp), `HeldAssumption` (what is held was issued, for whatever times)
and `KeyAssumption`:

    CalendarAgrees, RoundTripsExactly, ImportedIsSigned, ImportIsStable.

Two results about the codecs come first, for every input. `TimeReadBack`: a
timestamp is read back from its text, or its year does not fit in four
characters and the text does not parse. A date is counted in years that begin in
March (`DaysCounted`), so that the day of an era comes apart into centuries,
leap cycles and years (`YearOfEra`) and the day of a year into months
(`MonthOfYear`); each step is linear arithmetic, and the days after a New Year
reach every day (`EveryDay`). `KeyReadBack`: a key is read back from its did,
whatever its length. Digits write a number when dividing by the base, again and
again, leaves them (`Writes`). Pushing a byte multiplies that number by 256 and
adds the byte (`Pushed`): the carry that the loop takes from digit to digit is
the difference of the two divisions, stays below the base it comes from, and is
used up after at most two more digits. So the text and the bytes write one
number (`Converted`), and a number is written in one way, with no zero in front
(`OneWriting`); the two bytes of the multicodec see to that. That is what makes
decoding the inverse of encoding.

With these a claim that goes out comes back as itself (`ClaimBack`), and a
presentation too, exactly if all its times can be written (`PresentationBack`),
provided its parts are typed and its claims prove themselves. `BuiltPresented` and
`ImportedPresented` say that this holds of what a wallet built and of whatever was
imported, which gives the two round trips. `IoInv` adds for the former that a
document nobody touched is the export of what was built, and for `ImportedIsSigned`
that whatever was rewritten, each credential carries the signature of a claim that
was shown. Two claims that prove themselves by one signature differ only in the
fields they show (`SameSignature`).

The recursive definitions of `Merkle`, `Encoding` and `DidKey` are functions on
the natural numbers, and what they compute is proved by the least number at
which it would fail (`HasLeast`, `LeastIsIn`, `UpTo`), which needs no induction
theorem: only that the naturals are well founded. That the functions exist at
all is proved the same way, by functions on longer and longer beginnings
(`StepByStep` in `InteropProofs`).

Model-checked and not proved: `ScriptEnds`, since it is a liveness property under
fairness. Every other property of the passing runs is a theorem.

## 6. Findings

* **A nonce has several spellings** (`nonce_respelt`). The nonce store compares
  the text of a nonce (`nonce.rs:72`, `95`), the subject signs the bytes it decodes
  to (`presentation.rs:185`, `231`), and `from_hex` takes letters of either case. A
  copy of an accepted presentation with letters of its nonce in capitals is, inside
  the window, accepted again. The store's documentation calls the nonce the
  verifier's freshness challenge, whose replay the audience would reject
  (`nonce.rs:24-28`). Keyed by the decoded bytes, the store would keep
  `ChallengeAnsweredOnce`.
* **A second revocation can undo the first** (`registry_redated`).
  `Registry::revoke` overwrites the epoch of an earlier revocation; revoking
  again as of a future epoch makes a withdrawn claim valid until then. The
  workflow document promises that any future verification fails. Nothing in the
  shipped callers passes a future epoch (the web demo passes the current one), so
  `TrustSystem`, which revokes at the current epoch and only moves it forward,
  does not exhibit it.
* **A replay can be accepted when processes share a nonce file** (`cli_replay`).
  `verify` writes back the copy it loaded, whatever its verdict, and nothing
  locks the file: an acceptance in between is overwritten. The help of the option
  says that a replayed presentation is rejected.
* **A walkthrough may not show what it announces** (`web_scripts`). A second one
  resets the world; the first then finds its claim gone, passes over that in
  silence and judges whatever is pending.
* **An expired background check is accepted** (`cli_expired_check`).
  `issue-check --valid-until` writes the day into the claim's body and leaves the
  claim's own validity open; no check of the verification reads the body. The
  trust model says that an expired background check fails the validity step. A
  claim of `issue --valid-until`, which sets the validity, does.
* **An empty choice is everything** (`web_unchecked`). A form with no box ticked
  presents every claim, or every field; the handlers' comments say that they
  disclose the checked ones only. The test
  `disclose_with_no_fields_checked_discloses_all` (`wallet.rs:312-324`) expects it of
  the fields: code and test agree, and the comment does not.

Met while modelling and not a run of its own: `from_rfc3339` calls itself strict
about ranges but compares hours, minutes and seconds with their largest values
only, and reads each from two characters as a signed number, so `T-1:00:00Z` is
eleven at night of the day before. The run `documents` contains such documents: what
is imported of them is still what was signed, and is written as the time it meant
when exported again (`ImportedIsSigned`, `ImportIsStable`).

## 7. Not modelled

Left out: key generation, dids and ids, ciphers and hash functions
(taken to be what they promise), `serve` beyond the web demo it starts, the
parsing of command lines, the encoding of JSON and HTML and the look-up of JSON
members, form parsing, logging and page layout. Not modelled: a verifier process
that restarts with an empty in-memory store (the source leaves persistence to
the deployment), and the purpose of a presentation, which no check looks at.
