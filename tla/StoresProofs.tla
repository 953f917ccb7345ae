---------------------------- MODULE StoresProofs ----------------------------
(******************************************************************************)
(* What is remembered, in memory and on disk, for every set of verifiers,     *)
(* stores, presentations, processes and handles: a nonce store answers a      *)
(* challenge once in every spelling of its nonce; in the nonce file of the    *)
(* command line, a challenge that was accepted by a process no other          *)
(* overlapped stays accepted for good; and the wallet's file is what was      *)
(* saved last, or does not open.  The second half is about the commands that  *)
(* work on such files.                                                        *)
(*                                                                            *)
(* The nonce store's invariant is                                             *)
(*     TypeOK /\ AcceptedInTime /\ RemembersUnexpired /\ NonceNotReused       *)
(* NonceNotReused is not inductive by itself: that a challenge cannot be      *)
(* answered again in the same spelling follows from its nonce being           *)
(* remembered as long as the first answer's window is open.  AtMostOnce       *)
(* follows from NonceNotReused and from every acceptance having happened      *)
(* inside its window.                                                         *)
(*                                                                            *)
(* The nonce file's invariant follows such a process r.  While it lives it is *)
(* the only one, so what it wrote is exactly what is on disk when it reports. *)
(* After it ended, every process alive began later, and loaded either a file  *)
(* that holds r's record or nothing at all; so every text that is ever        *)
(* written again holds the record too.                                        *)
(*                                                                            *)
(* The wallet file's two promises lean on each other and on who is writing: a *)
(* handle that loads the file is current because a file that opens is what    *)
(* was saved last, and a save that is not torn leaves just that because it is *)
(* alone at it and found the file as it had emptied it.                       *)
(******************************************************************************)
EXTENDS NonceStore, CliNonceFile, WalletFile, CommandLine, PresentingProofs

-------------------------------------------------------------------------------
(* The nonce store: the inductive invariant. *)

(* What a verifier accepted was addressed to it and had not expired. *)
AcceptedInTime ==
    \A i \in DOMAIN log :
        /\ log[i].presentation.audience = AudienceOf[log[i].verifier]
        /\ log[i].at <= log[i].presentation.expires_at

IInv == TypeOK /\ AcceptedInTime /\ RemembersUnexpired /\ NonceNotReused

-------------------------------------------------------------------------------
(* Lemmas about the operators. *)

(* The store of a verifier is one of the stores. *)
LEMMA StoreOfVerifier == ASSUME NEW v \in Verifier PROVE StoreOf[v] \in Stores
  BY DEF Stores

(* Recording p puts its key in v's store and leaves the other keys and the   *)
(* other stores as they were.                                                *)
LEMMA RecordEffect ==
  ASSUME TypeOK, NEW v \in Verifier, NEW p \in Presentation
  PROVE  /\ DOMAIN Record(v, p) = Stores
         /\ \A s \in Stores \ {StoreOf[v]} : Record(v, p)[s] = seen[s]
         /\ DOMAIN Record(v, p)[StoreOf[v]] = DOMAIN seen[StoreOf[v]] \cup {KeyOf(v, p)}
         /\ Record(v, p)[StoreOf[v]][KeyOf(v, p)] = p.expires_at
         /\ \A k \in DOMAIN seen[StoreOf[v]] \ {KeyOf(v, p)} :
                Record(v, p)[StoreOf[v]][k] = seen[StoreOf[v]][k]
  BY StoreOfVerifier DEF TypeOK, Record, Insert

(* Appending keeps the earlier entries and adds one that is last. *)
LEMMA AppendEffect ==
  ASSUME NEW S, NEW s \in Seq(S), NEW x \in S
  PROVE  /\ Append(s, x) \in Seq(S)
         /\ DOMAIN Append(s, x) = DOMAIN s \cup {Len(s) + 1}
         /\ \A i \in DOMAIN s : Append(s, x)[i] = s[i] /\ i \in Int /\ i < Len(s) + 1
         /\ Append(s, x)[Len(s) + 1] = x
         /\ Len(s) + 1 \in Int /\ Len(s) + 1 \notin DOMAIN s
  OBVIOUS

(* Entries of the log have the type of an acceptance. *)
LEMMA LogEntry ==
  ASSUME TypeOK, NEW i \in DOMAIN log
  PROVE  /\ i \in Int
         /\ log[i].verifier \in Verifier /\ log[i].presentation \in Presentation
         /\ log[i].at \in Int
  <1>1. i \in 1..Len(log) /\ log[i] \in Acceptance
    BY DEF TypeOK
  <1>2. QED
    BY <1>1 DEF Acceptance

-------------------------------------------------------------------------------
(* The inductive invariant. *)

(* Initially the store is empty and nothing has been accepted. *)
LEMMA InitInv == NSInit => IInv
  <1> SUFFICES ASSUME NSInit PROVE IInv
    OBVIOUS
  <1>1. TypeOK
    BY DEF NSInit, TypeOK
  <1>2. DOMAIN log = {}
    BY DEF NSInit
  <1>3. QED
    BY <1>1, <1>2 DEF IInv, AcceptedInTime, RemembersUnexpired, NonceNotReused

(* One audience and one text of a nonce are one key of the store.            *)
LEMMA SameKey ==
  ASSUME NEW p, NEW q, SameChallenge(p, q), p.nonce = q.nonce
  PROVE  p.audience = q.audience /\ <<p.audience, p.nonce>> = <<q.audience, q.nonce>>
  BY DEF SameChallenge, SignedChallenge

(* What a past acceptance still bars is remembered by the store.             *)
LEMMA BarredIsSeen ==
  ASSUME IInv, NEW i \in DOMAIN log, NEW v \in Verifier, NEW p \in Presentation,
         StoreOf[log[i].verifier] = StoreOf[v], SameChallenge(log[i].presentation, p),
         log[i].presentation.nonce = p.nonce,
         p.audience = AudienceOf[v], now <= log[i].presentation.expires_at
  PROVE  AlreadySeen(v, p)
  BY SameKey DEF IInv, AcceptedInTime, RemembersUnexpired, AlreadySeen, KeyOf

(* What accepting a presentation that passed the binding checks does. *)
LEMMA AcceptEffect ==
  ASSUME IInv, NEW v \in Verifier, NEW p \in Presentation,
         VerifyWithStore(v, p, TRUE)
  PROVE  /\ now' = now /\ seen' = Record(v, p)
         /\ log' = Append(log, Accepting(v, p))
         /\ log' \in Seq(Acceptance)
         /\ DOMAIN log' = DOMAIN log \cup {Len(log) + 1}
         /\ \A i \in DOMAIN log : log'[i] = log[i] /\ i \in Int /\ i < Len(log) + 1
         /\ log'[Len(log) + 1] = Accepting(v, p)
         /\ Len(log) + 1 \in Int /\ Len(log) + 1 \notin DOMAIN log
  <1>1. log \in Seq(Acceptance) /\ Accepting(v, p) \in Acceptance
    BY DEF IInv, TypeOK, Accepting, Acceptance
  <1>2. seen' = Record(v, p) /\ now' = now /\ log' = Append(log, Accepting(v, p))
    BY DEF VerifyWithStore
  <1>3. QED
    BY <1>1, <1>2, AppendEffect

(* Accepting a presentation that passed the binding checks. *)
LEMMA AcceptInv ==
  ASSUME IInv, NEW v \in Verifier, NEW p \in Presentation, Bound(v, p),
         VerifyWithStore(v, p, TRUE)
  PROVE  IInv'
  <1> USE NonceStoreAssumption
  <1> DEFINE last == Len(log) + 1
  <1>0. /\ now' = now /\ seen' = Record(v, p)
        /\ log' \in Seq(Acceptance)
        /\ DOMAIN log' = DOMAIN log \cup {last}
        /\ \A i \in DOMAIN log : log'[i] = log[i] /\ i \in Int /\ i < last
        /\ log'[last] = Accepting(v, p) /\ last \in Int /\ last \notin DOMAIN log
    BY AcceptEffect
  <1>1. TypeOK /\ AcceptedInTime /\ RemembersUnexpired /\ NonceNotReused
    BY DEF IInv
  <1>2. KeyOf(v, p) \in Key /\ p.expires_at \in Int /\ StoreOf[v] \in Stores
    BY StoreOfVerifier DEF KeyOf, Key
  <1>3. /\ log'[last].verifier = v /\ log'[last].presentation = p
        /\ log'[last].at = now
    BY <1>0 DEF Accepting
  <1>4. /\ p.audience = AudienceOf[v] /\ now <= p.expires_at
        /\ ~AlreadySeen(v, p) /\ now \in Int
    BY <1>1 DEF Bound, TypeOK
  <1>5. TypeOK'
    <2>1. ASSUME NEW s \in Stores
          PROVE  DOMAIN seen'[s] \subseteq Key /\ \A k \in DOMAIN seen'[s] : seen'[s][k] \in Int
      BY <1>1, <1>2, <1>0, RecordEffect DEF TypeOK
    <2>2. DOMAIN seen' = Stores /\ now' \in Int /\ log' \in Seq(Acceptance)
      BY <1>1, <1>0, RecordEffect DEF TypeOK
    <2>3. QED
      BY <2>1, <2>2 DEF TypeOK
  <1>6. AcceptedInTime'
    BY <1>1, <1>3, <1>4, <1>0 DEF AcceptedInTime
  <1>7. NonceNotReused'
    <2> SUFFICES ASSUME NEW i \in DOMAIN log', NEW j \in DOMAIN log', i < j,
                        SamePool(log'[i], log'[j]),
                        SameChallenge(log'[i].presentation, log'[j].presentation),
                        log'[i].presentation.nonce = log'[j].presentation.nonce
                 PROVE  log'[i].presentation.expires_at < log'[j].at
      BY DEF NonceNotReused, SamePool, SameChallenge, SignedChallenge
    <2>1. i \in DOMAIN log
      BY <1>0
    <2>2. CASE j \in DOMAIN log
      BY <1>1, <2>1, <2>2, <1>0 DEF NonceNotReused
    <2>3. CASE j = last
      <3>1. /\ StoreOf[log[i].verifier] = StoreOf[v]
            /\ SameChallenge(log[i].presentation, p) /\ log[i].presentation.nonce = p.nonce
        BY <1>3, <2>1, <2>3, <1>0 DEF SamePool
      <3>2. ~(now <= log[i].presentation.expires_at)
        BY <1>4, <2>1, <3>1, BarredIsSeen
      <3>3. log[i].presentation.expires_at \in Int
        BY <1>1, <2>1, LogEntry
      <3>4. QED
        BY <1>3, <1>4, <2>1, <2>3, <3>2, <3>3, <1>0
    <2>4. QED
      BY <2>2, <2>3, <1>0
  <1>8. RemembersUnexpired'
    <2> SUFFICES ASSUME NEW i \in DOMAIN log', now <= log'[i].presentation.expires_at
                 PROVE  LET w == log'[i].verifier
                            q == log'[i].presentation
                        IN  /\ KeyOf(w, q) \in DOMAIN seen'[StoreOf[w]]
                            /\ seen'[StoreOf[w]][KeyOf(w, q)] = q.expires_at
      BY <1>0 DEF RemembersUnexpired, AlreadySeen, KeyOf
    <2>1. CASE i = last
      <3>1. /\ KeyOf(v, p) \in DOMAIN Record(v, p)[StoreOf[v]]
            /\ Record(v, p)[StoreOf[v]][KeyOf(v, p)] = p.expires_at
        BY <1>1, RecordEffect
      <3>2. QED
        BY <1>0, <1>3, <2>1, <3>1
    <2>2. CASE i \in DOMAIN log
      <3> DEFINE w == log[i].verifier
                 q == log[i].presentation
      <3>1. /\ KeyOf(w, q) \in DOMAIN seen[StoreOf[w]]
            /\ seen[StoreOf[w]][KeyOf(w, q)] = q.expires_at
        BY <1>1, <2>2, <1>0 DEF RemembersUnexpired, AlreadySeen
      <3>2. StoreOf[w] = StoreOf[v] => KeyOf(w, q) # KeyOf(v, p)
        BY <1>4, <3>1 DEF AlreadySeen
      <3>3. StoreOf[w] \in Stores
        BY <1>1, <2>2, LogEntry, StoreOfVerifier
      <3>4. QED
        BY <1>1, <2>2, <3>1, <3>2, <3>3, <1>0, RecordEffect
    <2>3. QED
      BY <2>1, <2>2, <1>0
  <1>9. QED
    BY <1>5, <1>6, <1>7, <1>8 DEF IInv

(* Eviction forgets only nonces whose presentation has expired. *)
LEMMA EvictInv ==
  ASSUME IInv, NEW s \in Stores, EvictExpired(s)
  PROVE  IInv'
  <1>1. /\ now' = now /\ log' = log
        /\ seen' = [seen EXCEPT ![s] = Restrict(@, Retained(@, now))]
    BY DEF EvictExpired
  <1>2. TypeOK /\ AcceptedInTime /\ RemembersUnexpired /\ NonceNotReused
    BY DEF IInv
  <1>3. /\ DOMAIN seen' = Stores
        /\ \A t \in Stores \ {s} : seen'[t] = seen[t]
        /\ seen'[s] = Restrict(seen[s], Retained(seen[s], now))
    BY <1>1, <1>2 DEF TypeOK
  <1>4. /\ DOMAIN seen'[s] = {k \in DOMAIN seen[s] : now <= seen[s][k]}
        /\ \A k \in DOMAIN seen'[s] : seen'[s][k] = seen[s][k]
    BY <1>3 DEF Restrict, Retained
  <1>5. TypeOK'
    BY <1>1, <1>2, <1>3, <1>4 DEF TypeOK
  <1>6. AcceptedInTime' /\ NonceNotReused'
    BY <1>1, <1>2 DEF AcceptedInTime, NonceNotReused, SamePool
  <1>7. RemembersUnexpired'
    <2> SUFFICES ASSUME NEW i \in DOMAIN log, now <= log[i].presentation.expires_at
                 PROVE  LET w == log[i].verifier
                            q == log[i].presentation
                        IN  /\ KeyOf(w, q) \in DOMAIN seen'[StoreOf[w]]
                            /\ seen'[StoreOf[w]][KeyOf(w, q)] = q.expires_at
      BY <1>1 DEF RemembersUnexpired, AlreadySeen, KeyOf
    <2> DEFINE w == log[i].verifier
               q == log[i].presentation
    <2>1. /\ KeyOf(w, q) \in DOMAIN seen[StoreOf[w]]
          /\ seen[StoreOf[w]][KeyOf(w, q)] = q.expires_at
      BY <1>2 DEF RemembersUnexpired, AlreadySeen
    <2>2. StoreOf[w] \in Stores
      BY <1>2, LogEntry, StoreOfVerifier
    <2>3. QED
      BY <1>3, <1>4, <2>1, <2>2
  <1>8. QED
    BY <1>5, <1>6, <1>7 DEF IInv

(* The clock only makes fewer presentations acceptable. *)
LEMMA TickInv == ASSUME IInv, Tick PROVE IInv'
  <1> USE NonceStoreAssumption
  <1>1. now' = now + 1 /\ now \in Int /\ seen' = seen /\ log' = log
    BY DEF IInv, TypeOK, Tick
  <1>2. TypeOK'
    BY <1>1 DEF IInv, TypeOK
  <1>3. AcceptedInTime' /\ NonceNotReused'
    BY <1>1 DEF IInv, AcceptedInTime, NonceNotReused, SamePool
  <1>4. RemembersUnexpired'
    <2> SUFFICES ASSUME NEW i \in DOMAIN log, now + 1 <= log[i].presentation.expires_at
                 PROVE  LET w == log[i].verifier
                            q == log[i].presentation
                        IN  /\ KeyOf(w, q) \in DOMAIN seen[StoreOf[w]]
                            /\ seen[StoreOf[w]][KeyOf(w, q)] = q.expires_at
      BY <1>1 DEF RemembersUnexpired, AlreadySeen, KeyOf
    <2>1. log[i].presentation.expires_at \in Int
      BY LogEntry DEF IInv
    <2>2. now <= log[i].presentation.expires_at
      BY <1>1, <2>1
    <2>3. QED
      BY <2>2 DEF IInv, RemembersUnexpired, AlreadySeen
  <1>5. QED
    BY <1>2, <1>3, <1>4 DEF IInv

(* A step that changes nothing keeps the invariant. *)
LEMMA StutterInv == ASSUME IInv, UNCHANGED nsVars PROVE IInv'
  BY DEF IInv, nsVars, TypeOK, AcceptedInTime, RemembersUnexpired, NonceNotReused,
         SamePool, AlreadySeen, KeyOf

(* A verification either accepts a bound presentation or changes nothing. *)
LEMMA VerifyCases ==
  ASSUME NEW v \in Verifier, NEW p \in Presentation, NEW rest \in BOOLEAN,
         VerifyWithStore(v, p, Bound(v, p) /\ rest)
  PROVE  UNCHANGED nsVars \/ (Bound(v, p) /\ VerifyWithStore(v, p, TRUE))
  <1>1. CASE Bound(v, p) /\ rest
    BY <1>1 DEF VerifyWithStore
  <1>2. CASE ~(Bound(v, p) /\ rest)
    BY <1>2 DEF VerifyWithStore, nsVars
  <1>3. QED
    BY <1>1, <1>2

LEMMA NextInv == IInv /\ [NSNext]_nsVars => IInv'
  <1> SUFFICES ASSUME IInv, [NSNext]_nsVars PROVE IInv'
    OBVIOUS
  <1>1. ASSUME NEW v \in Verifier, NEW p \in Presentation, NEW rest \in BOOLEAN,
               VerifyWithStore(v, p, Bound(v, p) /\ rest)
        PROVE  IInv'
    BY <1>1, VerifyCases, AcceptInv, StutterInv
  <1>2. ASSUME NEW s \in Stores, EvictExpired(s) PROVE IInv'
    BY <1>2, EvictInv
  <1>3. CASE Tick
    BY <1>3, TickInv
  <1>4. CASE UNCHANGED nsVars
    BY <1>4, StutterInv
  <1>5. QED
    BY <1>1, <1>2, <1>3, <1>4 DEF NSNext

-------------------------------------------------------------------------------
(* The inductive invariant holds in every reachable state. *)
THEOREM Invariance == NSSpec => []IInv
  BY InitInv, NextInv, PTL DEF NSSpec

(* The clock, the store and the history keep their types. *)
THEOREM TypeCorrect == NSSpec => []TypeOK
  <1>1. IInv => TypeOK
    BY DEF IInv
  <1>2. QED
    BY Invariance, <1>1, PTL

(* Two presentations that answer one challenge, as their subjects signed it, *)
(* are accepted by verifiers of one store within the first one's window only *)
(* if they spell its nonce in two ways (nonce.rs:72, 95).                    *)
THEOREM NonceNotReusedHolds == NSSpec => []NonceNotReused
  <1>1. IInv => NonceNotReused
    BY DEF IInv
  <1>2. QED
    BY Invariance, <1>1, PTL

(* The verifiers of one store accept a presentation at most once between     *)
(* them, however often it is delivered (nonce.rs:87-102, 60-66).             *)
THEOREM SingleUseHolds == NSSpec => []AtMostOnce
  <1>1. IInv => AtMostOnce
    <2> SUFFICES ASSUME IInv, NEW i \in DOMAIN log, NEW j \in DOMAIN log, i # j,
                        SamePool(log[i], log[j]),
                        log[i].presentation = log[j].presentation
                 PROVE  FALSE
      BY DEF AtMostOnce
    <2>1. /\ SameChallenge(log[i].presentation, log[j].presentation)
          /\ log[i].presentation.nonce = log[j].presentation.nonce
      BY DEF SameChallenge
    <2>2. i \in Int /\ j \in Int /\ log[i].at \in Int /\ log[j].at \in Int
          /\ log[i].presentation.expires_at \in Int
      BY LogEntry, NonceStoreAssumption DEF IInv
    <2>3. /\ i < j => log[i].presentation.expires_at < log[j].at
          /\ j < i => log[j].presentation.expires_at < log[i].at
      BY <2>1 DEF IInv, NonceNotReused, SamePool, SameChallenge, SignedChallenge
    <2>4. /\ log[i].at <= log[i].presentation.expires_at
          /\ log[j].at <= log[j].presentation.expires_at
      BY DEF IInv, AcceptedInTime
    <2>5. QED
      BY <2>2, <2>3, <2>4
  <1>2. QED
    BY Invariance, <1>1, PTL

(* An accepted nonce is remembered as long as its presentation could be      *)
(* replayed: eviction never runs ahead of the expiry check (nonce.rs:60-66). *)
THEOREM EvictionIsSafe == NSSpec => []RemembersUnexpired
  <1>1. IInv => RemembersUnexpired
    BY DEF IInv
  <1>2. QED
    BY Invariance, <1>1, PTL

-------------------------------------------------------------------------------
(* Refinement of SingleUse. *)

(* Of two presentations that arrive as they were written, the spelling of    *)
(* the nonce follows from the challenge.                                     *)
LEMMA OneSpelling ==
  ASSUME NEW p, NEW q, AsWritten(p), AsWritten(q), SignedChallenge(p) = SignedChallenge(q)
  PROVE  SameChallenge(p, q) /\ p.nonce = q.nonce
  BY DEF AsWritten, SignedChallenge, SameChallenge

(* What a log shows of the acceptances that arrived as written. *)
LEMMA AnswersDomain ==
  /\ \A i \in DOMAIN AnswersAsWritten :
        /\ i \in DOMAIN log /\ AsWritten(log[i].presentation)
        /\ AnswersAsWritten[i] = Answer(log[i])
  /\ \A i \in DOMAIN log : AsWritten(log[i].presentation) => i \in DOMAIN AnswersAsWritten
  BY DEF AnswersAsWritten

(* While the log stays, so do the answers. *)
LEMMA AnswersStay == ASSUME log' = log PROVE AnswersAsWritten' = AnswersAsWritten
  BY DEF AnswersAsWritten, Answer, AsWritten, SignedChallenge, DecodeNonce, ToHex

(* An acceptance is one more answer, or none if its nonce was spelled anew.  *)
LEMMA AcceptedAnswer ==
  ASSUME IInv, NEW v \in Verifier, NEW p \in Presentation, VerifyWithStore(v, p, TRUE)
  PROVE  LET last == Len(log) + 1 IN
         /\ last \notin DOMAIN AnswersAsWritten
         /\ AsWritten(p) =>
               AnswersAsWritten' = [i \in DOMAIN AnswersAsWritten \cup {last} |->
                                      IF i = last THEN Answer(Accepting(v, p))
                                      ELSE AnswersAsWritten[i]]
         /\ ~AsWritten(p) => AnswersAsWritten' = AnswersAsWritten
  <1> DEFINE last == Len(log) + 1
             written == {i \in DOMAIN log : AsWritten(log[i].presentation)}
             after == {i \in DOMAIN log' : AsWritten(log'[i].presentation)}
  <1>1. /\ DOMAIN log' = DOMAIN log \cup {last} /\ last \notin DOMAIN log
        /\ \A i \in DOMAIN log : log'[i] = log[i]
        /\ log'[last] = Accepting(v, p)
    BY AcceptEffect
  <1>2. log'[last].presentation = p
    BY <1>1 DEF Accepting
  <1>3. after = IF AsWritten(p) THEN written \cup {last} ELSE written
    BY <1>1, <1>2
  <1>4. AnswersAsWritten = [i \in written |-> Answer(log[i])]
    BY DEF AnswersAsWritten
  <1>5. AnswersAsWritten' = [i \in after |-> Answer(log'[i])]
    BY DEF AnswersAsWritten, Answer, AsWritten, SignedChallenge, DecodeNonce, ToHex
  <1>6. \A i \in written : log'[i] = log[i] /\ i # last
    BY <1>1
  <1>7. QED
    BY <1>1, <1>3, <1>4, <1>5, <1>6

(* A NonceStore step is an acceptance, a tick or a stutter of SingleUse. *)
LEMMA StepRefines == IInv /\ [NSNext]_nsVars => [Abs!Next]_(Abs!vars)
  <1> SUFFICES ASSUME IInv, [NSNext]_nsVars PROVE [Abs!Next]_(Abs!vars)
    OBVIOUS
  <1>1. CASE UNCHANGED nsVars
    BY <1>1, AnswersStay DEF nsVars, Abs!vars
  <1>2. ASSUME NEW s \in Stores, EvictExpired(s) PROVE [Abs!Next]_(Abs!vars)
    BY <1>2, AnswersStay DEF EvictExpired, Abs!vars
  <1>3. CASE Tick
    <2>1. AnswersAsWritten' = AnswersAsWritten
      BY <1>3, AnswersStay DEF Tick
    <2>2. QED
      BY <1>3, <2>1, NonceStoreAssumption DEF Tick, IInv, TypeOK, Abs!Next, Abs!Advance
  <1>4. ASSUME NEW v \in Verifier, NEW p \in Presentation,
               Bound(v, p), VerifyWithStore(v, p, TRUE)
        PROVE  [Abs!Next]_(Abs!vars)
    <2> DEFINE e == Answer(Accepting(v, p))
               last == Len(log) + 1
    <2>1. now' = now
      BY <1>4, AcceptEffect
    <2>2. CASE ~AsWritten(p)
      BY <1>4, <2>1, <2>2, AcceptedAnswer DEF Abs!vars
    <2>3. CASE AsWritten(p)
      <3>1. /\ last \notin DOMAIN AnswersAsWritten
            /\ AnswersAsWritten' = [i \in DOMAIN AnswersAsWritten \cup {last} |->
                                       IF i = last THEN e ELSE AnswersAsWritten[i]]
        BY <1>4, <2>3, AcceptedAnswer
      <3>2. /\ e.pool = StoreOf[v] /\ e.challenge = SignedChallenge(p)
            /\ e.from = p.issued_at /\ e.until = p.expires_at /\ e.at = now
        BY DEF Answer, Accepting
      <3>3. p.audience = AudienceOf[v] /\ p.issued_at <= now /\ now <= p.expires_at
            /\ ~AlreadySeen(v, p)
        BY <1>4 DEF Bound
      <3>4. ASSUME NEW i \in DOMAIN AnswersAsWritten, Abs!Bars(AnswersAsWritten[i], e)
            PROVE  FALSE
        <4>1. /\ i \in DOMAIN log /\ AsWritten(log[i].presentation)
              /\ AnswersAsWritten[i] = Answer(log[i])
          BY AnswersDomain
        <4>2. /\ StoreOf[log[i].verifier] = StoreOf[v]
              /\ SignedChallenge(log[i].presentation) = SignedChallenge(p)
              /\ now <= log[i].presentation.expires_at
          BY <3>2, <3>4, <4>1 DEF Abs!Bars, Answer
        <4>3. /\ SameChallenge(log[i].presentation, p)
              /\ log[i].presentation.nonce = p.nonce
          BY <2>3, <4>1, <4>2, OneSpelling
        <4>4. QED
          BY <3>3, <4>1, <4>2, <4>3, BarredIsSeen
      <3>5. Abs!Accept(last, e)
        BY <2>1, <3>1, <3>2, <3>3, <3>4 DEF Abs!Accept
      <3>6. last \in DOMAIN AnswersAsWritten' /\ AnswersAsWritten'[last] = e
        BY <3>1
      <3>7. QED
        BY <3>5, <3>6 DEF Abs!Next
    <2>4. QED
      BY <2>2, <2>3
  <1>5. QED
    BY <1>1, <1>2, <1>3, <1>4, VerifyCases DEF NSNext

(* The table of consumed nonces implements the abstract promise, for signed  *)
(* challenges and the presentations that arrive as written.                  *)
THEOREM Refinement == NSSpec => ImplementsSingleUse
  <1>1. NSInit => Abs!Init
    BY DEF NSInit, Abs!Init, AnswersAsWritten
  <1>2. QED
    BY Invariance, <1>1, StepRefines, PTL DEF NSSpec, ImplementsSingleUse, Abs!Spec

(* A spent challenge is red at every verifier of the store, in the spelling  *)
(* in which it was spent: that text of its nonce is remembered under the     *)
(* audience it was accepted for (nonce.rs:98-100).                           *)
THEOREM SpentStaysRed == NSSpec => []SpentIsRed
  <1>1. IInv => SpentIsRed
    <2> SUFFICES ASSUME IInv, NEW i \in DOMAIN log, NEW v \in Verifier,
                        NEW p \in Presentation,
                        StoreOf[v] = StoreOf[log[i].verifier],
                        SameChallenge(p, log[i].presentation),
                        now <= log[i].presentation.expires_at,
                        Bound(v, p), p.nonce = log[i].presentation.nonce
                 PROVE  FALSE
      BY DEF SpentIsRed
    <2>1. AlreadySeen(log[i].verifier, log[i].presentation)
      BY DEF IInv, RemembersUnexpired
    <2>2. KeyOf(v, p) = KeyOf(log[i].verifier, log[i].presentation)
      BY SameKey DEF IInv, AcceptedInTime, Bound, KeyOf
    <2>3. AlreadySeen(v, p)
      BY <2>1, <2>2 DEF AlreadySeen
    <2>4. QED
      BY <2>3 DEF Bound
  <1>2. QED
    BY Invariance, <1>1, PTL

-------------------------------------------------------------------------------
(* An acceptance burns the nonce it answers and no other. *)
LEMMA AcceptBurnsOwn ==
  ASSUME IInv, OnlyAcceptedBurns, NEW v \in Verifier, NEW p \in Presentation,
         Bound(v, p), VerifyWithStore(v, p, TRUE)
  PROVE  OnlyAcceptedBurns'
  <1> DEFINE last == Len(log) + 1
             e == log'[last]
  <1>0. /\ seen' = Record(v, p)
        /\ DOMAIN log' = DOMAIN log \cup {last}
        /\ \A i \in DOMAIN log : log'[i] = log[i]
        /\ log'[last] = Accepting(v, p)
    BY AcceptEffect
  <1>1. last \in DOMAIN log' /\ e.verifier = v /\ e.presentation = p
    BY <1>0 DEF Accepting
  <1>2. KeyOf(v, p) = <<p.audience, p.nonce>>
    BY DEF Bound, KeyOf
  <1>3. ASSUME NEW s \in Stores, NEW k \in DOMAIN seen'[s]
        PROVE  \E i \in DOMAIN log' :
                  /\ StoreOf[log'[i].verifier] = s
                  /\ k = <<log'[i].presentation.audience, log'[i].presentation.nonce>>
    <2>1. CASE s = StoreOf[v] /\ k = KeyOf(v, p)
      BY <1>1, <1>2, <2>1
    <2>2. CASE ~(s = StoreOf[v] /\ k = KeyOf(v, p))
      <3>1. k \in DOMAIN seen[s]
        <4>1. /\ \A t \in Stores \ {StoreOf[v]} : Record(v, p)[t] = seen[t]
              /\ DOMAIN Record(v, p)[StoreOf[v]] = DOMAIN seen[StoreOf[v]] \cup {KeyOf(v, p)}
          BY RecordEffect DEF IInv
        <4>2. QED
          BY <1>0, <1>3, <2>2, <4>1
      <3>2. QED
        BY <1>0, <3>1 DEF OnlyAcceptedBurns
    <2>3. QED
      BY <2>1, <2>2
  <1>4. QED
    BY <1>3 DEF OnlyAcceptedBurns

(* Every remembered nonce was consumed by an accepted presentation: a        *)
(* rejection burns nothing (nonce.rs:98-100).                                *)
THEOREM RejectionBurnsNothing == NSSpec => []OnlyAcceptedBurns
  <1>1. NSInit => OnlyAcceptedBurns
    BY DEF NSInit, OnlyAcceptedBurns
  <1>2. IInv /\ OnlyAcceptedBurns /\ [NSNext]_nsVars => OnlyAcceptedBurns'
    <2> SUFFICES ASSUME IInv, OnlyAcceptedBurns, [NSNext]_nsVars
                 PROVE  OnlyAcceptedBurns'
      OBVIOUS
    <2>1. ASSUME NEW v \in Verifier, NEW p \in Presentation,
                 Bound(v, p), VerifyWithStore(v, p, TRUE)
          PROVE  OnlyAcceptedBurns'
      BY <2>1, AcceptBurnsOwn
    <2>2. ASSUME NEW s \in Stores, EvictExpired(s) PROVE OnlyAcceptedBurns'
      <3>1. log' = log /\ \A t \in Stores : DOMAIN seen'[t] \subseteq DOMAIN seen[t]
        BY <2>2 DEF EvictExpired, Restrict, Retained, IInv, TypeOK
      <3>2. QED
        BY <3>1 DEF OnlyAcceptedBurns
    <2>3. CASE Tick
      BY <2>3 DEF Tick, OnlyAcceptedBurns
    <2>4. CASE UNCHANGED nsVars
      BY <2>4 DEF nsVars, OnlyAcceptedBurns
    <2>5. QED
      BY <2>1, <2>2, <2>3, <2>4, VerifyCases DEF NSNext
  <1>3. QED
    BY Invariance, <1>1, <1>2, PTL DEF NSSpec

-------------------------------------------------------------------------------
(* The nonce file: the inductive invariant. *)

Orderly ==
    \A q \in Run :
        /\ before[q] \subseteq Over
        /\ pc[q] = "idle" => before[q] = {} /\ q \notin alone
        /\ pc[q] \in {"idle", "loading", "judging"} => ~verdict[q]

OnDiskAsWritten ==
    \A r \in alone :
        /\ pc[r] \in AliveAt => \A q \in Run : pc[q] \in AliveAt => q = r
        /\ pc[r] = "writing" => file.kind = "empty"
        /\ pc[r] = "reporting" => file = Whole(copy[r])

LaterOnesKnow ==
    \A r, q \in Run :
        /\ Settled(r) /\ pc[q] \in AliveAt => r \in before[q]
        /\ Settled(r) /\ r \in before[q] /\ pc[q] \in Loaded => asks[r] \in copy[q]
        /\ Settled(r) /\ r \in before[q] /\ asks[q] = asks[r] => ~verdict[q]

CliInv == CliTypeOK /\ Orderly /\ OnDiskAsWritten /\ KeptOrRefused /\ LaterOnesKnow

-------------------------------------------------------------------------------
(* Each conjunct of the type invariant is kept by every step. *)
LEMMA CliTypeInit == CliInit => CliTypeOK
  BY DEF CliInit, CliTypeOK, File, Absent, AliveAt

(* What may lie on disk after a write. *)
LEMMA OverlaidType ==
  ASSUME NEW records \in SUBSET Challenge, NEW f \in Overlaid(records)
  PROVE  /\ f \in File /\ (f.kind # "whole" => f.records = {})
         /\ f.kind # "absent"
         /\ f.kind = "whole" => f = Whole(records)
  BY DEF Overlaid, Whole, Broken, File

LEMMA CliTypeNext == CliInv /\ [CliNext]_cliVars => CliTypeOK'
  <1> SUFFICES ASSUME CliTypeOK, Orderly, [CliNext]_cliVars PROVE CliTypeOK'
    BY DEF CliInv
  <1> USE DEF CliTypeOK, Goto, AliveAt
  <1>1. ASSUME NEW r \in Run, Begin(r) PROVE CliTypeOK'
    <2>1. alone' \subseteq Run
      BY <1>1 DEF Begin, Alive
    <2>2. before' \in [Run -> SUBSET Run]
      BY <1>1 DEF Begin, Over
    <2>3. pc' \in [Run -> AliveAt \cup {"idle", "ended", "failed"}]
      BY <1>1 DEF Begin
    <2>4. file' = file /\ asks' = asks /\ copy' = copy /\ verdict' = verdict
      BY <1>1 DEF Begin
    <2>5. QED
      BY <2>1, <2>2, <2>3, <2>4
  <1>2. ASSUME NEW r \in Run, Load(r) PROVE CliTypeOK'
    <2>1. file.records \in SUBSET Challenge
      BY DEF File
    <2>2. copy' \in [Run -> SUBSET Challenge]
      BY <1>2, <2>1 DEF Load
    <2>3. \A q \in Run : verdict'[q] => asks'[q] \in copy'[q]
      BY <1>2 DEF Load, Orderly
    <2>4. QED
      BY <1>2, <2>2, <2>3 DEF Load
  <1>3. ASSUME NEW r \in Run, Unreadable(r) PROVE CliTypeOK'
    BY <1>3 DEF Unreadable
  <1>4. ASSUME NEW r \in Run, NEW rest \in BOOLEAN, Judge(r, rest) PROVE CliTypeOK'
    BY <1>4 DEF Judge
  <1>5. ASSUME NEW r \in Run, Truncate(r) PROVE CliTypeOK'
    BY <1>5 DEF Truncate, Empty, File
  <1>6. ASSUME NEW r \in Run, Write(r) PROVE CliTypeOK'
    BY <1>6, OverlaidType DEF Write
  <1>7. ASSUME NEW r \in Run, Report(r) PROVE CliTypeOK'
    BY <1>7 DEF Report
  <1>8. ASSUME NEW r \in Run, Stop(r) PROVE CliTypeOK'
    BY <1>8 DEF Stop, Broken, File
  <1>9. CASE UNCHANGED cliVars
    BY <1>9 DEF cliVars
  <1>10. QED
    BY <1>1, <1>2, <1>3, <1>4, <1>5, <1>6, <1>7, <1>8, <1>9 DEF CliNext

-------------------------------------------------------------------------------
(* The whole invariant. *)
LEMMA CliInvInit == CliInit => CliInv
  BY CliTypeInit DEF CliInit, CliInv, Orderly, OnDiskAsWritten, KeptOrRefused, LaterOnesKnow,
     Settled, Accepted, AliveAt, Loaded, Over

(* Only a report makes a process settled, and nothing unmakes it. *)
LEMMA SettledNext ==
  ASSUME CliInv, [CliNext]_cliVars, NEW r \in Run, Settled(r)'
  PROVE  /\ asks' = asks /\ verdict'[r] = verdict[r]
         /\ Settled(r) \/ (Report(r) /\ r \in alone /\ verdict[r])
  <1> DEFINE Goal == /\ asks' = asks /\ verdict'[r] = verdict[r]
                     /\ Settled(r) \/ (Report(r) /\ r \in alone /\ verdict[r])
  <1> USE DEF CliInv, CliTypeOK, Goto, AliveAt, Settled, Accepted
  <1>1. ASSUME NEW p \in Run, Begin(p) PROVE Goal
    BY <1>1 DEF Begin
  <1>2. ASSUME NEW p \in Run, Load(p) PROVE Goal
    BY <1>2 DEF Load
  <1>3. ASSUME NEW p \in Run, Unreadable(p) PROVE Goal
    BY <1>3 DEF Unreadable
  <1>4. ASSUME NEW p \in Run, NEW rest \in BOOLEAN, Judge(p, rest) PROVE Goal
    BY <1>4 DEF Judge
  <1>5. ASSUME NEW p \in Run, Truncate(p) PROVE Goal
    BY <1>5 DEF Truncate
  <1>6. ASSUME NEW p \in Run, Write(p) PROVE Goal
    BY <1>6 DEF Write
  <1>7. ASSUME NEW p \in Run, Report(p) PROVE Goal
    BY <1>7 DEF Report
  <1>8. ASSUME NEW p \in Run, Stop(p) PROVE Goal
    BY <1>8 DEF Stop
  <1>9. CASE UNCHANGED cliVars
    BY <1>9 DEF cliVars
  <1>10. QED
    BY <1>1, <1>2, <1>3, <1>4, <1>5, <1>6, <1>7, <1>8, <1>9 DEF CliNext

LEMMA OrderlyNext == CliInv /\ [CliNext]_cliVars => Orderly'
  <1> SUFFICES ASSUME CliInv, [CliNext]_cliVars PROVE Orderly'
    OBVIOUS
  <1> USE DEF CliInv, CliTypeOK, Orderly, Goto, AliveAt, Over
  <1>1. ASSUME NEW r \in Run, Begin(r) PROVE Orderly'
    BY <1>1 DEF Begin, Alive
  <1>2. ASSUME NEW r \in Run, Load(r) PROVE Orderly'
    BY <1>2 DEF Load
  <1>3. ASSUME NEW r \in Run, Unreadable(r) PROVE Orderly'
    BY <1>3 DEF Unreadable
  <1>4. ASSUME NEW r \in Run, NEW rest \in BOOLEAN, Judge(r, rest) PROVE Orderly'
    BY <1>4 DEF Judge
  <1>5. ASSUME NEW r \in Run, Truncate(r) PROVE Orderly'
    BY <1>5 DEF Truncate
  <1>6. ASSUME NEW r \in Run, Write(r) PROVE Orderly'
    BY <1>6 DEF Write
  <1>7. ASSUME NEW r \in Run, Report(r) PROVE Orderly'
    BY <1>7 DEF Report
  <1>8. ASSUME NEW r \in Run, Stop(r) PROVE Orderly'
    BY <1>8 DEF Stop
  <1>9. CASE UNCHANGED cliVars
    BY <1>9 DEF cliVars
  <1>10. QED
    BY <1>1, <1>2, <1>3, <1>4, <1>5, <1>6, <1>7, <1>8, <1>9 DEF CliNext

LEMMA OnDiskNext == CliInv /\ [CliNext]_cliVars => OnDiskAsWritten'
  <1> SUFFICES ASSUME CliInv, [CliNext]_cliVars PROVE OnDiskAsWritten'
    OBVIOUS
  <1> USE DEF CliInv, CliTypeOK, Orderly, OnDiskAsWritten, Goto, AliveAt
  <1>1. ASSUME NEW r \in Run, Begin(r) PROVE OnDiskAsWritten'
    BY <1>1 DEF Begin, Alive
  <1>2. ASSUME NEW r \in Run, Load(r) PROVE OnDiskAsWritten'
    BY <1>2 DEF Load
  <1>3. ASSUME NEW r \in Run, Unreadable(r) PROVE OnDiskAsWritten'
    BY <1>3 DEF Unreadable
  <1>4. ASSUME NEW r \in Run, NEW rest \in BOOLEAN, Judge(r, rest) PROVE OnDiskAsWritten'
    BY <1>4 DEF Judge
  <1>5. ASSUME NEW r \in Run, Truncate(r) PROVE OnDiskAsWritten'
    BY <1>5 DEF Truncate, Empty
  <1>6. ASSUME NEW r \in Run, Write(r) PROVE OnDiskAsWritten'
    BY <1>6 DEF Write, Overlaid, Whole
  <1>7. ASSUME NEW r \in Run, Report(r) PROVE OnDiskAsWritten'
    BY <1>7 DEF Report
  <1>8. ASSUME NEW r \in Run, Stop(r) PROVE OnDiskAsWritten'
    BY <1>8 DEF Stop
  <1>9. CASE UNCHANGED cliVars
    BY <1>9 DEF cliVars
  <1>10. QED
    BY <1>1, <1>2, <1>3, <1>4, <1>5, <1>6, <1>7, <1>8, <1>9 DEF CliNext

(* A process that settles at this step holds its own record and was alone, so *)
(* the file is what it wrote and every other process is over or not begun.    *)
LEMMA AtReport ==
  ASSUME CliInv, NEW r \in Run, Report(r), r \in alone, verdict[r]
  PROVE  /\ file = Whole(copy[r]) /\ asks[r] \in copy[r]
         /\ \A q \in Run : pc'[q] \notin AliveAt
         /\ \A q \in Run : r \notin before[q]
  BY DEF CliInv, CliTypeOK, Orderly, OnDiskAsWritten, Report, Goto, AliveAt, Over

LEMMA KeptNext == CliInv /\ [CliNext]_cliVars => KeptOrRefused'
  <1> SUFFICES ASSUME CliInv, [CliNext]_cliVars, NEW r \in Run, Settled(r)'
               PROVE  /\ file'.kind # "absent"
                      /\ file'.kind = "whole" => asks'[r] \in file'.records
    BY DEF KeptOrRefused
  <1> DEFINE Goal == file'.kind # "absent" /\ (file'.kind = "whole" => asks'[r] \in file'.records)
  <1>1. CASE Report(r) /\ r \in alone /\ verdict[r]
    BY <1>1, AtReport, SettledNext DEF Report, Whole
  <1>2. ASSUME Settled(r) PROVE Goal
    <2>1. /\ file.kind # "absent" /\ (file.kind = "whole" => asks[r] \in file.records)
          /\ asks' = asks
      BY <1>2, SettledNext DEF CliInv, KeptOrRefused
    <2>2. CASE UNCHANGED file
      BY <2>1, <2>2
    <2>3. ASSUME NEW q \in Run, Truncate(q) PROVE Goal
      BY <2>3 DEF Truncate, Empty
    <2>4. ASSUME NEW q \in Run, Write(q) PROVE Goal
      <3>1. asks[r] \in copy[q] /\ copy[q] \in SUBSET Challenge
        BY <1>2, <2>4 DEF CliInv, CliTypeOK, LaterOnesKnow, Write, Loaded, AliveAt
      <3>2. file' \in Overlaid(copy[q])
        BY <2>4 DEF Write
      <3>3. file'.kind # "absent" /\ (file'.kind = "whole" => file' = Whole(copy[q]))
        BY <3>1, <3>2, OverlaidType
      <3>4. QED
        BY <2>1, <3>1, <3>3 DEF Whole
    <2>5. ASSUME NEW q \in Run, Stop(q) PROVE Goal
      BY <2>1, <2>5 DEF Stop, Broken
    <2>6. QED
      BY <2>2, <2>3, <2>4, <2>5
         DEF CliNext, cliVars, Begin, Load, Unreadable, Judge, Report
  <1>3. QED
    BY <1>1, <1>2, SettledNext

LEMMA LaterNext == CliInv /\ [CliNext]_cliVars => LaterOnesKnow'
  <1> SUFFICES ASSUME CliInv, [CliNext]_cliVars, NEW r \in Run, NEW q \in Run, Settled(r)'
               PROVE  /\ pc'[q] \in AliveAt => r \in before'[q]
                      /\ r \in before'[q] /\ pc'[q] \in Loaded => asks'[r] \in copy'[q]
                      /\ r \in before'[q] /\ asks'[q] = asks'[r] => ~verdict'[q]
    BY DEF LaterOnesKnow, Settled, Accepted
  <1> DEFINE Goal == /\ pc'[q] \in AliveAt => r \in before'[q]
                     /\ r \in before'[q] /\ pc'[q] \in Loaded => asks'[r] \in copy'[q]
                     /\ r \in before'[q] /\ asks'[q] = asks'[r] => ~verdict'[q]
  <1>1. CASE Report(r) /\ r \in alone /\ verdict[r]
    BY <1>1, AtReport DEF Report
  <1>2. ASSUME Settled(r) PROVE Goal
    <2>1. /\ pc[q] \in AliveAt => r \in before[q]
          /\ r \in before[q] /\ pc[q] \in Loaded => asks[r] \in copy[q]
          /\ r \in before[q] /\ asks[q] = asks[r] => ~verdict[q]
          /\ asks' = asks
          /\ file.kind # "absent" /\ (file.kind = "whole" => asks[r] \in file.records)
          /\ r \in Over
      BY <1>2, SettledNext DEF CliInv, LaterOnesKnow, KeptOrRefused, Settled, Accepted, Over
    <2> USE DEF CliInv, CliTypeOK, Goto, AliveAt, Loaded
    <2>2. ASSUME NEW p \in Run, Begin(p) PROVE Goal
      BY <2>1, <2>2 DEF Begin, Orderly
    <2>3. ASSUME NEW p \in Run, Load(p) PROVE Goal
      BY <2>1, <2>3 DEF Load
    <2>4. ASSUME NEW p \in Run, Unreadable(p) PROVE Goal
      BY <2>1, <2>4 DEF Unreadable
    <2>5. ASSUME NEW p \in Run, NEW rest \in BOOLEAN, Judge(p, rest) PROVE Goal
      BY <2>1, <2>5 DEF Judge
    <2>6. ASSUME NEW p \in Run, Truncate(p) PROVE Goal
      BY <2>1, <2>6 DEF Truncate
    <2>7. ASSUME NEW p \in Run, Write(p) PROVE Goal
      BY <2>1, <2>7 DEF Write
    <2>8. ASSUME NEW p \in Run, Report(p) PROVE Goal
      BY <2>1, <2>8 DEF Report
    <2>9. ASSUME NEW p \in Run, Stop(p) PROVE Goal
      BY <2>1, <2>9 DEF Stop
    <2>10. CASE UNCHANGED cliVars
      BY <2>1, <2>10 DEF cliVars
    <2>11. QED
      BY <2>2, <2>3, <2>4, <2>5, <2>6, <2>7, <2>8, <2>9, <2>10 DEF CliNext
  <1>3. QED
    BY <1>1, <1>2, SettledNext

THEOREM CliInvariance == CliSpec => []CliInv
  <1>1. CliInv /\ [CliNext]_cliVars => CliInv'
    BY CliTypeNext, OrderlyNext, OnDiskNext, KeptNext, LaterNext DEF CliInv
  <1>2. QED
    BY CliInvInit, <1>1, PTL DEF CliSpec

-------------------------------------------------------------------------------
(* The processes, their records and the file keep their types; a report that *)
(* accepts has its record in memory.                                         *)
THEOREM CliTypeCorrect == CliSpec => []CliTypeOK
  <1>1. CliInv => CliTypeOK
    BY DEF CliInv
  <1>2. QED
    BY CliInvariance, <1>1, PTL

(* What a process accepted alone is never accepted again (main.rs:446-453).  *)
THEOREM AloneIsFinalHolds == CliSpec => []AloneIsFinal
  <1>1. CliInv => AloneIsFinal
    BY DEF CliInv, LaterOnesKnow, AloneIsFinal, Accepted
  <1>2. QED
    BY CliInvariance, <1>1, PTL

(* And its record is in the file whenever the file can be read.              *)
THEOREM KeptOrRefusedHolds == CliSpec => []KeptOrRefused
  <1>1. CliInv => KeptOrRefused
    BY DEF CliInv
  <1>2. QED
    BY CliInvariance, <1>1, PTL
-------------------------------------------------------------------------------
(* The wallet's file. *)

(* A save that is not torn is the only one, over an emptied file. *)
AloneAtIt ==
    ~torn => /\ \A g, h \in Writing : g = h
             /\ Writing # {} => disk = Unusable("empty")

WfInv == WfTypeOK /\ AloneAtIt /\ IntactUnlessTorn /\ CurrentCopiesLoseNothing

-------------------------------------------------------------------------------
LEMMA WfInitInv == WfInit => WfInv
  <1>1. SUFFICES ASSUME WfInit PROVE WfInv
    OBVIOUS
  <1>2. WfTypeOK
    <2>1. /\ disk = Unusable("absent") /\ saved = Unusable("absent") /\ torn \in BOOLEAN
          /\ at \in [Handle -> {"closed", "open", "writing"}] /\ based = {}
      BY <1>1 DEF WfInit
    <2>2. mem \in [Handle -> Content] /\ sealing \in [Handle -> Passphrase]
      BY <1>1 DEF WfInit, Content
    <2> QED
      BY <2>1, <2>2 DEF WfTypeOK
  <1>3. Writing = {} /\ disk = saved /\ saved.kind = "absent"
    BY <1>1 DEF WfInit, Writing, Unusable
  <1> QED
    BY <1>2, <1>3 DEF WfInv, AloneAtIt, IntactUnlessTorn, CurrentCopiesLoseNothing

(* Text laid over the file is whole, or does not open. *)
LEMMA WholeOrBroken ==
  ASSUME NEW text, NEW laid \in LaidOver(text)
  PROVE  /\ laid \in {text, Unusable("broken")}
         /\ disk.kind = "empty" => laid = text
  BY DEF LaidOver

(* Opening a handle changes neither the file nor who writes it. *)
LEMMA OpenKeepsWriting ==
  ASSUME WfTypeOK, NEW h \in Handle, NEW content \in Content, Open(h, content)
  PROVE  /\ Writing' = Writing
         /\ at' \in [Handle -> {"closed", "open", "writing"}]
         /\ mem' \in [Handle -> Content]
         /\ at'[h] = "open" /\ mem'[h] = content
         /\ \A g \in Handle \ {h} : at'[g] = at[g] /\ mem'[g] = mem[g]
  BY DEF WfTypeOK, Open, Writing

(* Opening a handle that is current, if it is counted among those. *)
LEMMA OpenInv ==
  ASSUME WfInv, NEW h \in Handle, NEW content \in Content, Open(h, content),
         based' \in {based, based \cup {h}},
         h \in based' /\ saved.kind = "sealed" => content = saved.content
  PROVE  WfInv'
  <1>1. WfTypeOK /\ at[h] = "closed" /\ UNCHANGED <<disk, sealing, saved, torn>>
    BY DEF WfInv, Open
  <1>2. /\ Writing' = Writing
        /\ at' \in [Handle -> {"closed", "open", "writing"}]
        /\ mem' \in [Handle -> Content]
        /\ at'[h] = "open" /\ mem'[h] = content
        /\ \A g \in Handle \ {h} : at'[g] = at[g] /\ mem'[g] = mem[g]
    BY <1>1, OpenKeepsWriting
  <1>3. based' \subseteq {g \in Handle : at'[g] # "closed"}
    BY <1>1, <1>2 DEF WfTypeOK
  <1>4. WfTypeOK'
    BY <1>1, <1>2, <1>3 DEF WfTypeOK
  <1>5. AloneAtIt' /\ IntactUnlessTorn'
    BY <1>1, <1>2 DEF WfInv, AloneAtIt, IntactUnlessTorn
  <1>6. ASSUME saved'.kind = "sealed", NEW g \in based'
        PROVE  /\ mem'[g].owner = saved'.content.owner
               /\ saved'.content.claims \subseteq mem'[g].claims
    <2>1. CASE g = h
      BY <2>1, <1>6, <1>1, <1>2
    <2>2. CASE g # h
      BY <2>2, <1>6, <1>1, <1>2 DEF WfInv, WfTypeOK, CurrentCopiesLoseNothing
    <2> QED
      BY <2>1, <2>2
  <1> QED
    BY <1>4, <1>5, <1>6 DEF WfInv, CurrentCopiesLoseNothing

LEMMA CreateInv ==
  ASSUME WfInv, NEW h \in Handle, NEW o \in Owner, Create(h, o)
  PROVE  WfInv'
  <1>1. [owner |-> o, claims |-> {}] \in Content
    BY DEF Content
  <1>2. Open(h, [owner |-> o, claims |-> {}]) /\ based' \in {based, based \cup {h}}
    BY DEF Create
  <1>3. h \notin based
    BY <1>2 DEF WfInv, WfTypeOK, Open
  <1>4. saved.kind = "sealed" => h \notin based'
    BY <1>3 DEF Create
  <1> QED
    BY <1>1, <1>2, <1>4, OpenInv

LEMMA LoadWalletInv ==
  ASSUME WfInv, NEW h \in Handle, NEW pass \in Passphrase, LoadWallet(h, pass)
  PROVE  WfInv'
  <1>1. disk.kind = "sealed" /\ Open(h, disk.content) /\ based' = based \cup {h}
    BY DEF LoadWallet
  <1>2. disk = saved
    BY <1>1 DEF WfInv, IntactUnlessTorn
  <1>3. disk.content \in Content
    BY <1>1 DEF WfInv, WfTypeOK, SealedFile, Unusable
  <1> QED
    BY <1>1, <1>2, <1>3, OpenInv

LEMMA AddClaimInv ==
  ASSUME WfInv, NEW h \in Handle, NEW c \in Evidence, AddClaim(h, c)
  PROVE  WfInv'
  <1>1. /\ WfTypeOK /\ UNCHANGED <<disk, at, sealing, saved, torn, based>>
        /\ mem' = [mem EXCEPT ![h].claims = @ \cup {c}]
    BY DEF WfInv, AddClaim
  <1>2. /\ mem' \in [Handle -> Content]
        /\ \A g \in Handle : mem'[g].owner = mem[g].owner /\ mem[g].claims \subseteq mem'[g].claims
    BY <1>1 DEF WfTypeOK, Content
  <1>3. WfTypeOK'
    BY <1>1, <1>2 DEF WfTypeOK
  <1>4. Writing' = Writing
    BY <1>1 DEF Writing
  <1>5. AloneAtIt' /\ IntactUnlessTorn'
    BY <1>1, <1>4 DEF WfInv, AloneAtIt, IntactUnlessTorn
  <1>6. CurrentCopiesLoseNothing'
    <2>1. based \subseteq Handle
      BY <1>1 DEF WfTypeOK
    <2> QED
      BY <1>1, <1>2, <2>1 DEF WfInv, CurrentCopiesLoseNothing
  <1> QED
    BY <1>3, <1>5, <1>6 DEF WfInv

LEMMA BeginSaveInv ==
  ASSUME WfInv, NEW h \in Handle, NEW pass \in Passphrase, BeginSave(h, pass)
  PROVE  WfInv'
  <1>1. /\ WfTypeOK /\ UNCHANGED <<mem, saved, based>>
        /\ at[h] = "open" /\ at' = [at EXCEPT ![h] = "writing"]
        /\ sealing' = [sealing EXCEPT ![h] = pass]
        /\ disk' = Unusable("empty") /\ torn' = (Writing # {})
    BY DEF WfInv, BeginSave
  <1>2. Writing' = Writing \cup {h}
    BY <1>1 DEF Writing, WfTypeOK
  <1>3. WfTypeOK'
    BY <1>1 DEF WfTypeOK
  <1>4. AloneAtIt'
    BY <1>1, <1>2 DEF AloneAtIt
  <1>5. IntactUnlessTorn'
    BY <1>1, <1>2 DEF IntactUnlessTorn, Unusable
  <1>6. CurrentCopiesLoseNothing'
    BY <1>1 DEF WfInv, CurrentCopiesLoseNothing
  <1> QED
    BY <1>3, <1>4, <1>5, <1>6 DEF WfInv

LEMMA EndSaveInv ==
  ASSUME WfInv, NEW h \in Handle, EndSave(h)
  PROVE  WfInv'
  <1>1. /\ WfTypeOK /\ UNCHANGED <<mem, sealing, torn>>
        /\ at[h] = "writing" /\ at' = [at EXCEPT ![h] = "open"]
        /\ saved' = Sealed(mem[h], sealing[h]) /\ disk' \in LaidOver(saved')
        /\ based' = {h}
    BY DEF WfInv, EndSave
  <1>2. Writing' = Writing \ {h} /\ h \in Writing
    BY <1>1 DEF Writing, WfTypeOK
  <1>3. disk' \in {saved', Unusable("broken")} /\ (disk.kind = "empty" => disk' = saved')
    BY <1>1, WholeOrBroken
  <1>4. saved' \in SealedFile /\ saved'.content = mem[h]
    BY <1>1 DEF WfTypeOK, Sealed, SealedFile
  <1>5. WfTypeOK'
    BY <1>1, <1>3, <1>4 DEF WfTypeOK
  <1>6. ~torn => Writing' = {} /\ disk' = saved'
    BY <1>2, <1>3 DEF WfInv, AloneAtIt, Unusable
  <1>7. AloneAtIt' /\ IntactUnlessTorn'
    BY <1>1, <1>3, <1>6 DEF AloneAtIt, IntactUnlessTorn, Unusable
  <1>8. CurrentCopiesLoseNothing'
    BY <1>1, <1>4 DEF CurrentCopiesLoseNothing
  <1> QED
    BY <1>5, <1>7, <1>8 DEF WfInv

LEMMA CutShortInv ==
  ASSUME WfInv, NEW h \in Handle, NEW where \in {"open", "closed"}, CutShort(h, where)
  PROVE  WfInv'
  <1>1. /\ WfTypeOK /\ UNCHANGED <<mem, sealing, saved>>
        /\ at' = [at EXCEPT ![h] = where] /\ disk' \in {disk, Unusable("broken")}
        /\ torn' = TRUE /\ based' \subseteq based /\ (where = "closed" => h \notin based')
    BY DEF WfInv, CutShort
  <1>2. WfTypeOK'
    BY <1>1 DEF WfTypeOK
  <1>3. AloneAtIt' /\ IntactUnlessTorn'
    BY <1>1 DEF WfInv, AloneAtIt, IntactUnlessTorn, Unusable
  <1>4. CurrentCopiesLoseNothing'
    BY <1>1 DEF WfInv, CurrentCopiesLoseNothing
  <1> QED
    BY <1>2, <1>3, <1>4 DEF WfInv

LEMMA CloseInv ==
  ASSUME WfInv, NEW h \in Handle, Close(h)
  PROVE  WfInv'
  <1>1. /\ WfTypeOK /\ UNCHANGED <<disk, mem, sealing, saved, torn>>
        /\ at[h] = "open" /\ at' = [at EXCEPT ![h] = "closed"] /\ based' = based \ {h}
    BY DEF WfInv, Close
  <1>2. Writing' = Writing
    BY <1>1 DEF Writing, WfTypeOK
  <1>3. WfTypeOK'
    BY <1>1 DEF WfTypeOK
  <1>4. AloneAtIt' /\ IntactUnlessTorn'
    BY <1>1, <1>2 DEF WfInv, AloneAtIt, IntactUnlessTorn
  <1>5. CurrentCopiesLoseNothing'
    BY <1>1 DEF WfInv, CurrentCopiesLoseNothing
  <1> QED
    BY <1>3, <1>4, <1>5 DEF WfInv

LEMMA WfStepInv == WfInv /\ [WfNext]_wfVars => WfInv'
  <1> SUFFICES ASSUME WfInv, [WfNext]_wfVars PROVE WfInv'
    OBVIOUS
  <1>1. ASSUME NEW h \in Handle, NEW o \in Owner, Create(h, o) PROVE WfInv'
    BY <1>1, CreateInv
  <1>2. ASSUME NEW h \in Handle, NEW pass \in Passphrase, LoadWallet(h, pass) PROVE WfInv'
    BY <1>2, LoadWalletInv
  <1>3. ASSUME NEW h \in Handle, NEW pass \in Passphrase, BeginSave(h, pass) PROVE WfInv'
    BY <1>3, BeginSaveInv
  <1>4. ASSUME NEW h \in Handle, NEW c \in Evidence, AddClaim(h, c) PROVE WfInv'
    BY <1>4, AddClaimInv
  <1>5. ASSUME NEW h \in Handle, EndSave(h) PROVE WfInv'
    BY <1>5, EndSaveInv
  <1>6. ASSUME NEW h \in Handle, Close(h) PROVE WfInv'
    BY <1>6, CloseInv
  <1>7. ASSUME NEW h \in Handle, NEW where \in {"open", "closed"}, CutShort(h, where) PROVE WfInv'
    BY <1>7, CutShortInv
  <1>8. CASE UNCHANGED wfVars
    <2>1. Writing' = Writing
      BY <1>8 DEF wfVars, Writing
    <2> QED
      BY <1>8, <2>1 DEF wfVars, WfInv, WfTypeOK, AloneAtIt, IntactUnlessTorn, CurrentCopiesLoseNothing
  <1> QED
    BY <1>1, <1>2, <1>3, <1>4, <1>5, <1>6, <1>7, <1>8 DEF WfNext

LEMMA WfInvHolds == WfSpec => []WfInv
  BY WfInitInv, WfStepInv, PTL DEF WfSpec

-------------------------------------------------------------------------------
(* The file, the handles and what they hold keep their types, and only open  *)
(* handles count as current (lib.rs:89-113, 246-282).                        *)
THEOREM WfTypeCorrect == WfSpec => []WfTypeOK
  <1>1. WfInv => WfTypeOK
    BY DEF WfInv
  <1> QED
    BY <1>1, WfInvHolds, PTL

(* Whoever saves and however saves overlap or are cut short: a wallet file   *)
(* that opens is what the last completed save wrote, and it opens unless the *)
(* last save was torn (lib.rs:246-263).                                      *)
THEOREM IntactHolds == WfSpec => []IntactUnlessTorn
  <1>1. WfInv => IntactUnlessTorn
    BY DEF WfInv
  <1> QED
    BY <1>1, WfInvHolds, PTL

(* A handle loaded after the last save, or that made it, has everything that *)
(* save wrote (lib.rs:264-282).                                              *)
THEOREM CurrentHolds == WfSpec => []CurrentCopiesLoseNothing
  <1>1. WfInv => CurrentCopiesLoseNothing
    BY DEF WfInv
  <1> QED
    BY <1>1, WfInvHolds, PTL

-------------------------------------------------------------------------------
(* What a verdict and a disclosure on the command line are worth, for any     *)
(* number of invocations, scripts and files, however the processes overlap.   *)
(*                                                                            *)
(* The invariant traces texts to their makers.  Whatever parses as a claim,   *)
(* a presentation or a document of one, in a file or read from one, was       *)
(* computed by an invocation that is known from it; what an invocation        *)
(* computed is what its command makes of its arguments and of what it read;   *)
(* and an id the user saw is still in the file, or was read, unless someone   *)
(* wrote to the inputs since.                                                 *)

-------------------------------------------------------------------------------
(* The inductive invariant. *)

Steps == {"idle", "running", "writing", "ended", "failed"}

CmdTypes ==
    /\ job \in Scripts /\ DOMAIN path = DOMAIN Given \cup Paths
    /\ time \in 0..MaxTime /\ started \in [Invocation -> 0..MaxTime]
    /\ step \in [Invocation -> Steps]
    /\ DOMAIN named = Invocation /\ DOMAIN got = Invocation /\ DOMAIN made = Invocation
    /\ \A r \in Invocation : got[r] \in Seq(Range(got[r]))
    /\ \A r \in Invocation : step[r] = "idle" => got[r] = <<>>

(* Behind a claim or a credential is an invocation that computed it, and a   *)
(* presentation or a document of one names it: m is what each made, jobs     *)
(* what each is to do.                                                       *)
Traced(kind, value, m, jobs) ==
    /\ kind = "claim" => \E r \in Invocation : m[r] = Parsed("claim", value)
    /\ kind \in {"presentation", "vp"} =>
          /\ value.nonce \in DOMAIN jobs /\ jobs[value.nonce].cmd = "present"
          /\ m[value.nonce] = Parsed("presentation", value)
    /\ kind = "vc" => \E e \in DOMAIN jobs : m[e] = Parsed("vc", value)

AllTraced ==
    /\ \A f \in DOMAIN path : Traced(path[f].kind, path[f].value, made, job)
    /\ \A r \in DOMAIN job : \A n \in DOMAIN got[r] :
          Traced(Expected(job[r])[n], got[r][n], made, job)
    /\ \A r \in Invocation : Traced(made[r].kind, made[r].value, made, job)

(* What `present` shows of the claims it read, with these --reveal entries. *)
ShownOf(claims, entries) ==
    [i \in DOMAIN claims |-> DiscloseBy(claims[i], LookUp(entries, claims[i].claim_id))]

KeysKnown(claims, entries) ==
    \A i \in DOMAIN claims :
        LET keys == LookUp(entries, claims[i].claim_id)
        IN  keys # AllFields => keys \subseteq DOMAIN claims[i].body_root

(* x is what invocation r of job j makes at time t of the inputs g, and of   *)
(* the entries e.                                                            *)
Computes(j, g, e, r, x, t) ==
    \/ j.cmd = "keygen" /\ x = Parsed("secret", r)
    \/ /\ j.cmd = "issue"
       /\ x = Parsed("claim", IssueClaim(j.subject, g[1], "employment", "v1", t, j.until,
                                         j.body, {}))
    \/ /\ j.cmd = "issue-check"
       /\ x = Parsed("claim", IssueClaim(j.subject, g[1], "background_check", "v1", t, OpenEnd,
                                         j.body, {}))
    \/ /\ j.cmd = "present" /\ KeysKnown(Tail(g), e)
       /\ x = Parsed("presentation", BuildFor(g[1], j.audience, r, t, j.expires_in,
                                              ShownOf(Tail(g), e)))
    \/ /\ j.cmd = "verify"
       /\ x = Parsed("verdict", Accepts(FailedChecks(g[1], j.audience, t, KnownIssuers(j), FALSE,
                                                     j.predicates)))
    \/ j.cmd = "export-vp" /\ x = Parsed("vp", g[1])
    \/ j.cmd = "import-vp" /\ x = Parsed("presentation", g[1])
    \/ /\ j.cmd = "export-vc"
       /\ x = Parsed("vc", [method |-> j.issuer_key, disclosed |-> g[1]])
    \/ /\ j.cmd = "import-vc" /\ g[1].method = g[1].disclosed.issuer_id
       /\ x = Parsed("disclosed", g[1].disclosed)

MadeOK ==
    /\ \A r \in Invocation : step[r] \in {"idle", "running"} => made[r].kind = "none"
    /\ \A r \in Invocation : made[r].kind # "none" =>
          /\ r \in DOMAIN job /\ Len(got[r]) = Len(job[r].in)
          /\ Computes(job[r], got[r], named[r], r, made[r], started[r])

(* The entries a process goes by are those of its command line, and the ids  *)
(* in them those of the claims, as long as nobody wrote to its inputs.       *)
SeenBy(r) ==
    /\ named[r] \in Seq(Range(named[r])) /\ DOMAIN named[r] = DOMAIN job[r].reveal
    /\ \A i \in DOMAIN named[r] : named[r][i].keys = job[r].reveal[i].keys
    /\ r \notin replaced => \A i \in DOMAIN named[r] :
          LET of == job[r].reveal[i].of
          IN  /\ step[r] = "running" =>
                     path[job[r].in[of]].value.claim_id = named[r][i].claim_id
              /\ of \in DOMAIN got[r] => got[r][of].claim_id = named[r][i].claim_id

SeenOK == \A r \in DOMAIN job : job[r].cmd = "present" /\ step[r] # "idle" => SeenBy(r)

CmdInv == CmdTypes /\ AllTraced /\ MadeOK /\ SeenOK

-------------------------------------------------------------------------------
(* The command lines. *)

LEMMA JobsAre ==
  ASSUME job \in Scripts, NEW r \in DOMAIN job
  PROVE  /\ r \in Invocation /\ job[r].in \in Seq(Range(job[r].in))
         /\ DOMAIN job[r].in = 1..Len(job[r].in) /\ Len(job[r].in) \in Nat
         /\ Stdout \notin Range(job[r].in)
         /\ job[r].cmd # "keygen" => Len(job[r].in) > 0
         /\ job[r].cmd = "present" =>
               /\ Len(job[r].in) > 1 /\ job[r].expires_in \in MinSecond..MaxSecond
               /\ job[r].reveal \in Seq(Range(job[r].reveal))
               /\ \A i \in DOMAIN job[r].reveal :
                     job[r].reveal[i].of \in 2..Len(job[r].in) /\ job[r].reveal[i].keys # AllFields
  <1>1. DOMAIN job \subseteq Invocation /\ job[r] \in Range(job)
    BY CommandAssumption DEF Range
  <1> DEFINE j == job[r]
  <1>2. /\ j.in \in Seq(Range(j.in)) /\ Stdout \notin Range(j.in)
        /\ j.cmd # "keygen" => Len(j.in) > 0
        /\ j.cmd = "present" =>
              /\ Len(j.in) > 1 /\ j.expires_in \in MinSecond..MaxSecond
              /\ j.reveal \in Seq(Range(j.reveal))
              /\ \A e \in Range(j.reveal) : e.of \in 2..Len(j.in) /\ e.keys # AllFields
    BY <1>1, CommandAssumption
  <1>3. DOMAIN j.in = 1..Len(j.in) /\ Len(j.in) \in Nat
    BY <1>2
  <1>4. j.cmd = "present" => \A i \in DOMAIN j.reveal :
            j.reveal[i].of \in 2..Len(j.in) /\ j.reveal[i].keys # AllFields
    BY <1>2 DEF Range
  <1>5. QED
    BY <1>1, <1>2, <1>3, <1>4

LEMMA InputsAreFiles ==
  ASSUME CmdTypes, NEW r \in DOMAIN job, NEW n \in DOMAIN job[r].in
  PROVE  job[r].in[n] \in DOMAIN path /\ job[r].in[n] \in Range(job[r].in)
  <1>1. job[r].in[n] \in Range(job[r].in) /\ Stdout \notin Range(job[r].in)
    BY JobsAre DEF Range, CmdTypes
  <1>2. job[r] \in Range(job)
    BY DEF Range
  <1>3. QED
    BY <1>1, <1>2 DEF CmdTypes, Paths

(* What was traced stays traced as long as nothing made is forgotten. *)
LEMMA TracedStays ==
  ASSUME NEW kind, NEW value, NEW m, NEW m2, NEW jobs, DOMAIN jobs \subseteq Invocation,
         \A r \in Invocation : m[r].kind # "none" => m2[r] = m[r],
         Traced(kind, value, m, jobs)
  PROVE  Traced(kind, value, m2, jobs)
  <1>1. ASSUME NEW k, k # "none", NEW v, NEW r \in Invocation, m[r] = Parsed(k, v)
        PROVE  m2[r] = Parsed(k, v)
    <2>1. m[r].kind = k
      BY <1>1 DEF Parsed
    <2>2. QED
      BY <1>1, <2>1
  <1>2. kind = "claim" => \E r \in Invocation : m2[r] = Parsed("claim", value)
    BY <1>1 DEF Traced
  <1>3. kind \in {"presentation", "vp"} =>
          /\ value.nonce \in DOMAIN jobs /\ jobs[value.nonce].cmd = "present"
          /\ m2[value.nonce] = Parsed("presentation", value)
    BY <1>1 DEF Traced
  <1>4. kind = "vc" => \E e \in DOMAIN jobs : m2[e] = Parsed("vc", value)
    BY <1>1 DEF Traced
  <1>5. QED
    BY <1>2, <1>3, <1>4 DEF Traced

(* A text that is none of these needs no maker. *)
LEMMA NeedsNoMaker ==
  ASSUME NEW kind, kind \notin {"claim", "presentation", "vp", "vc"}, NEW value, NEW m, NEW jobs
  PROVE  Traced(kind, value, m, jobs)
  BY DEF Traced

-------------------------------------------------------------------------------
(* The steps. *)

LEMMA CmdInvInit == CmdInit => CmdInv
  <1> SUFFICES ASSUME CmdInit PROVE CmdInv
    OBVIOUS
  <1>1. \A r \in Invocation : /\ step[r] = "idle" /\ named[r] = <<>> /\ got[r] = <<>>
                              /\ made[r].kind = "none" /\ started[r] = 0
    BY DEF CmdInit, Unparsed
  <1>2. CmdTypes
    <2>1. 0 \in 0..MaxTime
      BY CommandAssumption
    <2>2. DOMAIN path = DOMAIN Given \cup Paths
      BY DEF CmdInit
    <2>3. QED
      BY <1>1, <2>1, <2>2 DEF CmdTypes, CmdInit, Steps
  <1>3. ASSUME NEW f \in DOMAIN path PROVE path[f].kind \in {"secret", "disclosed", "absent"}
    BY <1>3, CommandAssumption DEF CmdInit, Unparsed
  <1>4. AllTraced
    <2>1. \A f \in DOMAIN path : Traced(path[f].kind, path[f].value, made, job)
      BY <1>3, NeedsNoMaker
    <2>2. \A r \in DOMAIN job : DOMAIN got[r] = {}
      BY <1>1, JobsAre DEF CmdInit
    <2>3. \A r \in Invocation : Traced(made[r].kind, made[r].value, made, job)
      BY <1>1, NeedsNoMaker
    <2>4. QED
      BY <2>1, <2>2, <2>3 DEF AllTraced
  <1>5. MadeOK
    BY <1>1 DEF MadeOK
  <1>6. SeenOK
    BY <1>1, JobsAre DEF SeenOK, CmdInit
  <1>7. QED
    BY <1>2, <1>4, <1>5, <1>6 DEF CmdInv

(* What process r does once it has begun, other than to read, leaves what    *)
(* the others saw in their inputs as it was, or marks them.                  *)
LEMMA SeenStays ==
  ASSUME CmdTypes, SeenOK, NEW r \in DOMAIN job, NEW s, s # "running",
         step[r] # "idle", step' = [step EXCEPT ![r] = s],
         UNCHANGED <<job, named, got>>,
         NEW f, NEW text,
         \/ UNCHANGED <<path, replaced>>
         \/ path' = [path EXCEPT ![f] = text] /\ replaced' = replaced \cup Overwritten(f, r)
  PROVE  SeenOK'
  <1> SUFFICES ASSUME NEW q \in DOMAIN job, job[q].cmd = "present", step'[q] # "idle"
               PROVE  SeenBy(q)'
    BY DEF SeenOK
  <1>1. q \in Invocation /\ r \in Invocation
    BY JobsAre DEF CmdTypes
  <1>2. step[q] # "idle" /\ (step'[q] = "running" => q # r /\ step[q] = "running")
    BY <1>1 DEF CmdTypes
  <1>3. SeenBy(q)
    BY <1>2 DEF SeenOK
  <1>4. q \notin replaced' => q \notin replaced
    OBVIOUS
  <1>5. ASSUME q \notin replaced', NEW i \in DOMAIN named[q]
        PROVE  LET of == job[q].reveal[i].of
               IN  /\ step'[q] = "running" =>
                        path'[job[q].in[of]].value.claim_id = named[q][i].claim_id
                   /\ of \in DOMAIN got[q] => got[q][of].claim_id = named[q][i].claim_id
    <2> DEFINE of == job[q].reveal[i].of
               g == job[q].in[of]
    <2>1. /\ step[q] = "running" => path[g].value.claim_id = named[q][i].claim_id
          /\ of \in DOMAIN got[q] => got[q][of].claim_id = named[q][i].claim_id
      BY <1>3, <1>4, <1>5 DEF SeenBy
    <2>2. ASSUME step'[q] = "running" PROVE path'[g] = path[g]
      <3>1. q \in Busy \ {r}
        BY <1>1, <1>2, <2>2 DEF Busy
      <3>2. g \in Range(job[q].in) /\ g \in DOMAIN path
        <4>1. i \in DOMAIN job[q].reveal
          BY <1>3 DEF SeenBy
        <4>2. of \in DOMAIN job[q].in
          BY <4>1, JobsAre DEF CmdTypes
        <4>3. QED
          BY <4>2, InputsAreFiles
      <3>3. CASE path' = [path EXCEPT ![f] = text] /\ replaced' = replaced \cup Overwritten(f, r)
        <4>1. f \notin Range(job[q].in)
          BY <1>5, <3>1, <3>3 DEF Overwritten
        <4>2. QED
          BY <3>2, <3>3, <4>1
      <3>4. QED
        BY <3>3
    <2>3. QED
      BY <1>2, <2>1, <2>2
  <1>6. QED
    BY <1>3, <1>5 DEF SeenBy

(* So it does what they read and made. *)
LEMMA TracedStaysAll ==
  ASSUME CmdTypes, AllTraced, UNCHANGED <<job, got>>, NEW f, NEW text,
         DOMAIN made' = Invocation,
         \A q \in Invocation : made[q].kind # "none" => made'[q] = made[q],
         \A q \in Invocation :
             made'[q] = made[q] \/ Traced(made'[q].kind, made'[q].value, made', job),
         \/ UNCHANGED path
         \/ path' = [path EXCEPT ![f] = text] /\ Traced(text.kind, text.value, made', job)
  PROVE  AllTraced'
  <1>1. DOMAIN job \subseteq Invocation
    BY JobsAre DEF CmdTypes
  <1>2. ASSUME NEW kind, NEW value, Traced(kind, value, made, job)
        PROVE  Traced(kind, value, made', job)
    BY <1>1, <1>2, TracedStays
  <1>3. \A g \in DOMAIN path' : Traced(path'[g].kind, path'[g].value, made', job)
    <2> SUFFICES ASSUME NEW g \in DOMAIN path'
                 PROVE  Traced(path'[g].kind, path'[g].value, made', job)
      OBVIOUS
    <2>1. g \in DOMAIN path
      OBVIOUS
    <2>2. Traced(path[g].kind, path[g].value, made', job)
      BY <1>2, <2>1 DEF AllTraced
    <2>3. path'[g] = path[g] \/ (path'[g] = text /\ Traced(text.kind, text.value, made', job))
      BY <2>1
    <2>4. QED
      BY <2>2, <2>3
  <1>4. \A q \in DOMAIN job : \A n \in DOMAIN got[q] :
            Traced(Expected(job[q])[n], got[q][n], made', job)
    BY <1>2 DEF AllTraced
  <1>5. \A q \in Invocation : Traced(made'[q].kind, made'[q].value, made', job)
    <2> SUFFICES ASSUME NEW q \in Invocation, made'[q] = made[q]
                 PROVE  Traced(made'[q].kind, made'[q].value, made', job)
      OBVIOUS
    <2>1. Traced(made[q].kind, made[q].value, made', job)
      BY <1>2 DEF AllTraced
    <2>2. QED
      BY <2>1
  <1>6. QED
    BY <1>3, <1>4, <1>5 DEF AllTraced

(* What a process read can be relied on as far as what it read is expected.  *)
LEMMA InputTraced ==
  ASSUME CmdInv, NEW r \in DOMAIN job, NEW n \in DOMAIN job[r].in,
         Len(got[r]) = Len(job[r].in)
  PROVE  n \in DOMAIN got[r] /\ Traced(Expected(job[r])[n], got[r][n], made, job)
  <1>1. r \in Invocation /\ DOMAIN job[r].in = 1..Len(job[r].in)
    BY JobsAre DEF CmdInv, CmdTypes
  <1>2. DOMAIN got[r] = 1..Len(got[r])
    BY <1>1 DEF CmdInv, CmdTypes
  <1>3. QED
    BY <1>1, <1>2 DEF CmdInv, AllTraced

(* What a command computes can be traced to it, or to what it read. *)
LEMMA ComputedTraced ==
  ASSUME CmdInv, NEW r \in DOMAIN job, Len(got[r]) = Len(job[r].in), made[r].kind = "none",
         NEW x, NEW t, Computes(job[r], got[r], named[r], r, x, t),
         NEW m, m = [made EXCEPT ![r] = x]
  PROVE  Traced(x.kind, x.value, m, job)
  <1> DEFINE j == job[r]
             g == got[r]
  <1>1. r \in Invocation /\ m[r] = x /\ DOMAIN job \subseteq Invocation
    BY JobsAre DEF CmdInv, CmdTypes
  <1>2. \A q \in Invocation : made[q].kind # "none" => m[q] = made[q]
    BY <1>1 DEF CmdInv, CmdTypes
  <1>3. ASSUME j.cmd # "keygen" PROVE Traced(Expected(j)[1], g[1], m, job)
    <2>1. 1 \in DOMAIN j.in
      BY <1>3, JobsAre DEF CmdInv, CmdTypes
    <2>2. Traced(Expected(j)[1], g[1], made, job)
      BY <2>1, InputTraced
    <2>3. QED
      BY <1>1, <1>2, <2>2, TracedStays
  <1>4. ASSUME NEW kind, kind \in {"secret", "verdict", "disclosed"}, NEW value,
               x = Parsed(kind, value)
        PROVE  Traced(x.kind, x.value, m, job)
    <2>1. x.kind = kind
      BY <1>4 DEF Parsed
    <2>2. QED
      BY <1>4, <2>1, NeedsNoMaker
  <1>5. ASSUME NEW value, x = Parsed("claim", value) PROVE Traced(x.kind, x.value, m, job)
    <2>1. x.kind = "claim" /\ x.value = value
      BY <1>5 DEF Parsed
    <2>2. QED
      BY <1>1, <1>5, <2>1 DEF Traced
  <1>6. ASSUME NEW value, x = Parsed("vc", value) PROVE Traced(x.kind, x.value, m, job)
    <2>1. x.kind = "vc" /\ x.value = value
      BY <1>6 DEF Parsed
    <2>2. QED
      BY <1>1, <1>6, <2>1 DEF Traced
  <1>7. CASE j.cmd = "keygen" /\ x = Parsed("secret", r)
    BY <1>4, <1>7
  <1>8. CASE j.cmd = "present" /\ KeysKnown(Tail(g), named[r])
             /\ x = Parsed("presentation", BuildFor(g[1], j.audience, r, t, j.expires_in,
                                                    ShownOf(Tail(g), named[r])))
    <2> DEFINE until == PlusSeconds(t, j.expires_in)
               shown == ShownOf(Tail(g), named[r])
               q == BuildFor(g[1], j.audience, r, t, j.expires_in, shown)
    <2>1. q = BuildPresentation(g[1], j.audience, r, t, until, shown)
      BY DEF BuildFor
    <2>2. x = Parsed("presentation", q)
      BY <1>8
    <2> HIDE DEF until, shown, q
    <2>3. q.nonce = r
      BY <2>1, BuiltParts
    <2>4. x.kind = "presentation" /\ x.value = q
      BY <2>2 DEF Parsed
    <2>5. QED
      BY <1>1, <1>8, <2>2, <2>3, <2>4 DEF Traced
  <1>9. CASE j.cmd = "export-vp" /\ x = Parsed("vp", g[1])
    <2>1. x.kind = "vp" /\ x.value = g[1] /\ Expected(j)[1] = "presentation"
      BY <1>9 DEF Parsed, Expected
    <2>2. QED
      BY <1>3, <1>9, <2>1 DEF Traced
  <1>10. CASE j.cmd = "import-vp" /\ x = Parsed("presentation", g[1])
    <2>1. x.kind = "presentation" /\ x.value = g[1] /\ Expected(j)[1] = "vp"
      BY <1>10 DEF Parsed, Expected
    <2>2. QED
      BY <1>3, <1>10, <2>1 DEF Traced
  <1>11. QED
    BY <1>4, <1>5, <1>6, <1>7, <1>8, <1>9, <1>10 DEF Computes

(* The step in which a command computes keeps the invariant. *)
LEMMA EmitInv ==
  ASSUME CmdInv, NEW r \in DOMAIN job, NEW x, Emit(r, x),
         Computes(job[r], got[r], named[r], r, x, time)
  PROVE  CmdInv'
  <1>1. /\ r \in Invocation /\ step[r] = "running" /\ Len(got[r]) = Len(job[r].in)
        /\ made' = [made EXCEPT ![r] = x] /\ started' = [started EXCEPT ![r] = time]
        /\ UNCHANGED <<job, named, got, time>>
    BY JobsAre DEF CmdInv, CmdTypes, Emit, Ready, process
  <1>2. PICK s \in {"ended", "writing"} :
            /\ step' = [step EXCEPT ![r] = s]
            /\ \/ UNCHANGED <<path, replaced>>
               \/ /\ path' = [path EXCEPT ![job[r].out] = Unparsed("empty")]
                  /\ replaced' = replaced \cup Overwritten(job[r].out, r)
    BY DEF Emit
  <1>3. made[r].kind = "none"
    BY <1>1 DEF CmdInv, MadeOK
  <1>4. CmdTypes'
    BY <1>1, <1>2 DEF CmdInv, CmdTypes, Steps, Paths
  <1>5. AllTraced'
    <2>1. Traced(x.kind, x.value, made', job)
      BY <1>1, <1>3, ComputedTraced
    <2>2. DOMAIN made' = Invocation /\ \A q \in Invocation :
              /\ made[q].kind # "none" => made'[q] = made[q]
              /\ made'[q] = made[q] \/ made'[q] = x
      BY <1>1, <1>3 DEF CmdInv, CmdTypes
    <2>3. Traced(Unparsed("empty").kind, Unparsed("empty").value, made', job)
      <3>1. Unparsed("empty").kind = "empty"
        BY DEF Unparsed
      <3>2. QED
        BY <3>1, NeedsNoMaker
    <2> DEFINE text == Unparsed("empty")
    <2> HIDE DEF text
    <2>4. UNCHANGED path \/ path' = [path EXCEPT ![job[r].out] = text]
      BY <1>2 DEF text
    <2>5. Traced(text.kind, text.value, made', job)
      BY <2>3 DEF text
    <2>6. CmdTypes /\ AllTraced
      BY DEF CmdInv
    <2>7. \A q \in Invocation :
              made'[q] = made[q] \/ Traced(made'[q].kind, made'[q].value, made', job)
      BY <2>1, <2>2
    <2>8. QED
      BY <1>1, <2>2, <2>4, <2>5, <2>6, <2>7, TracedStaysAll
  <1>6. MadeOK'
    <2>1. \A q \in Invocation : step'[q] \in {"idle", "running"} => made'[q].kind = "none"
      BY <1>1, <1>2 DEF CmdInv, CmdTypes, MadeOK
    <2>2. ASSUME NEW q \in Invocation, made'[q].kind # "none"
          PROVE  /\ q \in DOMAIN job' /\ Len(got'[q]) = Len(job'[q].in)
                 /\ Computes(job'[q], got'[q], named'[q], q, made'[q], started'[q])
      <3>1. CASE q = r
        <4>1. made'[q] = x /\ started'[q] = time
          BY <1>1, <3>1 DEF CmdInv, CmdTypes
        <4>2. QED
          BY <1>1, <3>1, <4>1
      <3>2. CASE q # r
        <4>1. made'[q] = made[q] /\ started'[q] = started[q]
          BY <1>1, <3>2 DEF CmdInv, CmdTypes
        <4>2. QED
          BY <1>1, <2>2, <4>1 DEF CmdInv, MadeOK
      <3>3. QED
        BY <3>1, <3>2
    <2>3. QED
      BY <2>1, <2>2 DEF MadeOK
  <1>7. SeenOK'
    <2>1. CmdTypes /\ SeenOK /\ step[r] # "idle" /\ s # "running"
      BY <1>1, <1>2 DEF CmdInv
    <2> DEFINE text == Unparsed("empty")
               f == job[r].out
    <2> HIDE DEF text, f
    <2>2. \/ UNCHANGED <<path, replaced>>
          \/ path' = [path EXCEPT ![f] = text] /\ replaced' = replaced \cup Overwritten(f, r)
      BY <1>2 DEF text, f
    <2>3. QED
      BY <1>1, <1>2, <2>1, <2>2, SeenStays
  <1>8. QED
    BY <1>4, <1>5, <1>6, <1>7 DEF CmdInv

(* A step that computes nothing leaves what was made accounted for. *)
LEMMA MadeStays ==
  ASSUME CmdInv, NEW r \in DOMAIN job, UNCHANGED <<job, made, started>>,
         step' = step \/ \E s \in Steps : step' = [step EXCEPT ![r] = s],
         step'[r] = "running" => made[r].kind = "none",
         step'[r] # "idle" \/ UNCHANGED step,
         \A q \in Invocation : made[q].kind # "none" => got'[q] = got[q] /\ named'[q] = named[q]
  PROVE  MadeOK'
  <1>1. r \in Invocation
    BY JobsAre DEF CmdInv, CmdTypes
  <1>2. ASSUME NEW q \in Invocation, step'[q] \in {"idle", "running"}
        PROVE  made'[q].kind = "none"
    <2>1. CASE q = r
      BY <1>1, <1>2, <2>1 DEF CmdInv, MadeOK
    <2>2. CASE q # r
      <3>1. step'[q] = step[q]
        BY <1>1, <2>2 DEF CmdInv, CmdTypes
      <3>2. QED
        BY <1>2, <3>1 DEF CmdInv, MadeOK
    <2>3. QED
      BY <2>1, <2>2
  <1>3. ASSUME NEW q \in Invocation, made'[q].kind # "none"
        PROVE  /\ q \in DOMAIN job' /\ Len(got'[q]) = Len(job'[q].in)
               /\ Computes(job'[q], got'[q], named'[q], q, made'[q], started'[q])
    <2>1. got'[q] = got[q] /\ named'[q] = named[q]
      BY <1>3
    <2>2. /\ q \in DOMAIN job /\ Len(got[q]) = Len(job[q].in)
          /\ Computes(job[q], got[q], named[q], q, made[q], started[q])
      BY <1>3 DEF CmdInv, MadeOK
    <2>3. QED
      BY <2>1, <2>2
  <1>4. QED
    BY <1>2, <1>3 DEF MadeOK

(* A process that ends, one way or the other, and what is in a file then. *)
LEMMA EndInv ==
  ASSUME CmdInv, NEW r \in DOMAIN job, NEW s \in {"ended", "failed"}, step[r] # "idle",
         step' = [step EXCEPT ![r] = s],
         UNCHANGED <<process, got, made, time, started>>,
         NEW f, NEW text, Traced(text.kind, text.value, made, job),
         \/ UNCHANGED <<path, replaced>>
         \/ path' = [path EXCEPT ![f] = text] /\ replaced' = replaced \cup Overwritten(f, r)
  PROVE  CmdInv'
  <1>1. UNCHANGED <<job, named, got, made, time, started>> /\ s # "running" /\ s \in Steps
    BY DEF process, Steps
  <1>2. r \in Invocation
    BY JobsAre DEF CmdInv, CmdTypes
  <1>3. CmdTypes'
    BY <1>1, <1>2 DEF CmdInv, CmdTypes, Paths
  <1>4. AllTraced'
    <2>1. CmdTypes /\ AllTraced
      BY DEF CmdInv
    <2>2. UNCHANGED path \/ (path' = [path EXCEPT ![f] = text]
                                /\ Traced(text.kind, text.value, made', job))
      BY <1>1
    <2>3. DOMAIN made' = Invocation
      BY <1>1, <2>1 DEF CmdTypes
    <2>4. QED
      BY <1>1, <2>1, <2>2, <2>3, TracedStaysAll
  <1>5. MadeOK'
    <2>1. step'[r] = s
      BY <1>2 DEF CmdInv, CmdTypes
    <2>2. QED
      BY <1>1, <2>1, MadeStays
  <1>6. SeenOK'
    <2>1. CmdTypes /\ SeenOK
      BY DEF CmdInv
    <2>2. QED
      BY <1>1, <2>1, SeenStays
  <1>7. QED
    BY <1>3, <1>4, <1>5, <1>6 DEF CmdInv

LEMMA RejectInv ==
  ASSUME CmdInv, NEW r \in DOMAIN job, NEW wrong, Reject(r, wrong)
  PROVE  CmdInv'
  <1>1. step[r] # "idle" /\ step' = [step EXCEPT ![r] = "failed"]
        /\ UNCHANGED <<process, got, made, time, started>> /\ UNCHANGED <<path, replaced>>
    BY DEF Reject, Ready
  <1> DEFINE text == [kind |-> "broken", value |-> "none"]
  <1>2. text.kind \notin {"claim", "presentation", "vp", "vc"}
    OBVIOUS
  <1> HIDE DEF text
  <1>3. Traced(text.kind, text.value, made, job)
    BY <1>2, NeedsNoMaker
  <1>4. QED
    BY <1>1, <1>3, EndInv

LEMMA WriteOutInv == ASSUME CmdInv, NEW r \in DOMAIN job, WriteOut(r) PROVE CmdInv'
  <1>1. step[r] # "idle" /\ step' = [step EXCEPT ![r] = "ended"]
        /\ UNCHANGED <<process, got, made, time, started>>
        /\ replaced' = replaced \cup Overwritten(job[r].out, r)
    BY DEF WriteOut
  <1>2. PICK text \in {made[r], Unparsed("broken")} : path' = [path EXCEPT ![job[r].out] = text]
    BY DEF WriteOut
  <1>3. Traced(text.kind, text.value, made, job)
    <2>1. Traced(made[r].kind, made[r].value, made, job)
      BY JobsAre DEF CmdInv, CmdTypes, AllTraced
    <2>2. Unparsed("broken").kind = "broken"
      BY DEF Unparsed
    <2> DEFINE broken == Unparsed("broken")
    <2> HIDE DEF broken
    <2>3. broken.kind = "broken"
      BY <2>2 DEF broken
    <2>4. Traced(broken.kind, broken.value, made, job)
      BY <2>3, NeedsNoMaker
    <2>5. QED
      BY <1>2, <2>1, <2>4 DEF broken
  <1> DEFINE f == job[r].out
  <1> HIDE DEF f
  <1>4. path' = [path EXCEPT ![f] = text] /\ replaced' = replaced \cup Overwritten(f, r)
    BY <1>1, <1>2 DEF f
  <1>5. QED
    BY <1>1, <1>3, <1>4, EndInv

LEMMA StopCommandInv == ASSUME CmdInv, NEW r \in DOMAIN job, StopCommand(r) PROVE CmdInv'
  <1> DEFINE f == job[r].out
             part == IF path[f].kind = "secret" THEN Parsed("secret", MixedKey)
                     ELSE Unparsed("broken")
  <1>1. step[r] # "idle" /\ step' = [step EXCEPT ![r] = "failed"]
        /\ UNCHANGED <<process, got, made, time, started>>
        /\ \/ UNCHANGED <<path, replaced>>
           \/ path' = [path EXCEPT ![f] = part] /\ replaced' = replaced \cup Overwritten(f, r)
    BY DEF StopCommand, Busy
  <1>2. part.kind \in {"secret", "broken"}
    BY DEF Parsed, Unparsed
  <1> HIDE DEF f, part
  <1>3. Traced(part.kind, part.value, made, job)
    BY <1>2, NeedsNoMaker
  <1>4. QED
    BY <1>1, <1>3, EndInv

LEMMA TimePassesInv == ASSUME CmdInv, TimePasses PROVE CmdInv'
  <1>1. UNCHANGED <<job, named, path, step, got, made, started, replaced>>
    BY DEF TimePasses, process
  <1>2. time' \in 0..MaxTime
    BY CommandAssumption DEF TimePasses, CmdInv, CmdTypes
  <1>3. CmdTypes'
    BY <1>1, <1>2 DEF CmdInv, CmdTypes, Paths
  <1>4. AllTraced' /\ MadeOK'
    BY <1>1 DEF CmdInv, AllTraced, MadeOK
  <1>5. SeenOK'
    BY SMTT(30), <1>1 DEF CmdInv, SeenOK, SeenBy
  <1>6. QED
    BY <1>3, <1>4, <1>5 DEF CmdInv

(* A process that begins sees the ids that are in its inputs now. *)
LEMMA BeginCommandInv == ASSUME CmdInv, NEW r \in DOMAIN job, BeginCommand(r) PROVE CmdInv'
  <1> DEFINE j == job[r]
             reveal == IF j.cmd = "present" THEN j.reveal ELSE <<>>
             ids == [i \in DOMAIN reveal |->
                        [claim_id |-> path[j.in[reveal[i].of]].value.claim_id,
                         keys |-> reveal[i].keys]]
  <1>1. /\ step[r] = "idle" /\ step' = [step EXCEPT ![r] = "running"]
        /\ named' = [named EXCEPT ![r] = ids]
        /\ UNCHANGED <<job, path, got, made, time, started, replaced>>
    BY DEF BeginCommand
  <1>2. ASSUME j.cmd = "present"
        PROVE  /\ ids \in Seq(Range(ids)) /\ DOMAIN ids = DOMAIN j.reveal
               /\ \A i \in DOMAIN ids :
                     /\ ids[i].claim_id = path[j.in[j.reveal[i].of]].value.claim_id
                     /\ ids[i].keys = j.reveal[i].keys
    <2>1. j.reveal \in Seq(Range(j.reveal))
      BY <1>2, JobsAre DEF CmdInv, CmdTypes
    <2>2. PICK n \in Nat : DOMAIN j.reveal = 1..n
      BY <2>1
    <2>3. DOMAIN ids = 1..n /\ \A i \in 1..n : 
              /\ ids[i].claim_id = path[j.in[j.reveal[i].of]].value.claim_id
              /\ ids[i].keys = j.reveal[i].keys
      BY <1>2, <2>2
    <2>4. ids = [i \in 1..n |-> ids[i]]
      BY <2>3
    <2> HIDE DEF ids
    <2>5. ids \in Seq(Range(ids))
      BY <2>4, SequenceOfSome
    <2>6. QED
      BY <2>2, <2>3, <2>5
  <1> HIDE DEF ids
  <1>3. r \in Invocation
    BY JobsAre DEF CmdInv, CmdTypes
  <1>4. step'[r] = "running" /\ named'[r] = ids
    BY <1>1, <1>3 DEF CmdInv, CmdTypes
  <1>5. CmdTypes'
    BY <1>1, <1>3 DEF CmdInv, CmdTypes, Paths, Steps
  <1>6. AllTraced'
    BY <1>1 DEF CmdInv, AllTraced
  <1>7. MadeOK'
    <2>1. made[r].kind = "none"
      BY <1>1, <1>3 DEF CmdInv, MadeOK
    <2>2. \A q \in Invocation : made[q].kind # "none" => got'[q] = got[q] /\ named'[q] = named[q]
      BY <1>1, <2>1 DEF CmdInv, CmdTypes
    <2>3. "running" \in Steps
      BY DEF Steps
    <2>4. QED
      BY <1>1, <1>4, <2>1, <2>2, <2>3, MadeStays
  <1>8. SeenOK'
    <2> SUFFICES ASSUME NEW q \in DOMAIN job, job[q].cmd = "present", step'[q] # "idle"
                 PROVE  SeenBy(q)'
      BY <1>1 DEF SeenOK
    <2>1. CASE q = r
      <3>1. got'[r] = <<>> /\ DOMAIN got'[r] = {}
        BY <1>1, <1>3 DEF CmdInv, CmdTypes
      <3>2. QED
        BY SMTT(60), <1>1, <1>2, <1>4, <2>1, <3>1 DEF SeenBy
    <2>2. CASE q # r
      <3>1. q \in Invocation
        BY JobsAre DEF CmdInv, CmdTypes
      <3>2. step'[q] = step[q] /\ named'[q] = named[q]
        BY <1>1, <1>3, <2>2, <3>1 DEF CmdInv, CmdTypes
      <3>3. SeenBy(q)
        BY <3>2 DEF CmdInv, SeenOK
      <3>4. QED
        BY ZenonT(60), <1>1, <3>2, <3>3 DEF SeenBy
    <2>3. QED
      BY <2>1, <2>2
  <1>9. QED
    BY <1>5, <1>6, <1>7, <1>8 DEF CmdInv

(* A process that reads a file of the kind it expects. *)
LEMMA ReadFileInv ==
  ASSUME CmdInv, NEW r \in DOMAIN job, NEW n \in DOMAIN job[r].in, n = Len(got[r]) + 1,
         step[r] = "running", path[job[r].in[n]].kind = Expected(job[r])[n],
         got' = [got EXCEPT ![r] = Append(@, path[job[r].in[n]].value)],
         UNCHANGED <<process, path, step, made, time, started, replaced>>
  PROVE  CmdInv'
  <1> DEFINE f == job[r].in[n]
             x == path[f].value
  <1>1. UNCHANGED <<job, named, path, step, made, time, started, replaced>>
    BY DEF process
  <1>2. r \in Invocation /\ got[r] \in Seq(Range(got[r])) /\ f \in DOMAIN path
    BY JobsAre, InputsAreFiles DEF CmdInv, CmdTypes
  <1>3. got'[r] = Append(got[r], x) /\ \A q \in Invocation : q # r => got'[q] = got[q]
    BY <1>2 DEF CmdInv, CmdTypes
  <1> HIDE DEF f, x
  <1>4. /\ got'[r] \in Seq(Range(got'[r])) /\ DOMAIN got'[r] = 1..n
        /\ got'[r][n] = x /\ \A i \in DOMAIN got[r] : got'[r][i] = got[r][i]
    <2> DEFINE had == got[r]
               after == got'[r]
    <2>1. had \in Seq(Range(had)) /\ after = Append(had, x) /\ n = Len(had) + 1
      BY <1>2, <1>3
    <2> HIDE DEF had, after
    <2>2. /\ Append(had, x) \in Seq(Range(Append(had, x)))
          /\ DOMAIN Append(had, x) = 1..(Len(had) + 1)
          /\ Append(had, x)[Len(had) + 1] = x
          /\ \A i \in DOMAIN had : Append(had, x)[i] = had[i]
      BY <2>1, AppendToList
    <2>3. /\ after \in Seq(Range(after)) /\ DOMAIN after = 1..n
          /\ after[n] = x /\ \A i \in DOMAIN had : after[i] = had[i]
      BY <2>1, <2>2
    <2>4. QED
      BY <2>3 DEF had, after
  <1>5. DOMAIN got[r] = 1..(n - 1)
    BY <1>2
  <1>6. CmdTypes'
    <2>1. \A q \in Invocation : got'[q] \in Seq(Range(got'[q]))
      BY <1>3, <1>4 DEF CmdInv, CmdTypes
    <2>2. \A q \in Invocation : step'[q] = "idle" => got'[q] = <<>>
      BY <1>1, <1>3 DEF CmdInv, CmdTypes
    <2>3. QED
      BY <1>1, <2>1, <2>2 DEF CmdInv, CmdTypes, Paths
  <1>7. AllTraced'
    <2>1. Traced(Expected(job[r])[n], x, made, job)
      BY <1>2 DEF CmdInv, AllTraced, f, x
    <2>2. ASSUME NEW q \in DOMAIN job, NEW i \in DOMAIN got'[q]
          PROVE  Traced(Expected(job[q])[i], got'[q][i], made, job)
      <3>1. CASE q = r /\ i = n
        BY <1>4, <2>1, <3>1
      <3>2. CASE q = r /\ i # n
        <4>1. i \in DOMAIN got[r]
          BY <1>4, <1>5, <2>2, <3>2
        <4>2. QED
          BY <1>4, <3>2, <4>1 DEF CmdInv, AllTraced
      <3>3. CASE q # r
        <4>1. got'[q] = got[q]
          BY <1>3, <3>3, JobsAre DEF CmdInv, CmdTypes
        <4>2. QED
          BY <2>2, <4>1 DEF CmdInv, AllTraced
      <3>4. QED
        BY <3>1, <3>2, <3>3
    <2>3. QED
      BY <1>1, <2>2 DEF CmdInv, AllTraced
  <1>8. MadeOK'
    <2>1. made[r].kind = "none"
      BY <1>2 DEF CmdInv, MadeOK
    <2>2. QED
      BY <1>1, <1>3, <2>1, MadeStays
  <1>9. SeenOK'
    <2> SUFFICES ASSUME NEW q \in DOMAIN job, job[q].cmd = "present", step[q] # "idle"
                 PROVE  SeenBy(q)'
      BY <1>1 DEF SeenOK
    <2>1. SeenBy(q)
      BY DEF CmdInv, SeenOK
    <2>2. CASE q = r
      <3>1. ASSUME r \notin replaced, NEW i \in DOMAIN named[r],
                   job[r].reveal[i].of \in DOMAIN got'[r]
            PROVE  got'[r][job[r].reveal[i].of].claim_id = named[r][i].claim_id
        <4> DEFINE of == job[r].reveal[i].of
        <4>1. /\ path[job[r].in[of]].value.claim_id = named[r][i].claim_id
              /\ of \in DOMAIN got[r] => got[r][of].claim_id = named[r][i].claim_id
          BY <2>1, <2>2, <3>1 DEF SeenBy
        <4>2. CASE of = n
          BY <1>4, <4>1, <4>2 DEF f, x
        <4>3. CASE of # n
          <5>1. of \in DOMAIN got[r]
            BY <1>4, <1>5, <3>1, <4>3
          <5>2. QED
            BY <1>4, <4>1, <5>1
        <4>4. QED
          BY <4>2, <4>3
      <3>2. /\ named[r] \in Seq(Range(named[r])) /\ DOMAIN named[r] = DOMAIN job[r].reveal
            /\ \A i \in DOMAIN named[r] : named[r][i].keys = job[r].reveal[i].keys
            /\ r \notin replaced => \A i \in DOMAIN named[r] :
                  path[job[r].in[job[r].reveal[i].of]].value.claim_id = named[r][i].claim_id
        BY <2>1, <2>2 DEF SeenBy
      <3>3. /\ named'[r] = named[r] /\ job'[r] = job[r] /\ step'[r] = step[r]
            /\ path' = path /\ replaced' = replaced
        BY <1>1
      <3>4. QED
        BY ZenonT(60), <2>2, <3>1, <3>2, <3>3 DEF SeenBy
    <2>3. CASE q # r
      <3>1. got'[q] = got[q]
        BY <1>3, <2>3, JobsAre DEF CmdInv, CmdTypes
      <3>2. QED
        BY ZenonT(60), <1>1, <2>1, <3>1 DEF SeenBy
    <2>4. QED
      BY <2>2, <2>3
  <1>10. QED
    BY <1>6, <1>7, <1>8, <1>9 DEF CmdInv

LEMMA ReadNextInv == ASSUME CmdInv, NEW r \in DOMAIN job, ReadNext(r) PROVE CmdInv'
  <1> DEFINE n == Len(got[r]) + 1
  <1>1. step[r] = "running" /\ n \in DOMAIN job[r].in
        /\ UNCHANGED <<process, path, made, time, started, replaced>>
    BY DEF ReadNext
  <1>2. CASE /\ path[job[r].in[n]].kind = Expected(job[r])[n]
             /\ got' = [got EXCEPT ![r] = Append(@, path[job[r].in[n]].value)] /\ UNCHANGED step
    BY <1>1, <1>2, ReadFileInv
  <1>3. CASE step' = [step EXCEPT ![r] = "failed"] /\ UNCHANGED got
    <2> DEFINE text == [kind |-> "broken", value |-> "none"]
    <2>1. text.kind \notin {"claim", "presentation", "vp", "vc"}
      OBVIOUS
    <2> HIDE DEF text
    <2>2. Traced(text.kind, text.value, made, job)
      BY <2>1, NeedsNoMaker
    <2>3. UNCHANGED <<path, replaced>> /\ step[r] # "idle"
          /\ UNCHANGED <<process, got, made, time, started>>
      BY <1>1, <1>3
    <2>4. QED
      BY <1>3, <2>2, <2>3, EndInv
  <1>4. QED
    BY <1>1, <1>2, <1>3 DEF ReadNext

-------------------------------------------------------------------------------
(* Each command computes what it should, or fails. *)

LEMMA PresentFilesInv == ASSUME CmdInv, NEW r \in DOMAIN job, PresentFiles(r) PROVE CmdInv'
  <1>1. CASE Reject(r, UnknownKey(r))
    BY <1>1, RejectInv
  <1> DEFINE shown == [i \in DOMAIN Claims(r) |-> DiscloseBy(Claims(r)[i], SelectorOf(r, i))]
             x == Parsed("presentation",
                         BuildFor(got[r][1], job[r].audience, r, time, job[r].expires_in, shown))
  <1>2. CASE ~UnknownKey(r) /\ Emit(r, x)
    <2>1. KeysKnown(Tail(got[r]), named[r])
      BY <1>2 DEF UnknownKey, KeysKnown, SelectorOf, Claims
    <2>2. shown = ShownOf(Tail(got[r]), named[r])
      BY DEF ShownOf, SelectorOf, Claims
    <2>3. Computes(job[r], got[r], named[r], r, x, time)
      BY <2>1, <2>2 DEF Computes, PresentFiles
    <2> HIDE DEF x
    <2>4. QED
      BY <1>2, <2>3, EmitInv
  <1>3. QED
    BY <1>1, <1>2 DEF PresentFiles

LEMMA IssuingInv ==
  ASSUME CmdInv, NEW r \in DOMAIN job, Keygen(r) \/ Issue(r) \/ IssueCheck(r)
  PROVE  CmdInv'
  <1>1. PICK x : Emit(r, x) /\ Computes(job[r], got[r], named[r], r, x, time)
    BY DEF Keygen, Issue, IssueCheck, Computes
  <1>2. QED
    BY <1>1, EmitInv

LEMMA VerifyFileInv == ASSUME CmdInv, NEW r \in DOMAIN job, VerifyFile(r) PROVE CmdInv'
  <1> DEFINE x == Parsed("verdict", Accepts(FailedChecks(got[r][1], job[r].audience, time,
                                                         KnownIssuers(job[r]), FALSE,
                                                         job[r].predicates)))
  <1>1. job[r].cmd = "verify" /\ Emit(r, x)
    BY DEF VerifyFile
  <1>2. Computes(job[r], got[r], named[r], r, x, time)
    BY <1>1 DEF Computes
  <1> HIDE DEF x
  <1>3. QED
    BY <1>1, <1>2, EmitInv

LEMMA ExportingInv ==
  ASSUME CmdInv, NEW r \in DOMAIN job, ExportFile(r) \/ ExportCredential(r)
  PROVE  CmdInv'
  <1>1. \/ \E wrong : Reject(r, wrong)
        \/ \E x : Emit(r, x) /\ Computes(job[r], got[r], named[r], r, x, time)
    BY DEF ExportFile, ExportCredential, Computes
  <1>2. QED
    BY <1>1, EmitInv, RejectInv

LEMMA ImportingInv ==
  ASSUME CmdInv, NEW r \in DOMAIN job, ImportFile(r) \/ ImportCredential(r)
  PROVE  CmdInv'
  <1>1. \/ \E wrong : Reject(r, wrong)
        \/ \E x : Emit(r, x) /\ Computes(job[r], got[r], named[r], r, x, time)
    BY DEF ImportFile, ImportCredential, Computes
  <1>2. QED
    BY <1>1, EmitInv, RejectInv

LEMMA CmdInvNext == CmdInv /\ [CmdNext]_cmdVars => CmdInv'
  <1> SUFFICES ASSUME CmdInv, [CmdNext]_cmdVars PROVE CmdInv'
    OBVIOUS
  <1>1. CASE TimePasses
    BY <1>1, TimePassesInv
  <1>2. ASSUME NEW r \in DOMAIN job,
               \/ BeginCommand(r) \/ ReadNext(r)
               \/ Keygen(r) \/ Issue(r) \/ IssueCheck(r) \/ PresentFiles(r) \/ VerifyFile(r)
               \/ ExportFile(r) \/ ImportFile(r) \/ ExportCredential(r) \/ ImportCredential(r)
               \/ WriteOut(r) \/ StopCommand(r)
        PROVE  CmdInv'
    <2>1. CASE BeginCommand(r)
      BY <2>1, BeginCommandInv
    <2>2. CASE ReadNext(r)
      BY <2>2, ReadNextInv
    <2>3. CASE Keygen(r) \/ Issue(r) \/ IssueCheck(r)
      BY <2>3, IssuingInv
    <2>4. CASE PresentFiles(r)
      BY <2>4, PresentFilesInv
    <2>5. CASE VerifyFile(r)
      BY <2>5, VerifyFileInv
    <2>6. CASE ExportFile(r) \/ ExportCredential(r)
      BY <2>6, ExportingInv
    <2>7. CASE ImportFile(r) \/ ImportCredential(r)
      BY <2>7, ImportingInv
    <2>8. CASE WriteOut(r)
      BY <2>8, WriteOutInv
    <2>9. CASE StopCommand(r)
      BY <2>9, StopCommandInv
    <2>10. QED
      BY <1>2, <2>1, <2>2, <2>3, <2>4, <2>5, <2>6, <2>7, <2>8, <2>9
  <1>3. CASE UNCHANGED cmdVars
    <2>1. UNCHANGED <<job, named, path, step, got, made, time, started, replaced>>
      BY <1>3 DEF cmdVars, process
    <2>2. CmdTypes' /\ AllTraced' /\ MadeOK'
      BY <2>1 DEF CmdInv, CmdTypes, AllTraced, MadeOK, Paths
    <2>3. SeenOK'
      BY SMTT(30), <2>1 DEF CmdInv, SeenOK, SeenBy
    <2>4. QED
      BY <2>2, <2>3 DEF CmdInv
  <1>4. QED
    BY <1>1, <1>2, <1>3 DEF CmdNext

(* The invariant holds however the processes of a script overlap. *)
THEOREM CommandInvariant == CmdSpec => []CmdInv
  BY CmdInvInit, CmdInvNext, PTL DEF CmdSpec

-------------------------------------------------------------------------------
(* What the invariant says of each thing that is made. *)

(* An invocation that computed did so of all its inputs. *)
LEMMA MadeOfInputs ==
  ASSUME CmdInv, NEW r \in Invocation, made[r].kind # "none"
  PROVE  /\ r \in DOMAIN job /\ Len(got[r]) = Len(job[r].in) /\ got[r] \in Seq(Range(got[r]))
         /\ Computes(job[r], got[r], named[r], r, made[r], started[r])
         /\ started[r] \in 0..MaxTime
  BY DEF CmdInv, CmdTypes, MadeOK

(* A claim is as an issuing command makes it. *)
LEMMA ClaimMade ==
  ASSUME CmdInv, NEW r \in Invocation, Made(r, "claim"), NEW d, d = made[r].value
  PROVE  /\ AsIssued(d) /\ d.subject_id = job[r].subject /\ d.issuer_id = got[r][1]
         /\ d.from = started[r] /\ d.reliance_root = {}
         /\ job[r].cmd = "issue" => d.until = job[r].until
         /\ job[r].cmd # "issue" => d.until = OpenEnd
  <1>1. Computes(job[r], got[r], named[r], r, made[r], started[r]) /\ made[r].kind = "claim"
    BY MadeOfInputs DEF Made
  <1> DEFINE j == job[r]
             g == got[r]
             t == started[r]
  <1>2. CASE /\ j.cmd = "issue"
             /\ made[r] = Parsed("claim", IssueClaim(j.subject, g[1], "employment", "v1", t,
                                                     j.until, j.body, {}))
    <2>1. d = IssueClaim(j.subject, g[1], "employment", "v1", t, j.until, j.body, {})
      BY <1>2 DEF Parsed
    <2>2. QED
      BY <1>2, <2>1, SignedParts
  <1>3. CASE /\ j.cmd = "issue-check"
             /\ made[r] = Parsed("claim", IssueClaim(j.subject, g[1], "background_check", "v1", t,
                                                     OpenEnd, j.body, {}))
    <2>1. d = IssueClaim(j.subject, g[1], "background_check", "v1", t, OpenEnd, j.body, {})
      BY <1>3 DEF Parsed
    <2>2. QED
      BY <1>3, <2>1, SignedParts
  <1>4. QED
    BY <1>1, <1>2, <1>3 DEF Computes, Parsed

(* A presentation of `present` is what it built of what it read. *)
LEMMA PresentationMade ==
  ASSUME CmdInv, NEW r \in Invocation, Made(r, "presentation"), job[r].cmd = "present",
         NEW p, p = made[r].value
  PROVE  /\ p.subject_id = got[r][1] /\ p.subject_key = got[r][1]
         /\ p.audience = job[r].audience /\ p.nonce = r /\ p.issued_at = started[r]
         /\ p.expires_at = PlusSeconds(started[r], job[r].expires_in)
         /\ p.claims = ShownOf(Tail(got[r]), named[r]) /\ KeysKnown(Tail(got[r]), named[r])
         /\ SubjectSigned(p)
  <1> DEFINE until == PlusSeconds(started[r], job[r].expires_in)
             shown == ShownOf(Tail(got[r]), named[r])
             x == made[r]
  <1>1. Computes(job[r], got[r], named[r], r, x, started[r]) /\ x.kind = "presentation"
    BY MadeOfInputs DEF Made
  <1>2. /\ KeysKnown(Tail(got[r]), named[r])
        /\ x = Parsed("presentation",
                      BuildFor(got[r][1], job[r].audience, r, started[r], job[r].expires_in, shown))
    BY <1>1 DEF Computes
  <1>3. p = BuildPresentation(got[r][1], job[r].audience, r, started[r], until, shown)
    BY <1>2 DEF Parsed, BuildFor
  <1> HIDE DEF until, shown
  <1>4. /\ p.subject_id = got[r][1] /\ p.subject_key = got[r][1]
        /\ p.audience = job[r].audience /\ p.nonce = r /\ p.issued_at = started[r]
        /\ p.expires_at = until /\ p.claims = shown
    BY <1>3, BuiltParts
  <1>5. SubjectSigned(p)
    BY <1>3, SubjectSigns
  <1>6. QED
    BY <1>2, <1>4, <1>5 DEF until, shown

(* Each claim in it is one that an issuing command made, shown in part: all  *)
(* of it, or the keys that were looked up for its id.                        *)
LEMMA ClaimShown ==
  ASSUME CmdInv, NEW r \in Invocation, Made(r, "presentation"), job[r].cmd = "present",
         NEW i \in DOMAIN made[r].value.claims
  PROVE  /\ i \in DOMAIN Tail(got[r]) /\ Tail(got[r])[i] = got[r][i + 1] /\ i + 1 \in DOMAIN got[r]
         /\ \E by \in Invocation : Made(by, "claim") /\ made[by].value = got[r][i + 1]
         /\ \E keys :
               /\ keys \subseteq DOMAIN got[r][i + 1].body_root
               /\ made[r].value.claims[i] = Disclose(got[r][i + 1], keys)
               /\ LookUp(named[r], got[r][i + 1].claim_id) \in {AllFields, keys}
  <1> DEFINE g == got[r]
             d == g[i + 1]
             asked == LookUp(named[r], d.claim_id)
             keys == IF asked = AllFields THEN DOMAIN d.body_root ELSE asked
  <1>1. /\ r \in DOMAIN job /\ Len(g) = Len(job[r].in) /\ g \in Seq(Range(g))
        /\ DOMAIN job[r].in = 1..Len(job[r].in) /\ Len(g) > 1 /\ Len(g) \in Nat
    <2>1. made[r].kind # "none"
      BY DEF Made
    <2>2. r \in DOMAIN job /\ Len(g) = Len(job[r].in) /\ g \in Seq(Range(g))
      BY <2>1, MadeOfInputs
    <2>3. DOMAIN job[r].in = 1..Len(job[r].in) /\ Len(job[r].in) > 1 /\ Len(job[r].in) \in Nat
      BY <2>2, JobsAre DEF CmdInv, CmdTypes
    <2>4. QED
      BY <2>2, <2>3
  <1>2. /\ made[r].value.claims = ShownOf(Tail(g), named[r])
        /\ KeysKnown(Tail(g), named[r])
    BY PresentationMade
  <1>3. i \in DOMAIN Tail(g) /\ made[r].value.claims[i] = ShownOf(Tail(g), named[r])[i]
    BY <1>2 DEF ShownOf
  <1>4. i \in 1..(Len(g) - 1) /\ Tail(g)[i] = d /\ i + 1 \in DOMAIN g /\ i + 1 \in DOMAIN job[r].in
    BY <1>1, <1>3
  <1>5. made[r].value.claims[i] = DiscloseBy(d, asked)
    BY <1>3, <1>4 DEF ShownOf
  <1>6. asked # AllFields => asked \subseteq DOMAIN d.body_root
    BY <1>2, <1>3, <1>4 DEF KeysKnown
  <1>7. Expected(job[r])[i + 1] = "claim"
    BY <1>4 DEF Expected
  <1>8. Traced("claim", d, made, job)
    BY <1>1, <1>4, <1>7, InputTraced
  <1>9. PICK by \in Invocation : made[by] = Parsed("claim", d)
    BY <1>8 DEF Traced
  <1>10. Made(by, "claim") /\ made[by].value = d
    BY <1>9 DEF Made, Parsed
  <1>11. made[r].value.claims[i] = Disclose(d, keys)
    BY <1>5 DEF DiscloseBy
  <1>12. QED
    BY <1>3, <1>4, <1>6, <1>10, <1>11

-------------------------------------------------------------------------------
(* A verdict. *)

(* The presentation judged is one that `present` made, and names it. *)
LEMMA VerdictMade ==
  ASSUME CmdInv, NEW v \in Invocation, Made(v, "verdict"), NEW p, p = got[v][1]
  PROVE  /\ p.nonce \in Invocation /\ job[p.nonce].cmd = "present"
         /\ made[p.nonce] = Parsed("presentation", p)
         /\ Made(p.nonce, "presentation") /\ made[p.nonce].value = p
         /\ v \in DOMAIN job /\ p.nonce \in DOMAIN job
         /\ made[v] = Parsed("verdict", Accepts(FailedChecks(p, job[v].audience, started[v],
                                                             KnownIssuers(job[v]), FALSE,
                                                             job[v].predicates)))
  <1>1. made[v].kind = "verdict"
    BY DEF Made
  <1>2. v \in DOMAIN job /\ Len(got[v]) = Len(job[v].in)
        /\ Computes(job[v], got[v], named[v], v, made[v], started[v])
    BY <1>1, MadeOfInputs
  <1>3. /\ job[v].cmd = "verify"
        /\ made[v] = Parsed("verdict", Accepts(FailedChecks(p, job[v].audience, started[v],
                                                            KnownIssuers(job[v]), FALSE,
                                                            job[v].predicates)))
    BY <1>1, <1>2 DEF Computes, Parsed
  <1>4. 1 \in DOMAIN job[v].in
    <2>1. job \in Scripts
      BY DEF CmdInv, CmdTypes
    <2>2. /\ DOMAIN job[v].in = 1..Len(job[v].in) /\ Len(job[v].in) \in Nat
          /\ job[v].cmd # "keygen" => Len(job[v].in) > 0
      BY <1>2, <2>1, JobsAre
    <2>3. QED
      BY <1>3, <2>2
  <1>5. Traced("presentation", p, made, job)
    <2>1. Traced(Expected(job[v])[1], p, made, job)
      BY <1>2, <1>4, InputTraced
    <2>2. Expected(job[v])[1] = "presentation"
      BY <1>3 DEF Expected
    <2>3. QED
      BY <2>1, <2>2
  <1>6. /\ p.nonce \in DOMAIN job /\ job[p.nonce].cmd = "present"
        /\ made[p.nonce] = Parsed("presentation", p)
    BY <1>5 DEF Traced
  <1>7. p.nonce \in Invocation
    BY <1>6, JobsAre DEF CmdInv, CmdTypes
  <1>8. Made(p.nonce, "presentation") /\ made[p.nonce].value = p
    BY <1>6 DEF Made, Parsed
  <1>9. QED
    BY <1>2, <1>3, <1>6, <1>7, <1>8

(* A claim passes exactly if an issuing command vouches for it. *)
LEMMA PassesIfVouched ==
  ASSUME CmdInv, NEW v \in Invocation, NEW by \in Invocation, Made(by, "presentation"),
         job[by].cmd = "present", NEW c \in Range(made[by].value.claims)
  PROVE  ClaimFailures(c, got[by][1], started[v], KnownIssuers(job[v])) = {}
            <=> Vouched(c, got[by][1], v)
  <1> DEFINE holder == got[by][1]
             t == started[v]
             anchor == KnownIssuers(job[v])
  <1>1. /\ anchor.issuers = job[v].issuer_keys /\ anchor.required = {} /\ anchor.revoked = {}
        /\ anchor.unresolvable = {}
    BY DEF KnownIssuers
  <1> HIDE DEF anchor, holder
  <1>2. PICK i \in DOMAIN made[by].value.claims : c = made[by].value.claims[i]
    BY DEF Range
  <1> DEFINE held == got[by][i + 1]
  <1>3. /\ \E r \in Invocation : Made(r, "claim") /\ made[r].value = held
         /\ \E keys : keys \subseteq DOMAIN held.body_root /\ c = Disclose(held, keys)
    BY <1>2, ClaimShown
  <1> HIDE DEF held
  <1>4. PICK r \in Invocation : Made(r, "claim") /\ made[r].value = held
    BY <1>3
  <1>5. PICK keys : keys \subseteq DOMAIN held.body_root /\ c = Disclose(held, keys)
    BY <1>3
  <1> DEFINE d == made[r].value
  <1>6. Made(r, "claim") /\ keys \subseteq DOMAIN d.body_root /\ c = Disclose(d, keys)
    BY <1>4, <1>5
  <1>7. AsIssued(d)
    BY <1>6, ClaimMade
  <1>8. Authentic(c) /\ c.claim_id = d.claim_id /\ Disclose(d, DOMAIN c.fields) = c
    <2> HIDE DEF d
    <2>1. c = Disclose(d, keys) /\ keys \subseteq DOMAIN d.body_root
      BY <1>6 DEF d
    <2>2. QED
      BY <1>7, <2>1, DisclosedParts
  <1> DEFINE Passes ==
                 /\ c.subject_id = holder /\ c.issuer_id \in job[v].issuer_keys
                 /\ c.from <= t /\ (c.until = OpenEnd \/ t <= c.until)
  <1>9. ClaimFailures(c, holder, t, anchor) = {} <=> Passes
    <2>1. ClaimFailures(c, holder, t, anchor) = {} <=>
              /\ c.subject_id = holder /\ c.issuer_id \in anchor.issuers /\ Authentic(c)
              /\ WithinValidity(c, t) /\ AccreditedOk(c, anchor) /\ c.claim_id \notin anchor.revoked
              /\ c.reliance \cap anchor.revoked = {} /\ c.reliance \cap anchor.unresolvable = {}
      BY SoundClaim
    <2>2. QED
      BY <1>1, <1>8, <2>1 DEF WithinValidity, AccreditedOk
  (* What one that vouches issued is what is shown here. *)
  <1>10. ASSUME NEW q \in Invocation, Made(q, "claim"), Disclose(made[q].value, DOMAIN c.fields) = c
        PROVE  /\ c.subject_id = job[q].subject /\ c.issuer_id = got[q][1]
               /\ c.from = started[q]
               /\ job[q].cmd = "issue" => c.until = job[q].until
               /\ job[q].cmd # "issue" => c.until = OpenEnd
    <2> DEFINE e == made[q].value
               shown == DOMAIN c.fields
    <2>1. /\ AsIssued(e) /\ e.subject_id = job[q].subject /\ e.issuer_id = got[q][1]
          /\ e.from = started[q]
          /\ job[q].cmd = "issue" => e.until = job[q].until
          /\ job[q].cmd # "issue" => e.until = OpenEnd
      BY <1>10, ClaimMade
    <2>2. c = Disclose(e, shown)
      BY <1>10
    <2> HIDE DEF e, shown
    <2>3. c.subject_id = e.subject_id /\ c.issuer_id = e.issuer_id /\ c.from = e.from
          /\ c.until = e.until
      BY <2>1, <2>2, DisclosedParts
    <2>4. QED
      BY <2>1, <2>3
  <1>11. ASSUME Passes PROVE Vouched(c, holder, v)
    <2>1. Disclose(d, DOMAIN c.fields) = c /\ d.claim_id = c.claim_id
      BY <1>8
    <2>2. /\ c.subject_id = job[r].subject /\ c.issuer_id = got[r][1] /\ c.from = started[r]
          /\ job[r].cmd = "issue" => c.until = job[r].until
      BY <1>6, <1>10, <2>1
    <2>3. QED
      BY <1>6, <1>11, <2>1, <2>2 DEF Vouched
  <1>12. ASSUME Vouched(c, holder, v) PROVE Passes
    <2>1. PICK q \in Invocation :
              /\ Made(q, "claim") /\ Disclose(made[q].value, DOMAIN c.fields) = c
              /\ got[q][1] \in job[v].issuer_keys /\ job[q].subject = holder
              /\ started[q] <= started[v]
              /\ job[q].cmd = "issue" => job[q].until = OpenEnd \/ started[v] <= job[q].until
      BY <1>12 DEF Vouched
    <2>2. QED
      BY <1>10, <2>1
  <1>13. QED
    BY <1>9, <1>11, <1>12 DEF holder, anchor

(* A window that saturates is as long as one counted without bound. *)
LEMMA CommandWindow ==
  ASSUME NEW issued \in 0..MaxTime, NEW t \in 0..MaxTime, NEW seconds \in MinSecond..MaxSecond
  PROVE  issued <= t /\ t <= PlusSeconds(issued, seconds) <=> t - issued \in 0..seconds
  <1>1. /\ MinSecond \in Int /\ MaxSecond \in Int /\ MinSecond <= 0
        /\ MaxTime \in Nat /\ MaxTime <= MaxSecond
    BY CommandAssumption
  <1>2. QED
    BY <1>1 DEF PlusSeconds

(* What `present` builds is accepted exactly if it is for this verifier,     *)
(* within the time it allowed, of claims that are vouched for and that       *)
(* settle what is asked.                                                     *)
LEMMA BuiltIsAccepted ==
  ASSUME CmdInv, NEW v \in Invocation, v \in DOMAIN job, NEW by \in Invocation,
         Made(by, "presentation"), job[by].cmd = "present", NEW p, p = made[by].value
  PROVE  FailedChecks(p, job[v].audience, started[v], KnownIssuers(job[v]), FALSE,
                      job[v].predicates) = {} <=>
            /\ job[by].audience = job[v].audience
            /\ started[v] - started[by] \in 0..job[by].expires_in
            /\ \A c \in Range(p.claims) : Vouched(c, got[by][1], v)
            /\ \A req \in job[v].predicates : \E c \in Range(p.claims) : Settles(req, c)
  <1> DEFINE t == started[v]
             anchor == KnownIssuers(job[v])
             again == FALSE
             reqs == job[v].predicates
  <1>1. /\ p.subject_id = got[by][1] /\ p.subject_key = got[by][1]
        /\ p.audience = job[by].audience /\ p.nonce = by /\ p.issued_at = started[by]
        /\ p.expires_at = PlusSeconds(started[by], job[by].expires_in)
        /\ SubjectSigned(p) /\ p.claims = ShownOf(Tail(got[by]), named[by])
    BY PresentationMade
  <1>2. /\ by \in DOMAIN job /\ Len(got[by]) = Len(job[by].in) /\ got[by] \in Seq(Range(got[by]))
        /\ started[by] \in 0..MaxTime /\ t \in 0..MaxTime
    <2>1. made[by].kind # "none"
      BY DEF Made
    <2>2. t \in 0..MaxTime
      BY DEF CmdInv, CmdTypes
    <2>3. QED
      BY <2>1, <2>2, MadeOfInputs
  <1>3. by \notin ShortNonce
    BY CommandAssumption
  <1>4. p.issued_at <= t /\ t <= p.expires_at <=> t - started[by] \in 0..job[by].expires_in
    <2>1. job \in Scripts
      BY DEF CmdInv, CmdTypes
    <2>2. job[by].expires_in \in MinSecond..MaxSecond
      BY <1>2, <2>1, JobsAre
    <2>3. QED
      BY <1>1, <1>2, <2>2, CommandWindow
  <1>5. p.claims # <<>>
    <2>1. job \in Scripts
      BY DEF CmdInv, CmdTypes
    <2>2. Len(got[by]) > 1
      BY <1>2, <2>1, JobsAre
    <2>3. 1 \in DOMAIN Tail(got[by])
      BY <1>2, <2>2
    <2>4. 1 \in DOMAIN p.claims
      BY <1>1, <2>3 DEF ShownOf
    <2>5. QED
      BY <2>4
  <1>6. ClaimsPass(p, t, anchor) <=> \A c \in Range(p.claims) : Vouched(c, got[by][1], v)
    <2>1. ASSUME NEW c \in Range(p.claims)
          PROVE  ClaimFailures(c, p.subject_id, t, anchor) = {} <=> Vouched(c, got[by][1], v)
      BY <1>1, PassesIfVouched
    <2> HIDE DEF t, anchor
    <2>2. QED
      BY <2>1 DEF ClaimsPass
  <1>7. ClaimsPass(p, t, anchor) =>
            (RequestsMet(p, t, anchor, reqs)
               <=> \A req \in reqs : \E c \in Range(p.claims) : Settles(req, c))
    BY DEF ClaimsPass, RequestsMet, PredicateHolds, FullyValid
  <1>8. ~again
    OBVIOUS
  <1> HIDE DEF again, anchor, reqs, t
  <1>9. FailedChecks(p, job[v].audience, t, anchor, again, reqs) = {} <=>
            /\ p.subject_key = p.subject_id /\ p.audience = job[v].audience
            /\ p.issued_at <= t /\ t <= p.expires_at
            /\ ~again /\ p.nonce \notin ShortNonce /\ p.claims # <<>>
            /\ SubjectSigned(p) /\ ClaimsPass(p, t, anchor) /\ RequestsMet(p, t, anchor, reqs)
    BY AcceptedParts
  <1>10. FailedChecks(p, job[v].audience, t, anchor, again, reqs) = {} <=>
            /\ job[by].audience = job[v].audience
            /\ t - started[by] \in 0..job[by].expires_in
            /\ ClaimsPass(p, t, anchor) /\ RequestsMet(p, t, anchor, reqs)
    BY <1>1, <1>3, <1>4, <1>5, <1>8, <1>9
  <1>11. QED
    BY <1>6, <1>7, <1>10 DEF again, anchor, reqs, t

(* A disclosure that came out of a credential is what went into it, under    *)
(* its issuer's key.                                                         *)
LEMMA ImportedWasExported ==
  ASSUME CmdInv, NEW v \in Invocation, Made(v, "disclosed")
  PROVE  \E e \in DOMAIN job :
            /\ Made(e, "vc") /\ got[e][1] = made[v].value
            /\ job[e].issuer_key = made[v].value.issuer_id
  <1> DEFINE x == got[v][1]
  <1>1. made[v].kind = "disclosed"
    BY DEF Made
  <1>2. /\ v \in DOMAIN job /\ Len(got[v]) = Len(job[v].in)
        /\ Computes(job[v], got[v], named[v], v, made[v], started[v])
    BY <1>1, MadeOfInputs
  <1>3. /\ job[v].cmd = "import-vc" /\ x.method = x.disclosed.issuer_id
        /\ made[v].value = x.disclosed
    BY <1>1, <1>2 DEF Computes, Parsed
  <1>4. Traced("vc", x, made, job)
    <2>1. job \in Scripts
      BY DEF CmdInv, CmdTypes
    <2>2. 1 \in DOMAIN job[v].in
      <3>1. /\ DOMAIN job[v].in = 1..Len(job[v].in) /\ Len(job[v].in) \in Nat
            /\ job[v].cmd # "keygen" => Len(job[v].in) > 0
        BY <1>2, <2>1, JobsAre
      <3>2. QED
        BY <1>3, <3>1
    <2>3. Traced(Expected(job[v])[1], x, made, job)
      BY <1>2, <2>2, InputTraced
    <2>4. Expected(job[v])[1] = "vc"
      BY <1>3 DEF Expected
    <2>5. QED
      BY <2>3, <2>4
  <1>5. PICK e \in DOMAIN job : made[e] = Parsed("vc", x)
    BY <1>4 DEF Traced
  <1>6. e \in Invocation /\ made[e].kind = "vc" /\ made[e].value = x
    BY <1>5, JobsAre DEF CmdInv, CmdTypes, Parsed
  <1>7. Computes(job[e], got[e], named[e], e, made[e], started[e])
    BY <1>6, MadeOfInputs
  <1>8. made[e].value = [method |-> job[e].issuer_key, disclosed |-> got[e][1]]
    BY <1>6, <1>7 DEF Computes, Parsed
  <1>9. x.method = job[e].issuer_key /\ x.disclosed = got[e][1]
    BY <1>6, <1>8
  <1>10. QED
    BY <1>3, <1>6, <1>9 DEF Made

(* `verify` says ACCEPTED exactly if the invocations behind the file say so, *)
(* whatever was overwritten, stopped or mixed up in between, and a           *)
(* disclosure imported from a credential is the one exported under its       *)
(* issuer's key (main.rs:329-372, 427-477, 526-550).                         *)
THEOREM VerdictEarned == CmdSpec => []VerdictIsEarned
  <1>1. CmdInv => VerdictIsEarned
    <2> SUFFICES ASSUME CmdInv PROVE VerdictIsEarned
      OBVIOUS
    <2>1. ASSUME NEW v \in Invocation, Made(v, "verdict")
          PROVE  LET p == got[v][1]
                     by == p.nonce
                 IN  /\ made[by] = Parsed("presentation", p)
                     /\ made[v].value <=>
                           /\ job[by].audience = job[v].audience
                           /\ started[v] - started[by] \in 0..job[by].expires_in
                           /\ \A c \in Range(p.claims) : Vouched(c, got[by][1], v)
                           /\ \A req \in job[v].predicates :
                                 \E c \in Range(p.claims) : Settles(req, c)
      <3> DEFINE p == got[v][1]
                 by == p.nonce
                 failed == FailedChecks(p, job[v].audience, started[v], KnownIssuers(job[v]),
                                        FALSE, job[v].predicates)
      <3>1. /\ by \in Invocation /\ job[by].cmd = "present" /\ v \in DOMAIN job
            /\ made[by] = Parsed("presentation", p)
            /\ Made(by, "presentation") /\ made[by].value = p
            /\ made[v] = Parsed("verdict", Accepts(failed))
        BY <2>1, VerdictMade
      <3>2. failed = {} <=>
              /\ job[by].audience = job[v].audience
              /\ started[v] - started[by] \in 0..job[by].expires_in
              /\ \A c \in Range(p.claims) : Vouched(c, got[by][1], v)
              /\ \A req \in job[v].predicates : \E c \in Range(p.claims) : Settles(req, c)
        BY <3>1, BuiltIsAccepted
      <3> HIDE DEF failed
      <3>3. made[v].value <=> failed = {}
        <4> DEFINE accepted == Accepts(failed)
        <4>1. accepted <=> failed = {}
          BY DEF Accepts
        <4> HIDE DEF accepted
        <4>2. made[v] = Parsed("verdict", accepted)
          BY <3>1 DEF accepted
        <4>3. made[v].value = accepted
          BY <4>2 DEF Parsed
        <4>4. QED
          BY <4>1, <4>3, Zenon
      <3>4. QED
        BY <3>1, <3>2, <3>3
    <2>2. QED
      BY <2>1, ImportedWasExported DEF VerdictIsEarned
  <1>2. QED
    BY <1>1, CommandInvariant, PTL

-------------------------------------------------------------------------------
(* A selection. *)

(* The last entry for an id counts, and without one all fields are shown. *)
LEMMA LastEntryCounts ==
  ASSUME NEW T, NEW entries \in Seq(T), NEW id,
         NEW mine, mine = {e \in DOMAIN entries : entries[e].claim_id = id}
  PROVE  mine # {} => \E e \in mine : LookUp(entries, id) = entries[e].keys
                                       /\ \A x \in mine : x <= e
  <1> DEFINE I == {e \in 1..Len(entries) : entries[e].claim_id = id}
  <1>1. Len(entries) \in Nat /\ DOMAIN entries = 1..Len(entries) /\ mine = I
    OBVIOUS
  <1>2. LookUp(entries, id) = LET last == IF I # {} THEN Max(I) ELSE 0
                              IN  IF last = 0 THEN AllFields ELSE entries[last].keys
    BY DEF LookUp, SelectLastInSeq
  <1>3. I \subseteq 1..Len(entries)
    OBVIOUS
  <1> HIDE DEF I
  <1>4. I # {} => Max(I) \in I /\ \A x \in I : x <= Max(I)
    BY <1>1, <1>3, GreatestIsIn
  <1>5. QED
    BY <1>1, <1>2, <1>3, <1>4

(* A claim that is named by --reveal shows the fields of its last entry, and *)
(* every one that is named is met, unless another invocation wrote to the    *)
(* inputs after the user had seen the id (main.rs:345-356, 414-425).         *)
THEOREM RevealKept == CmdSpec => []RevealIsKept
  <1>1. CmdInv => RevealIsKept
    <2> SUFFICES ASSUME CmdInv, NEW r \in Invocation, Made(r, "presentation"),
                        job[r].cmd = "present", NEW i \in DOMAIN made[r].value.claims
                 PROVE  LET c == made[r].value.claims[i]
                            mine == {e \in DOMAIN named[r] : named[r][e].claim_id = c.claim_id}
                        IN  /\ mine # {} =>
                                  \E e \in mine : /\ DOMAIN c.fields = named[r][e].keys
                                                  /\ \A x \in mine : x <= e
                            /\ (\E e \in Range(job[r].reveal) : e.of = i + 1) /\ r \notin replaced
                                  => mine # {}
      BY DEF RevealIsKept
    <2> DEFINE c == made[r].value.claims[i]
               d == got[r][i + 1]
               mine == {e \in DOMAIN named[r] : named[r][e].claim_id = c.claim_id}
    <2>1. /\ i + 1 \in DOMAIN got[r]
          /\ \E by \in Invocation : Made(by, "claim") /\ made[by].value = d
          /\ \E keys : c = Disclose(d, keys) /\ LookUp(named[r], d.claim_id) \in {AllFields, keys}
      BY ClaimShown
    <2>2. PICK by \in Invocation : Made(by, "claim") /\ made[by].value = d
      BY <2>1
    <2>3. PICK keys : c = Disclose(d, keys) /\ LookUp(named[r], d.claim_id) \in {AllFields, keys}
      BY <2>1
    <2> HIDE DEF d
    <2>4. AsIssued(d)
      BY <2>2, ClaimMade
    <2>5. c.claim_id = d.claim_id /\ DOMAIN c.fields = keys
      <3> HIDE DEF c
      <3>1. QED
        BY <2>3, <2>4, DisclosedParts
    <2>6. r \in DOMAIN job /\ step[r] # "idle" /\ SeenBy(r)
      <3>1. made[r].kind # "none"
        BY DEF Made
      <3>2. r \in DOMAIN job /\ step[r] # "idle"
        BY <3>1, MadeOfInputs DEF CmdInv, MadeOK
      <3>3. QED
        BY <3>2 DEF CmdInv, SeenOK
    <2>7. ASSUME NEW e \in DOMAIN named[r] PROVE named[r][e].keys # AllFields
      <3>1. job \in Scripts
        BY DEF CmdInv, CmdTypes
      <3>2. e \in DOMAIN job[r].reveal /\ named[r][e].keys = job[r].reveal[e].keys
        BY <2>6 DEF SeenBy
      <3>3. QED
        BY <2>6, <3>1, <3>2, JobsAre
    <2>8. ASSUME mine # {}
          PROVE  \E e \in mine : DOMAIN c.fields = named[r][e].keys /\ \A x \in mine : x <= e
      <3> DEFINE entries == named[r]
                 id == c.claim_id
      <3>1. entries \in Seq(Range(entries)) /\ mine = {e \in DOMAIN entries : entries[e].claim_id = id}
        BY <2>6 DEF SeenBy
      <3>2. mine \subseteq DOMAIN entries
        OBVIOUS
      <3> HIDE DEF mine, entries, id
      <3>3. PICK e \in mine : LookUp(entries, id) = entries[e].keys /\ \A x \in mine : x <= e
        BY <2>8, <3>1, LastEntryCounts
      <3>4. entries[e].keys # AllFields
        BY <2>7, <3>2, <3>3 DEF entries
      <3>5. LookUp(entries, id) \in {AllFields, keys}
        BY <2>3, <2>5 DEF entries, id
      <3>6. DOMAIN c.fields = entries[e].keys
        BY <2>5, <3>3, <3>4, <3>5
      <3>7. QED
        BY <3>3, <3>6 DEF entries
    <2>9. ASSUME NEW e \in Range(job[r].reveal), e.of = i + 1, r \notin replaced
          PROVE  mine # {}
      <3>1. PICK k \in DOMAIN job[r].reveal : e = job[r].reveal[k]
        BY DEF Range
      <3>2. k \in DOMAIN named[r]
            /\ (job[r].reveal[k].of \in DOMAIN got[r] =>
                   got[r][job[r].reveal[k].of].claim_id = named[r][k].claim_id)
        BY <2>6, <2>9, <3>1 DEF SeenBy
      <3>3. d.claim_id = named[r][k].claim_id
        BY <2>1, <2>9, <3>1, <3>2 DEF d
      <3>4. k \in mine
        BY <2>5, <3>2, <3>3
      <3>5. QED
        BY <3>4
    <2>10. QED
      BY <2>8, <2>9
  <1>2. QED
    BY <1>1, CommandInvariant, PTL
================================================================================
