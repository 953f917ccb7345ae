------------------------------ MODULE SingleUse ------------------------------
(****************************************************************************)
(* What a verifier's replay protection promises, without saying how.        *)
(*                                                                          *)
(* A presentation answers one challenge: a nonce, as its subject signed it, *)
(* addressed to one audience.  A pool of verifiers (those that share a      *)
(* store) accepts it only inside its window and only if the pool accepted   *)
(* no answer to the same challenge whose own window is still open.          *)
(*                                                                          *)
(* NonceStore implements this with a table of consumed nonces.              *)
(****************************************************************************)
EXTENDS Integers

VARIABLES
    now,           \* the verifiers' clock
    accepted       \* what was accepted, under names that are never used again:
                   \* [pool, challenge, from, until, at]

vars == <<now, accepted>>

(* An earlier acceptance d bars a later one e. *)
Bars(d, e) == d.pool = e.pool /\ d.challenge = e.challenge /\ e.at <= d.until

Init == now \in Int /\ accepted = [k \in {} |-> 0]

Accept(k, e) ==
    /\ k \notin DOMAIN accepted
    /\ e.at = now /\ e.from <= now /\ now <= e.until
    /\ \A i \in DOMAIN accepted : ~Bars(accepted[i], e)
    /\ accepted' = [i \in DOMAIN accepted \cup {k} |-> IF i = k THEN e ELSE accepted[i]]
    /\ UNCHANGED now

Advance == now' \in Int /\ now' > now /\ UNCHANGED accepted

Next == Advance \/ \E k \in DOMAIN accepted' : Accept(k, accepted'[k])

Spec == Init /\ [][Next]_vars
==============================================================================
