-------------------------------- MODULE DidKey --------------------------------
(****************************************************************************)
(* did:key texts of public keys (aion-trust-interop/src/didkey.rs).  A key  *)
(* is its bytes, a text the base-58 digits its characters stand for.  The   *)
(* fixed prefix and the fragment, which repeats the text, are left out.     *)
(****************************************************************************)
EXTENDS Integers, Sequences, SequencesExt

CONSTANT Key    \* the keys: byte strings of one length

ASSUME KeyAssumption == \A vk \in Key : vk \in Seq(0..255)

ED25519_MULTICODEC == <<237, 1>>

(* Digits are kept lowest first; above the last there are zeros. *)
DigitOf(digits, i) == IF i <= Len(digits) THEN digits[i] ELSE 0

(* One more input digit: what is carried over the first i digits. *)
Carries(from, to, digits, v) ==
    LET carry[i \in Nat] ==
            IF i = 0 THEN v ELSE (carry[i - 1] + DigitOf(digits, i) * from) \div to
    IN  carry

(* Every digit is carried over and what is left of the carry, less than      *)
(* `from`, is pushed: two digits at most, in the bases there are.            *)
Push(from, to, digits, v) ==
    LET carry == Carries(from, to, digits, v)
        n == Min({i \in Len(digits)..Len(digits) + 2 : carry[i] = 0})
    IN  [i \in 1..n |-> (carry[i - 1] + DigitOf(digits, i) * from) % to]

(* The digits after the first k input digits. *)
Digits(from, to, s) ==
    LET digits[k \in 0..Len(s)] == IF k = 0 THEN <<>> ELSE Push(from, to, digits[k - 1], s[k])
    IN  digits

LeadingZeros(s) == SubSeq(s, 1, SelectInSeq(Append(s, 1), LAMBDA x : x # 0) - 1)

Convert(from, to, s) == LeadingZeros(s) \o Reverse(Digits(from, to, s)[Len(s)])

EncodeDidKey(vk) == Convert(256, 58, ED25519_MULTICODEC \o vk)

(* The key a text stands for; none if it is not the text of a key. *)
DecodeDidKey(text) ==
    LET bytes == Convert(58, 256, text)
        codec == Len(ED25519_MULTICODEC)
    IN  {vk \in {SubSeq(bytes, codec + 1, Len(bytes))} :
            SubSeq(bytes, 1, codec) = ED25519_MULTICODEC /\ vk \in Key}
===============================================================================
