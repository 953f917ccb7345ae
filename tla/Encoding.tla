------------------------------- MODULE Encoding -------------------------------
(****************************************************************************)
(* The bytes that are signed and hashed, and the hex texts of files         *)
(* (aion-trust-core/src/encoding.rs).                                       *)
(*                                                                          *)
(* Two callers feed a SigningWriter each, call by call; a hex text grows    *)
(* character by character.  A byte has Base values where the code has 256,  *)
(* a length takes LengthWidth bytes where it has 4, an integer IntWidth and *)
(* U32Width where it has 8 and 4: the arithmetic is the code's with smaller *)
(* numbers.  A byte is two hex digits, so a digit is below HexBase and      *)
(* Base = HexBase * HexBase.                                                *)
(****************************************************************************)
EXTENDS Integers, Sequences

CONSTANTS
    HexBase, LengthWidth, IntWidth, U32Width,
    Domain,       \* the domain tags
    Bytes,        \* the byte strings that are written as fields
    Ints, U32s,   \* the numbers that are
    Character,    \* of hex texts: [digit, upper], a digit of HexBase is none
    MaxCalls, MaxText  \* bounds on the calls after `new` and on the text

Base == HexBase * HexBase

(* What a digit counts that `k` others follow. *)
Weight[k \in Nat] == IF k = 0 THEN 1 ELSE Base * Weight[k - 1]

(* No field is longer than its length can say: 4 GiB in the code. *)
ASSUME EncodingAssumption ==
    /\ HexBase \in Nat \ {0, 1} /\ LengthWidth \in Nat \ {0}
    /\ \A width \in {IntWidth, U32Width} : width \in Nat /\ width < Weight[LengthWidth]
    /\ \A b \in Bytes \cup Domain : b \in Seq(0..Base - 1) /\ Len(b) < Weight[LengthWidth]
    /\ Ints \cup U32s \subseteq Int
    /\ Character \subseteq [digit : 0..HexBase, upper : BOOLEAN]

VARIABLES
    left, right,  \* the writers: [buf, fields], `fields` a history
    text          \* a hex text, in the order it is read

writers == <<left, right>>
encVars == <<left, right, text>>

-------------------------------------------------------------------------------
(* SigningWriter. *)

(* Two's complement, most significant byte first. *)
BigEndian(n, width) == [i \in 1..width |-> (n \div Weight[width - i]) % Base]

(* Mutant of Prefixed: fields are concatenated. *)
Unprefixed(bytes) == bytes

Prefixed(bytes) == BigEndian(Len(bytes), LengthWidth) \o bytes

Unused == [buf |-> <<>>, fields |-> <<>>]

Put(writer, bytes) ==
    [buf |-> writer.buf \o Prefixed(bytes), fields |-> Append(writer.fields, bytes)]

New(domain) == Put(Unused, domain)

Int64(writer, n) == Put(writer, BigEndian(n, IntWidth))

U32(writer, n) == Put(writer, BigEndian(n, U32Width))

(* What one call makes of a writer. *)
Calls(writer) ==
    IF writer = Unused THEN {New(d) : d \in Domain}
    ELSE IF Len(writer.fields) > MaxCalls THEN {}
    ELSE {Put(writer, b) : b \in Bytes} \cup {Int64(writer, n) : n \in Ints}
             \cup {U32(writer, n) : n \in U32s}

WriteLeft == left' \in Calls(left) /\ UNCHANGED <<right, text>>
WriteRight == right' \in Calls(right) /\ UNCHANGED <<left, text>>

-------------------------------------------------------------------------------
(* Hex. *)

Undecodable == <<-1>>

LowerCase(d) == [digit |-> d, upper |-> FALSE]

ToHex(bytes) ==
    [j \in 1..2 * Len(bytes) |->
        LET byte == bytes[(j + 1) \div 2]
        IN  LowerCase(IF j % 2 = 1 THEN byte \div HexBase ELSE byte % HexBase)]

(* Mutant of FromHex: a last character on its own is passed over. *)
FromHexPairs(t) ==
    IF \E i \in DOMAIN t : t[i].digit = HexBase THEN Undecodable
    ELSE [i \in 1..Len(t) \div 2 |-> t[2 * i - 1].digit * HexBase + t[2 * i].digit]

(* Pairs of digits of either case; an odd length and any other character are *)
(* refused.                                                                  *)
FromHex(t) ==
    IF Len(t) % 2 # 0 \/ \E i \in DOMAIN t : t[i].digit = HexBase THEN Undecodable
    ELSE [i \in 1..Len(t) \div 2 |-> t[2 * i - 1].digit * HexBase + t[2 * i].digit]

DecodeArray(t, n) ==
    LET bytes == FromHex(t)
    IN  IF bytes # Undecodable /\ Len(bytes) = n THEN bytes ELSE Undecodable

Type == Len(text) < MaxText /\ (\E c \in Character : text' = Append(text, c)) /\ UNCHANGED writers

-------------------------------------------------------------------------------
EncInit == left = Unused /\ right = Unused /\ text = <<>>

EncNext == WriteLeft \/ WriteRight \/ Type

EncSpec == EncInit /\ [][EncNext]_encVars

-------------------------------------------------------------------------------
(* Properties. *)

(* No two distinct messages encode to one byte string, whatever their        *)
(* domains, however many fields they have and wherever one field ends and    *)
(* the next begins (encoding.rs:3-5): what a signature or a hash covers can  *)
(* be read in one way only.                                                  *)
Unambiguous == left.buf = right.buf => left.fields = right.fields

(* A text that decodes is, but for the case of its letters, the text that    *)
(* the bytes are written as, and a text of any other length is no array of   *)
(* that size: a key or a secret cut short in its file is never another key   *)
(* (encoding.rs:10-46, identity.rs:22-27).                                   *)
OneTextPerCase ==
    LET bytes == FromHex(text)
    IN  /\ bytes # Undecodable =>
              /\ ToHex(bytes) = [i \in DOMAIN text |-> LowerCase(text[i].digit)]
              /\ FromHex(ToHex(bytes)) = bytes
        /\ \A n \in 0..MaxText : DecodeArray(text, n) # Undecodable => Len(text) = 2 * n
===============================================================================
