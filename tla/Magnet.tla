------------------------------- MODULE Magnet -------------------------------
(***************************************************************************)
(* magnet.Parse.  The one thing it computes is the info hash, from hex or  *)
(* from base32; decodeBase32 is here with its loop and its bit buffer.     *)
(*                                                                         *)
(* A link is a record: whether the scheme fits, whether url.ParseQuery     *)
(* accepts the query, whether there is an xt, whether it has its prefix,   *)
(* and the characters after that.  HashLen is 20 bytes in the code; 5 is   *)
(* one round of decodeBase32's loop, which leaves its buffer empty.        *)
(***************************************************************************)
EXTENDS Integers, Sequences

CONSTANTS
    Links,      \* command line arguments
    HashLen     \* bytes of an info hash

ASSUME MagnetAssumption == HashLen \in Nat \ {0} /\ HashLen % 5 = 0

VARIABLES
    link,               \* the argument
    ppc,                \* "parse", "base32", "parsed", "bad"
    bits, nBits, out    \* of decodeBase32; out is the hash once parsed

magnetVars == <<link, ppc, bits, nBits, out>>

Alphabet == <<"A", "B", "C", "D", "E", "F", "G", "H", "I", "J", "K", "L", "M",
              "N", "O", "P", "Q", "R", "S", "T", "U", "V", "W", "X", "Y", "Z",
              "2", "3", "4", "5", "6", "7">>
HexDigits == <<"0", "1", "2", "3", "4", "5", "6", "7", "8", "9",
               "A", "B", "C", "D", "E", "F">>
Lower == <<"a", "b", "c", "d", "e", "f", "g", "h", "i", "j", "k", "l", "m",
           "n", "o", "p", "q", "r", "s", "t", "u", "v", "w", "x", "y", "z">>

\* strings.ToUpper on one character.
ToUpper(c) ==
    IF \E i \in DOMAIN Lower : Lower[i] = c
    THEN Alphabet[CHOOSE i \in DOMAIN Lower : Lower[i] = c] ELSE c

\* strings.IndexRune, -1 when c is not there; hex.DecodeString reads its
\* digits the same way and takes both cases.
IndexRune(s, c) ==
    IF \E i \in DOMAIN s : s[i] = ToUpper(c)
    THEN (CHOOSE i \in DOMAIN s : s[i] = ToUpper(c)) - 1 ELSE -1

HexLen == 2 * HashLen
Base32Len == (8 * HashLen) \div 5

-----------------------------------------------------------------------------
(* Parse and parseInfoHash                                                 *)

InitMagnet ==
    /\ link \in Links
    /\ ppc = "parse"
    /\ bits = 0 /\ nBits = 0 /\ out = <<>>

\* What comes before the characters of the hash.
Prefixed == link.scheme /\ link.query /\ link.xt /\ link.urn

DecodeHex ==
    /\ ppc = "parse" /\ Prefixed /\ Len(link.hash) = HexLen
    /\ \A k \in DOMAIN link.hash : IndexRune(HexDigits, link.hash[k]) >= 0
    /\ out' = [k \in 1 .. HashLen |-> 16 * IndexRune(HexDigits, link.hash[2 * k - 1])
                                         + IndexRune(HexDigits, link.hash[2 * k])]
    /\ ppc' = "parsed"
    /\ UNCHANGED <<link, bits, nBits>>

StartBase32 ==
    /\ ppc = "parse" /\ Prefixed /\ Len(link.hash) = Base32Len
    /\ ppc' = "base32"
    /\ UNCHANGED <<link, bits, nBits, out>>

ParseFails ==
    /\ ppc = "parse"
    /\ \/ ~Prefixed
       \/ Len(link.hash) \notin {HexLen, Base32Len}
       \/ /\ Len(link.hash) = HexLen
          /\ \E k \in DOMAIN link.hash : IndexRune(HexDigits, link.hash[k]) < 0
    /\ ppc' = "bad"
    /\ UNCHANGED <<link, bits, nBits, out>>

-----------------------------------------------------------------------------
(* decodeBase32: the remaining characters are consumed from link.hash      *)

ByteReady_Late(n) == n > 8
ByteReady(n) == n >= 8

DecodeChar ==
    /\ ppc = "base32" /\ link.hash # <<>>
    /\ LET idx == IndexRune(Alphabet, Head(link.hash))
           b == bits * 2 ^ 5 + idx
           n == nBits + 5
       IN  IF idx < 0
           THEN ppc' = "bad" /\ UNCHANGED <<link, bits, nBits, out>>
           ELSE /\ link' = [link EXCEPT !.hash = Tail(@)]
                /\ IF ByteReady(n)
                   THEN /\ nBits' = n - 8
                        /\ out' = Append(out, (b \div 2 ^ (n - 8)) % 2 ^ 8)
                        /\ bits' = b % 2 ^ (n - 8)
                   ELSE nBits' = n /\ bits' = b /\ UNCHANGED out
                /\ UNCHANGED ppc

Base32Done ==
    /\ ppc = "base32" /\ link.hash = <<>>
    /\ ppc' = "parsed"
    /\ UNCHANGED <<link, bits, nBits, out>>

Parse == DecodeHex \/ StartBase32 \/ ParseFails \/ DecodeChar \/ Base32Done
=============================================================================
