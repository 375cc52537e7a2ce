-------------------------------- MODULE Phone --------------------------------
(***************************************************************************)
(* src/util/phone.js: the number Telenow is given to dial, from what a       *)
(* customer wrote.  A writing is [plus, glued, digits]: does it begin with   *)
(* "+", do its first two digits stand next to each other at its beginning    *)
(* (only then is "00" a prefix), and its digits; what is between them is     *)
(* dropped.  A normalized number is its digits, the "+" goes without saying. *)
(***************************************************************************)
EXTENDS Integers, Sequences

CONSTANTS
  Digit,                \* 0 .. 9
  CountryCode,          \* COUNTRY_DIAL_CODES of the default country
  NationalLength,       \* 10
  MinDigits, MaxDigits  \* 8, 15

ASSUME PhoneAssumption ==
  /\ 0 \in Digit /\ Digit \subseteq Nat
  /\ CountryCode \in Seq(Digit) /\ CountryCode # <<>> /\ CountryCode[1] # 0
  /\ NationalLength \in Nat \ {0} /\ MinDigits \in Nat /\ MaxDigits \in Nat
  \* Country codes of up to three digits, national numbers of ten, 8 to 15 in all.
  /\ 2 * Len(CountryCode) < MinDigits
  /\ MinDigits <= Len(CountryCode) + NationalLength
  /\ 2 * Len(CountryCode) + NationalLength <= MaxDigits + 1

Writing == [plus : BOOLEAN, glued : BOOLEAN, digits : Seq(Digit)]

\* The null of toE164.
None == <<>>

StartsWith(s, prefix) ==
  Len(s) >= Len(prefix) /\ \A i \in 1 .. Len(prefix) : s[i] = prefix[i]

From(s, i) == SubSeq(s, i, Len(s))

\* A slip, and what the comment says: a single leading 0 is dropped.
StripZeros_Single(s) == IF s # <<>> /\ s[1] = 0 THEN From(s, 2) ELSE s

\* replace(/^0+/, '')
StripZeros(s) ==
  IF \A i \in 1 .. Len(s) : s[i] = 0 THEN <<>>
  ELSE From(s, CHOOSE i \in 1 .. Len(s) :
                 s[i] # 0 /\ \A j \in 1 .. i - 1 : s[j] = 0)

SanityCheck(digits) == IF Len(digits) \in MinDigits .. MaxDigits THEN digits ELSE None

\* A slip: a full number must be longer than that.
HasCountryCode_OffByOne(digits) ==
  StartsWith(digits, CountryCode) /\ Len(digits) > Len(CountryCode) + NationalLength

\* The guard against a country code put before a country code.
HasCountryCode(digits) ==
  StartsWith(digits, CountryCode) /\ Len(digits) >= Len(CountryCode) + NationalLength

Local(digits) ==
  SanityCheck(IF HasCountryCode(digits) THEN digits ELSE CountryCode \o digits)

ToE164(w) ==
  LET prefix00 == ~w.plus /\ w.glued /\ StartsWith(w.digits, <<0, 0>>)
      digits   == IF prefix00 THEN From(w.digits, 3) ELSE w.digits
  IN IF digits = <<>> THEN None
     ELSE IF w.plus \/ prefix00 THEN SanityCheck(digits)
     ELSE Local(StripZeros(digits))

\* extractPhone: the first of an order's places that gives a number.
ExtractPhone(candidates) ==
  LET usable == {i \in DOMAIN candidates : ToE164(candidates[i]) # None} IN
  IF usable = {} THEN None
  ELSE ToE164(candidates[CHOOSE i \in usable : \A j \in usable : i <= j])
-----------------------------------------------------------------------------
\* A national number of the usual length, and the ways to write it.
National(n) ==
  /\ Len(n) \in NationalLength .. Len(CountryCode) + NationalLength - 1
  /\ n[1] # 0

Writings(n) ==
  {[plus |-> TRUE, glued |-> FALSE, digits |-> CountryCode \o n]} \cup
  [plus : {FALSE}, glued : BOOLEAN,
   digits : {n, <<0>> \o n, CountryCode \o n, <<0, 0>> \o CountryCode \o n}]
=============================================================================
