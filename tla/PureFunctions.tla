--------------------------- MODULE PureFunctions ---------------------------
(***************************************************************************)
(* The functions without state, over all their inputs: a clock               *)
(* that walks round one day under a window a merchant saved (malformed and   *)
(* disabled ones included), and a phone number that is written digit by      *)
(* digit.                                                                   *)
(***************************************************************************)
EXTENDS QuietHours, Phone

CONSTANT MaxLength  \* of a written number

VARIABLE input

\* One hour and one minute more than the day has: the malformed texts.
Texts == (0 .. HoursPerDay) \X (0 .. MinutesPerHour)

AnyInput == \/ input \in [window : [enabled : BOOLEAN, start : Texts, end : Texts],
                          cur : 0 .. Day - 1]
            \/ input = [number |-> <<>>]

NextMinute == /\ "cur" \in DOMAIN input
              /\ input' = [input EXCEPT !.cur = MinuteAfter(@, 1)]

Write == /\ "number" \in DOMAIN input
         /\ Len(input.number) < MaxLength
         /\ \E d \in Digit : input' = [number |-> Append(input.number, d)]

NextInput == NextMinute \/ Write

InputSpec == AnyInput /\ [][NextInput]_input
-----------------------------------------------------------------------------
\* A caller that waits nextWindowEnd() (the TODO of _base.js:66) calls at the
\* first minute that is not quiet: it neither calls inside the window nor
\* skips a free minute.
NextWindowEndIsFirstFreeMinute ==
  "cur" \in DOMAIN input /\ IsQuietNow(input.window, input.cur) =>
    LET w == input.window
        d == NextWindowEnd(w, input.cur)
    IN /\ d \in 1 .. Day
       /\ ~IsQuietNow(w, MinuteAfter(input.cur, d))
       /\ \A i \in 0 .. d - 1 : IsQuietNow(w, MinuteAfter(input.cur, i))

\* A usable window and the window with its ends exchanged share out the day:
\* every minute is quiet under exactly one of them (21:00-09:00 against
\* 09:00-21:00), so neither boundary minute is lost or claimed twice.
SwappedWindowIsComplement ==
  "cur" \in DOMAIN input /\ Usable(input.window) =>
    LET w == input.window
    IN IsQuietNow(w, input.cur) <=>
         ~IsQuietNow([w EXCEPT !.start = w.end, !.end = w.start], input.cur)

\* A national number of the usual length is one number however it is written
\* (with or without trunk zero, country code, plus or 00), wherever among the
\* fields of an order it stands: two writings never are two customers.
AllWritingsAgree ==
  "number" \in DOMAIN input =>
    LET n == input.number IN
    National(n) =>
      \A w \in Writings(n), other \in Writings(<<>>) :
        ExtractPhone(<<other, w>>) = CountryCode \o n

\* What one might expect of shorter national numbers too, which several of the
\* countries have; written with the country code alone they are prefixed twice.
ShortNumbersAgree ==
  "number" \in DOMAIN input =>
    LET n == input.number IN
    Len(n) = NationalLength - 1 /\ n[1] # 0 =>
      \A w \in Writings(n) : ToE164(w) = CountryCode \o n
=============================================================================
