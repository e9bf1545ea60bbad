--------------------------- MODULE RequestVersion ---------------------------
(***************************************************************************)
(* The version of a request line, as BaseHTTPRequestHandler reads it: once *)
(* as a pair of numbers and once as a string.  A character is represented  *)
(* by a number, in the order of the character codes that matter: the signs *)
(* before the dot, the dot before the digits, the digits before the        *)
(* letters.  White space, which stoul() skips, is left out.                *)
(***************************************************************************)
EXTENDS Integers, Sequences

Plus   == -3
Minus  == -2
Dot    == -1
Digit  == 0 .. 9
Letter == 10

\* The order of std::string.
Before(s, t) ==
    \E i \in 1 .. Len(t) :
        /\ \A j \in 1 .. i - 1 : j <= Len(s) /\ s[j] = t[j]
        /\ i > Len(s) \/ s[i] < t[i]

\* std::stoul() converts the digits up to the first other character ...
Digits(s) ==
    SubSeq(s, 1, CHOOSE n \in 0 .. Len(s) :
                    /\ \A i \in 1 .. n : s[i] \in Digit
                    /\ n < Len(s) => s[n + 1] \notin Digit)

Values(digits) ==
    LET value[n \in 0 .. Len(digits)] ==
           IF n = 0 THEN 0 ELSE 10 * value[n - 1] + digits[n]
    IN  value

Integer(s) == Values(Digits(s))[Len(Digits(s))]

\* ... behind one sign, which a minus only applies to the unsigned result.
Signed(s)   == s # <<>> /\ s[1] \in {Plus, Minus}
Unsigned(s) == IF Signed(s) THEN Tail(s) ELSE s

\* The digits say more than ULONG_MAX: compared from the first that is not 0.
ULongMax == <<1, 8, 4, 4, 6, 7, 4, 4, 0, 7, 3, 7, 0, 9, 5, 5, 1, 6, 1, 5>>

OutOfRange(digits) ==
    \E k \in 0 .. Len(digits) :
       LET n == SubSeq(digits, k + 1, Len(digits))
       IN  /\ \A i \in 1 .. k : digits[i] = 0
           /\ n # <<>> /\ n[1] # 0
           /\ \/ Len(n) > Len(ULongMax)
              \/ Len(n) = Len(ULongMax) /\ Before(ULongMax, n)

\* It throws when no digit comes first, and when the digits are too many.
Converts(s) ==
    LET n == Unsigned(s)
    IN  n # <<>> /\ n[1] \in Digit /\ ~OutOfRange(Digits(n))

\* The casts to unsigned short.
Width     == 65536
Number(s) ==
    LET n == Integer(Unsigned(s))
    IN  (IF Signed(s) /\ s[1] = Minus THEN -n ELSE n) % Width

\* The string behind "HTTP/".
Text(version) == version[1] \o <<Dot>> \o version[2]

\* Slip: > in place of >=.
TextIsAtLeast11_Strict(text) == Before(<<1, Dot, 1>>, text)

\* request_version >= "HTTP/1.1"
TextIsAtLeast11(text) == ~Before(text, <<1, Dot, 1>>)

\* protocol_version >= ProtocolVersion{major, minor}
NumberIsAtLeast(version, major, minor) ==
    \/ Number(version[1]) > major
    \/ Number(version[1]) = major /\ Number(version[2]) >= minor
=============================================================================
