------------------------------- MODULE Buffers -------------------------------
(***************************************************************************)
(* The buffers an endpoint collects messages in, and their sizes.  A       *)
(* message is a number and a size; a TCP endpoint may put magic cookies in *)
(* front of the messages of a buffer.                                      *)
(***************************************************************************)
EXTENDS Integers, Sequences

CONSTANTS
    Sizes,             \* message sizes
    CookieSize         \* size of a magic cookie

ASSUME SizesAssumption == Sizes \subseteq Nat \ {0} /\ CookieSize \in Nat \ {0}

Message == [id : Nat \ {0}, size : Sizes]
Cookie == [id |-> 0, size |-> CookieSize]

\* The first n elements of b are cookies, the others are messages.
LedBy(b, n) ==
    /\ \A i \in 1 .. n : b[i] = Cookie
    /\ \A i \in n + 1 .. Len(b) : b[i] # Cookie
Buffer == {b \in Seq(Message \cup {Cookie}) : \E n \in 0 .. Len(b) : LedBy(b, n)}

\* The messages of a buffer, without the cookies.
Cookies(b) == CHOOSE n \in 0 .. Len(b) : LedBy(b, n)
Ids(b) == [k \in 1 .. Len(b) - Cookies(b) |-> b[Cookies(b) + k].id]

\* The sum of a sequence of numbers.
PartialSums(s) ==
    LET f[n \in 0 .. Len(s)] == IF n = 0 THEN 0 ELSE f[n - 1] + s[n] IN f
TotalOf(s) == PartialSums(s)[Len(s)]

BufferSize(b) == TotalOf([i \in DOMAIN b |-> b[i].size])
QueuedSize(q) == TotalOf([i \in DOMAIN q |-> BufferSize(q[i])])

\* The operations under way without the i-th one, whose handler has run.
RemoveAt(s, i) == SubSeq(s, 1, i - 1) \o SubSeq(s, i + 1, Len(s))
=============================================================================
