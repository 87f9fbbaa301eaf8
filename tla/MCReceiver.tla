----------------------------- MODULE MCReceiver -----------------------------
(* Small instances of Receiver for TLC. *)
EXTENDS Receiver

Message(n) == [kind |-> "message", size |-> n, announced |-> n]
Sd(n) == [kind |-> "sd", size |-> n, announced |-> n]
Broken(n, m) == [kind |-> "message", size |-> n, announced |-> m]
CookieItem == [kind |-> "cookie", size |-> 16, announced |-> 16]
Command(n) == [kind |-> "message", size |-> n + 7, announced |-> n]

Whole == {<<Message(a), Message(b), Message(c)>> : a, b, c \in {16, 45}}
Oversize == {<<Message(16), Message(60), Message(17)>>}
WithCookies ==
    {<<CookieItem, Message(a), CookieItem, Message(b)>> : a, b \in {16, 21}}
BrokenWithCookies ==
    {<<CookieItem, Broken(18, n), CookieItem, Message(17), Message(20)>> :
        n \in {8, 16, 20, 34, 40, 60}}

MCStreams == [p \in Protocols |->
    CASE p = "local" -> {<<Command(a), Command(b), Command(c)>> : a, b, c \in {0, 2, 9}}
                            \cup {<<Command(1), Command(60)>>}
      [] p \in {"tcp_server", "tcp_client"} ->
            Whole \cup Oversize \cup WithCookies \cup BrokenWithCookies
      [] OTHER -> {<<Message(a), Message(b)>> : a, b \in {16, 17}}
                      \cup {<<Broken(16, a), Message(16)>> : a \in {8, 20, 99}}
                      \cup {<<Sd(16)>>, <<Sd(16), Message(16)>>, <<Sd(16), Message(20)>>}]
=============================================================================
