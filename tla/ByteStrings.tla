----------------------------- MODULE ByteStrings -----------------------------
(***************************************************************************)
(* What net/net-msg.h promises its callers: a raw message is a string of   *)
(* bytes of its own, whatever buffers it shares with other messages, and   *)
(* an operation on one message leaves every other message as it was.       *)
(* A step takes the strings s to the strings t.                            *)
(***************************************************************************)
EXTENDS Integers, Sequences

CONSTANTS Msgs,         \* the raw_message structures of the callers
          Datas         \* the strings a caller may add

VARIABLE str            \* str[m]: the bytes of m; NoMessage when it is freed

NoMessage == <<-1>>

\* What the cipher of a connection makes of a byte.
Cipher(b) == 1 - b

StrInit == str = [m \in Msgs |-> NoMessage]

Live(s) == {m \in Msgs : s[m] # NoMessage}

Upto(d, n) == SubSeq(d, 1, n)
From(d, n) == SubSeq(d, n + 1, Len(d))

\* Operations on one message.
Make(s, t, m) == m \notin Live(s) /\ \E d \in Datas : t[m] = d
Extend(s, t, m) == m \in Live(s) /\ \E d \in Datas : t[m] = s[m] \o d
Prepend(s, t, m) == m \in Live(s) /\ \E d \in Datas : t[m] = d \o s[m]
Drop(s, t, m) == m \in Live(s) /\ \E n \in 0..Len(s[m]) : t[m] = From(s[m], n)
Cut(s, t, m) == m \in Live(s) /\ \E n \in 0..Len(s[m]) : t[m] = Upto(s[m], n)
Delete(s, t, m) == m \in Live(s) /\ t[m] = NoMessage

\* Operations on two.
Copy(s, t, m, d) == m \in Live(s) /\ d \notin Live(s) /\ t[m] = s[m] /\ t[d] = s[m]

Join(s, t, m, d) == {m, d} \subseteq Live(s) /\ t[m] = s[m] \o s[d] /\ t[d] = NoMessage

\* One of the two parts keeps the message, the other is a new one.
Split(s, t, m, d) ==
  /\ m \in Live(s) /\ d \notin Live(s)
  /\ \E n \in 0..Len(s[m]) :
       {<<t[m], t[d]>>, <<t[d], t[m]>>} \cap {<<Upto(s[m], n), From(s[m], n)>>} # {}

Encrypt(s, t, m, d) ==
  /\ {m, d} \subseteq Live(s)
  /\ \E n \in 1..Len(s[m]) : /\ t[m] = From(s[m], n)
                             /\ t[d] = s[d] \o [i \in 1..n |-> Cipher(s[m][i])]

Step(s, t) ==
  \E m, d \in Msgs :
    /\ \A o \in Msgs \ {m, d} : t[o] = s[o]
    /\ \/ /\ m = d
          /\ \/ Make(s, t, m) \/ Extend(s, t, m) \/ Prepend(s, t, m)
             \/ Drop(s, t, m) \/ Cut(s, t, m) \/ Delete(s, t, m)
       \/ /\ m # d
          /\ Copy(s, t, m, d) \/ Join(s, t, m, d) \/ Split(s, t, m, d) \/ Encrypt(s, t, m, d)

StrNext == \E s \in {str}, t \in {str'} : Step(s, t)

StrSpec == StrInit /\ [][StrNext]_str
==============================================================================
