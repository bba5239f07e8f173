---------------------------- MODULE MCFileExchange ----------------------------
(* Sessions of three clients for TLC.                                      *)
EXTENDS FileExchange, TLC

CONSTANTS c1, c2, c3, a, b

Request(m, n, s, l) == [method |-> m, filename |-> n, size |-> s, len |-> l]

Put(n, s)      == Request("PUT", n, s, s)
Short(n, s, l) == Request("PUT", n, s, l)
Get(n)         == Request("GET", n, 0, 0)
Delete(n)      == Request("DELETE", n, 0, 0)
List           == Request("LIST", a, 0, 0)
Bad            == Request("POST", a, 0, 0)

\* One name uploaded, then replaced, deleted or spoiled, while it is read; and
\* a second name, so that lists have a newline.
MCSessions ==
  { c1 :> Put(a, 1) @@ c2 :> r[1] @@ c3 :> r[2] :
      r \in { <<Put(a, 2), Get(a)>>, <<Put(a, 2), List>>,
             <<Short(a, 2, 1), Get(a)>>, <<Short(a, 2, 1), Put(a, 0)>>,
             <<Short(a, 2, 1), Delete(a)>>, <<Delete(a), List>>,
             <<Put(b, 1), List>>, <<Bad, Get(b)>> } }

Lengths == a :> 1 @@ b :> 3
=============================================================================
