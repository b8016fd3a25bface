------------------------------ MODULE MC_Socks5 ------------------------------
(***************************************************************************)
(* Socks5 on a small set of proxy replies: every accepting and rejecting   *)
(* method reply, every reply-header defect the code tests, the three bound *)
(* address types, domain lengths at 0, below 128, at 128 and at 255, a    *)
(* few bytes of the destination's own data after the reply, and replies   *)
(* cut short.                                                              *)
(***************************************************************************)
EXTENDS Socks5

Zeros(n) == [i \in 1..n |-> 0]

MCGreetReplies == {<<5, 0>>, <<5, 255>>}

MCHeaders == {<<5, 0, 0, 1>>, <<5, 0, 0, 4>>, <<5, 0, 0, 3>>,
              <<5, 4, 0, 1>>, <<4, 0, 0, 1>>, <<5, 0, 1, 1>>, <<5, 0, 0, 2>>}

MCDomainLens == {0, 3, 128, 255}

MCBodies(h) ==
    CASE h[4] = 1 -> {<<1, 2, 3, 4>>}
      [] h[4] = 4 -> {Zeros(16)}
      [] h[4] = 3 -> {<<l>> \o Zeros(l) : l \in MCDomainLens}
      [] OTHER    -> {<<>>}

\* 00 50: bound port 80; 7 7: the first bytes the destination sends.
\* A proxy may also stop after any part of its reply: nothing at all, or
\* only the method reply.
MCScripts ==
    {<<>>, <<5, 0>>} \cup
    UNION {{g \o h \o b \o <<0, 80>> \o t :
              g \in MCGreetReplies, b \in MCBodies(h), t \in {<<>>, <<7, 7>>}} :
           h \in MCHeaders}

MCDestLens == {3, 255, 256}

=============================================================================
