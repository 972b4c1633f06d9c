------------------------------ MODULE MCRelay -------------------------------
(* Values of the constants of Relay for TLC. *)
EXTENDS Relay, TLC

CONSTANTS oracle, supply, c1

MCStreams == {oracle, supply}
MCClients == {c1}
NoClients == {}
Kept == {FALSE}

\* Enough oracle events for a second page, and a second stream to interleave.
MCMaxEvents == oracle :> 3 @@ supply :> 2
TwoEach == oracle :> 2 @@ supply :> 2
\* The second event of the other stream does not decode.
BadSupply == {<<supply, 2>>}
AllParse == {}
=============================================================================
