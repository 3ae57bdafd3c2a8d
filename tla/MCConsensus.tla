----------------------------- MODULE MCConsensus -----------------------------
(***************************************************************************)
(* Instance of Consensus for TLC.                                          *)
(***************************************************************************)
EXTENDS Consensus, TLC

CONSTANTS p1, p2, x, y, A, B, C

(* A and B are siblings, C is what is built on A.                          *)
MCParent == A :> None @@ B :> None @@ C :> A

MCLeave == 5

Offer(p, prev, seq, set, ct) ==
    [node |-> p, prev |-> prev, seq |-> seq, set |-> set, ct |-> ct]

Base ==
    [net |-> A, any |-> TRUE, since |-> "short", validated |-> 0, finished |-> 0,
     pause |-> FALSE, set |-> {x}, ct |-> 4, order |-> <<p1, p2>>,
     validator |-> TRUE, untrusted |-> {}]

(* Voting: the previous ledger is never in doubt. p1 moves from one set to *)
(* another, p2 bows out.                                                   *)
VotingOffers ==
    {Offer(p1, A, 0, {x}, 4), Offer(p1, A, 1, {x, y}, 4),
     Offer(p2, A, 0, {y}, 8), Offer(p2, A, MCLeave, {y}, 8)}

VotingAnswers ==
    {Base,
     [Base EXCEPT !.set = {y}, !.ct = 8, !.any = FALSE, !.since = "idle", !.pause = TRUE,
                  !.finished = 2, !.validator = FALSE, !.untrusted = {p2},
                  !.order = <<p2, p1>>]}

VotingHave == {{x}, {y}}

(* Switching: the network may go from one sibling to the other. One set    *)
(* arrives late.                                                           *)
SwitchingOffers ==
    {Offer(p1, A, 0, {y}, 8), Offer(p1, B, 0, {x, y}, 4), Offer(p2, B, 0, {y}, 4)}

SwitchingHave == {{x}, {y}}

SwitchingAnswers ==
    {Base, [Base EXCEPT !.net = C],
     [Base EXCEPT !.net = B, !.any = FALSE, !.since = "idle", !.set = {y},
                  !.order = <<p2, p1>>]}
==============================================================================
