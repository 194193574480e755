---------------------------- MODULE MCPaymentSkills ----------------------------
(***************************************************************************)
(* PaymentSkills for TLC, in two campaigns.  "crowd": two users confirm    *)
(* one run of any skill twice, while others change things.  "rivals": one  *)
(* user has two runs about one payment.                                    *)
(***************************************************************************)
EXTENDS PaymentSkills

CONSTANT Campaign
VARIABLE campaign

First(S) == CHOOSE x \in S : TRUE

MCInit ==
  /\ Init
  /\ campaign \in Campaign
  /\ campaign = "rivals" => {p \in Payment : payment[p] # "ABSENT"} = {First(Payment)}

(* What a step may do in each campaign.                                    *)
InCrowd == {r \in Run : asked'[r] # Null} \subseteq {First(Run)}
AmongRivals ==
  /\ moves' = 0
  /\ \A r \in Run : asked'[r] # Null =>
       /\ asked'[r].skill \in {"APPROVE", "CANCEL"}
       /\ asked'[r].by = First(User)

MCNext ==
  /\ Next
  /\ IF campaign = "crowd" THEN InCrowd ELSE AmongRivals
  /\ UNCHANGED campaign

MCSpec ==
  MCInit /\ [][MCNext]_<<vars, campaign>>
    /\ \A t \in Thread : WF_<<vars, campaign>>(ChatStep(t) /\ UNCHANGED campaign)
=============================================================================
