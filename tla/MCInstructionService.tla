------------------------ MODULE MCInstructionService ------------------------
(***************************************************************************)
(* InstructionService for TLC.  Offering everything at once would need too *)
(* many requests before anything of interest happens, so a behaviour       *)
(* belongs to one campaign, which offers some of the actions only.         *)
(***************************************************************************)
EXTENDS InstructionService, TLC

CONSTANT Campaign  \* the campaigns to run

Campaigns ==
  [use  |-> [offers |-> {"CREATE", "SUBMIT", "APPROVE", "SUSPEND", "REACTIVATE",
                         "USE", "RELEASE_USE"},
             requests |-> 6],
   edit |-> [offers |-> {"CREATE", "UPDATE", "SUBMIT", "APPROVE", "REJECT",
                         "CANCEL", "VIEW"},
             requests |-> 4]]

ASSUME CampaignAssumption == Campaign \subseteq DOMAIN Campaigns

VARIABLE campaign

MCInit == Init /\ campaign \in Campaign

Requested(h) ==
  /\ requests < Campaigns[campaign].requests
  /\ Operation(h)
  /\ ctx'[h].op \in Campaigns[campaign].offers

MCNext ==
  /\ \/ \E h \in Handler : Requested(h) \/ Progress(h) \/ LoseNumber(h) \/ Abort(h)
     \/ Crash
  /\ UNCHANGED campaign

MCSpec == MCInit /\ [][MCNext]_<<vars, campaign>>

(* Which requests are interchangeable. *)
Symmetry == Permutations(Handler)
=============================================================================
