--------------------------- MODULE MCAuthorization ---------------------------
(* A directory and documents for TLC: a creator, an approver, a funding        *)
(* approver and a desk analyst, each with a profile to change to, and the      *)
(* documents on which the rules of the two packages differ.                    *)
EXTENDS DemoHarness

P(title, lob, roles, groups, covers, supervisor) ==
  [title |-> title, lob |-> lob, roles |-> roles, groups |-> groups, covers |-> covers,
   supervisor |-> supervisor]

MCProfiles ==
  [ana |-> <<P("Analyst", "none", {"INSTRUCTION_CREATOR", "PAYMENT_CREATOR"},
               {"MIDDLE_OFFICE", "UP_TO_100_MILLION_CLUB"}, {"FICC"}, "bob"),
             P("Partner", "FICC", {"INSTRUCTION_CREATOR", "INSTRUCTION_APPROVER"},
               {}, {}, "bob"),
             P("Analyst", "none", {"PAYMENT_CREATOR"}, {"MIDDLE_OFFICE"}, {"FX"}, "bob")>>,
   bob |-> <<P("Managing Director", "FICC", {"INSTRUCTION_APPROVER", "PAYMENT_CREATOR"},
               {}, {}, "none"),
             P("Managing Director", "FICC", {"COMPLIANCE_ANALYST"}, {}, {}, "none")>>,
   fay |-> <<P("Vice President", "FICC", {"FUNDING_APPROVER", "INSTRUCTION_APPROVER"},
               {"MIDDLE_OFFICE", "UP_TO_1_BILLION_CLUB"}, {"FICC"}, "none"),
             P("Vice President", "HR", {"FUNDING_APPROVER", "INSTRUCTION_APPROVER"},
               {"MIDDLE_OFFICE", "ADMIN", "TECH_AUDITORS"}, {"FX"}, "ana")>>]

I(status, type, long, ended) ==
  [status |-> status, type |-> type, lob |-> "FICC", account |-> "FICC", by |-> "ana",
   title |-> "Analyst", supervisor |-> "bob", suspended |-> IF status = "SUSPENDED" THEN "fay" ELSE "none",
   long |-> long, ended |-> ended]
MCInstructionDocs ==
  {I("DRAFT", "STANDING", FALSE, FALSE),
   [I("DRAFT", "STANDING", TRUE, FALSE) EXCEPT !.lob = "HR"],
   [I("SUBMITTED", "SINGLE_USE", FALSE, FALSE) EXCEPT !.supervisor = "none"],
   I("SUSPENDED", "STANDING", FALSE, FALSE), I("USED", "SINGLE_USE", FALSE, FALSE),
   I("APPROVED", "STANDING", FALSE, TRUE)}

D(status, backing, type, amount) ==
  [status |-> status, amount |-> amount, lob |-> "FICC", by |-> "ana", backing |-> backing,
   type |-> type, ended |-> FALSE]
MCPaymentDocs ==
  {D("DRAFT", "APPROVED", "STANDING", 1), D("SUBMITTED", "APPROVED", "STANDING", 2),
   D("SUBMITTED", "USED", "SINGLE_USE", 1), D("APPROVED", "APPROVED", "STANDING", 1),
   D("DRAFT", "SUBMITTED", "SINGLE_USE", 3)}

(* What the services hold when the harness is opened: instructions in every    *)
(* stage, one that nobody may approve, and payments on them.                   *)
H(status, type, ver) == I(status, type, FALSE, FALSE) @@ [ver |-> ver]
Nobodys(i) == [i EXCEPT !.by = "fay", !.title = "Vice President", !.supervisor = "bob"]
V(status, amount, of, iver) ==
  [status |-> status, amount |-> amount, lob |-> "FICC", by |-> "ana", of |-> of, iver |-> iver,
   submitted |-> status # "DRAFT"]
MCAdmin == P("Platform Administrator", "none", {"PLATFORM_ADMIN", "INSTRUCTION_VIEWER"},
             {"ADMIN"}, {}, "none")
MCStores ==
  {[insts |-> <<Nobodys(H("SUBMITTED", "STANDING", 2)), H("SUBMITTED", "STANDING", 2)>>,
    pays |-> <<>>],
   [insts |-> <<H("APPROVED", "SINGLE_USE", 3), H("SUSPENDED", "STANDING", 4)>>,
    pays |-> <<V("DRAFT", 1, 1, 3), V("SUBMITTED", 2, 2, 3)>>],
   [insts |-> <<H("DRAFT", "STANDING", 1), H("USED", "SINGLE_USE", 4)>>,
    pays |-> <<V("SUBMITTED", 1, 2, 4), V("DRAFT", 1, 2, 3), V("SUBMITTED", 3, 2, 4)>>]}
=============================================================================
