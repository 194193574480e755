------------------------------ MODULE PolicyStore ------------------------------
(* The policies OPA has loaded, and upload_policies.py, which replaces them on *)
(* a running server: it deletes every file, then uploads every file, one       *)
(* request at a time, while OPA goes on answering.                             *)
EXTENDS Naturals, Sequences, FiniteSets, SequencesExt

CONSTANTS
  UploadRetries,  \* UPLOAD_RETRIES of the script
  MaxFaults       \* bound: requests of the script that OPA may fail to serve

ASSUME StoreAssumption == UploadRetries \in Nat \ {0} /\ MaxFaults \in Nat

VARIABLES
  loaded,  \* policy files OPA has compiled
  upload,  \* the run of the script, see UploadIdle
  faults   \* how many of its requests have failed

storeVars == <<loaded, upload, faults>>

(* The files under policies/, the tests of the policies included: the script   *)
(* and OPA's own mount take every *.rego.                                      *)
PreferredUploadOrder ==
  <<"i/common", "i/approval_matrix", "i/lifecycle_rules", "i/violations", "i/allow_basis",
    "i/policy_catalog", "i/lifecycle", "i/policy_summary",
    "p/common", "p/amount_limits", "p/violations", "p/allow_basis", "p/policy_catalog",
    "p/lifecycle", "p/policy_summary">>
PreferredDeleteOrder ==
  <<"i/lifecycle", "i/policy_summary", "i/policy_catalog", "i/violations", "i/allow_basis",
    "i/lifecycle_rules", "i/approval_matrix", "i/common",
    "p/lifecycle", "p/policy_summary", "p/policy_catalog", "p/violations", "p/allow_basis",
    "p/amount_limits", "p/common">>
TestFiles == <<"i/view_lob_test", "p/covers_lob_test", "p/sod_test">>
PolicyFiles == Range(PreferredUploadOrder) \cup Range(TestFiles)

(* What a file refers to in the other files of its package.  OPA refuses a     *)
(* PUT or a DELETE that leaves a reference without its definition.             *)
Uses(f) ==
  CASE f \in {"i/violations", "i/allow_basis"} ->
         {"i/common", "i/lifecycle_rules", "i/approval_matrix"}
    [] f = "i/policy_catalog" -> {"i/common"}
    [] f = "i/lifecycle" -> {"i/common", "i/lifecycle_rules", "i/approval_matrix",
                             "i/policy_catalog"}
    [] f = "i/policy_summary" -> {"i/policy_catalog"}
    [] f = "i/view_lob_test" -> {"i/lifecycle", "i/violations"}
    [] f = "p/amount_limits" -> {"p/common"}
    [] f \in {"p/violations", "p/allow_basis"} -> {"p/common", "p/amount_limits"}
    [] f = "p/policy_catalog" -> {"p/common"}
    [] f = "p/lifecycle" -> {"p/common", "p/amount_limits", "p/policy_catalog"}
    [] f = "p/policy_summary" -> {"p/policy_catalog"}
    [] f = "p/covers_lob_test" -> {"p/common"}
    [] f = "p/sod_test" -> {"p/lifecycle", "p/violations"}
    [] OTHER -> {}
Compiles(files) == \A f \in files : Uses(f) \subseteq files

(* pc      "idle", "clear" (deleting), "upload", "done", "failed"              *)
(* left    files the script still believes to be there                         *)
(* queue   files the pass has still to come to                                 *)
(* moved   whether the pass deleted anything; errors: failures of the attempt  *)
(* refused ghost: files OPA refused to compile during an upload                *)
UploadIdle == [pc |-> "idle", left |-> {}, queue |-> {}, moved |-> FALSE,
               attempt |-> 0, errors |-> 0, refused |-> {}]
Uploading == upload.pc \in {"clear", "upload"}

StoreInit == loaded = PolicyFiles /\ upload = UploadIdle /\ faults = 0

DeleteOrder == PreferredDeleteOrder \o TestFiles
UploadOrder == PreferredUploadOrder \o TestFiles
Place(order, f) == CHOOSE n \in DOMAIN order : order[n] = f
Foremost(order, files) == {f \in files : \A g \in files : Place(order, f) <= Place(order, g)}

BeginAttempt(u, n) ==
  [u EXCEPT !.pc = "upload", !.queue = PolicyFiles, !.attempt = n, !.errors = 0]

(* main up to clear_policies' first listing; nothing to clear goes straight on.*)
StartUpload ==
  /\ ~Uploading
  /\ upload' = LET fresh == [UploadIdle EXCEPT !.left = loaded] IN
               IF loaded = {} THEN BeginAttempt(fresh, 1)
               ELSE [fresh EXCEPT !.pc = "clear", !.queue = loaded]
  /\ UNCHANGED <<loaded, faults>>

(* One delete_policy call of a pass; a refused delete is passed over.          *)
DeletePolicy ==
  /\ upload.pc = "clear"
  /\ \E f \in Foremost(DeleteOrder, upload.queue) :
       LET rest == loaded \ {f}
           gone == Compiles(rest)
       IN /\ loaded' = IF gone THEN rest ELSE loaded
          /\ upload' = [upload EXCEPT !.queue = @ \ {f},
                          !.left = IF gone THEN @ \ {f} ELSE @, !.moved = @ \/ gone]
  /\ UNCHANGED faults

(* The end of a pass: all gone, another pass, or no progress and exit.         *)
EndPass ==
  /\ upload.pc = "clear" /\ upload.queue = {}
  /\ upload' = IF upload.left = {} THEN BeginAttempt(upload, 1)
               ELSE IF upload.moved
                    THEN [upload EXCEPT !.queue = upload.left, !.moved = FALSE]
                    ELSE [upload EXCEPT !.pc = "failed"]
  /\ UNCHANGED <<loaded, faults>>

(* One upload_policy call; an error is noted and the pass goes on.             *)
UploadPolicy ==
  /\ upload.pc = "upload"
  /\ \E f \in Foremost(UploadOrder, upload.queue) :
       LET ok == Compiles(loaded \cup {f})
       IN /\ loaded' = IF ok THEN loaded \cup {f} ELSE loaded
          /\ upload' = [upload EXCEPT !.queue = @ \ {f}, !.errors = IF ok THEN @ ELSE @ + 1,
                          !.refused = IF ok THEN @ ELSE @ \cup {f}]
  /\ UNCHANGED faults

(* Faulty variant: errors end the script at once.                              *)
EndAttempt_NoRetry ==
  /\ upload.pc = "upload" /\ upload.queue = {}
  /\ upload' = [upload EXCEPT !.pc = IF upload.errors = 0 THEN "done" ELSE "failed"]
  /\ UNCHANGED <<loaded, faults>>

(* The end of an attempt: all uploaded, another attempt, or exit.              *)
EndAttempt ==
  /\ upload.pc = "upload" /\ upload.queue = {}
  /\ upload' = IF upload.errors = 0 THEN [upload EXCEPT !.pc = "done"]
               ELSE IF upload.attempt < UploadRetries THEN BeginAttempt(upload, upload.attempt + 1)
               ELSE [upload EXCEPT !.pc = "failed"]
  /\ UNCHANGED <<loaded, faults>>

(* A request that OPA does not answer: an upload error is noted, a delete ends *)
(* the script (delete_policy only catches HTTPError).                          *)
RequestFails ==
  /\ faults < MaxFaults /\ faults' = faults + 1
  /\ \/ upload.pc = "clear" /\ upload.queue # {} /\ upload' = [upload EXCEPT !.pc = "failed"]
     \/ /\ upload.pc = "upload"
        /\ \E f \in Foremost(UploadOrder, upload.queue) :
             upload' = [upload EXCEPT !.queue = @ \ {f}, !.errors = @ + 1]
  /\ UNCHANGED loaded

(* OPA restarts and loads the mounted directory.                               *)
OpaRestart ==
  /\ upload.pc = "failed"
  /\ loaded' = PolicyFiles /\ upload' = UploadIdle
  /\ UNCHANGED faults

ScriptStep == DeletePolicy \/ EndPass \/ UploadPolicy \/ EndAttempt

(* What a query of a package's document returns when its file is missing is    *)
(* "undefined", which the service reads as false, as an empty list or as {}.   *)
Serves(f) == f \in loaded

(* Faulty variant: the minimum counts one package only.                        *)
PolicyHealth_OnePackage == Cardinality(loaded) >= 8 /\ Serves("i/lifecycle")

(* policy_health, which the service's /health shows, and policies_ready, which *)
(* the containers started later wait for: enough files, and a CREATE of an     *)
(* instruction is allowed.                                                     *)
PolicyHealth == Cardinality(loaded) >= 15 /\ Serves("i/lifecycle")

(* "OPA has compiled lifecycle policies and can evaluate decisions": as long   *)
(* as OPA answers every request of the script, a service that reports healthy  *)
(* has the decisions and the violations of both packages, although the count   *)
(* includes the tests and the smoke test asks about instructions only.         *)
HealthyDecides ==
  faults = 0 /\ PolicyHealth =>
    \A f \in {"i/lifecycle", "i/violations", "p/lifecycle", "p/violations"} : Serves(f)
=============================================================================
