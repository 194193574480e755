----------------------------- MODULE AuditLedger -----------------------------
(***************************************************************************)
(* What a domain service promises its readers: a ledger of versions that   *)
(* only ever grows, one version of an id after another, in which a         *)
(* version and the security event that accounts for it appear in the same  *)
(* step.  Nothing is said here about requests, transactions or locks.      *)
(* A step is described by what it adds, so the module needs no sets of     *)
(* identifiers, bodies or events.                                          *)
(***************************************************************************)
EXTENDS Integers

VARIABLES entries, \* the versions: records [id, ver, body]
          events   \* the security events: records [id, eid, ver, action, actor, verdict]

ledger == <<entries, events>>

Init == entries = {} /\ events = {}

(* The event accounts for the entry: same version, same action and actor. *)
Accounts(n, e) ==
  /\ n.id = e.id /\ n.ver = e.ver /\ n.verdict = "allow"
  /\ n.action = e.body.action /\ n.actor = e.body.actor

(* The event's identifier was never used for its resource. *)
FreshEvent(n) == \A m \in events : m.id = n.id => m.eid # n.eid

(* The entry is the successor of the newest version of its id. *)
NextVersion(e) ==
  /\ \A d \in entries : d.id = e.id => d.ver < e.ver
  /\ e.ver = 1 \/ \E d \in entries : d.id = e.id /\ d.ver = e.ver - 1

(* A version appears, together with the event that accounts for it when    *)
(* the actor's operations are audited.                                     *)
AddVersion ==
  \E e \in entries' :
    /\ NextVersion(e)
    /\ entries' = entries \cup {e}
    /\ \/ ~e.body.audited /\ UNCHANGED events
       \/ /\ e.body.audited
          /\ \E n \in events' :
               Accounts(n, e) /\ FreshEvent(n) /\ events' = events \cup {n}

(* A refusal or a view is noted; no version appears. *)
AddNote ==
  \E n \in events' :
    /\ n.verdict = "deny" \/ n.action = "VIEW"
    /\ FreshEvent(n)
    /\ events' = events \cup {n}
    /\ UNCHANGED entries

Next == AddVersion \/ AddNote

Spec == Init /\ [][Next]_ledger
=============================================================================
