-------------------------- MODULE ManagedCertificate --------------------------
(***************************************************************************)
(* What the runtime classes promise about the Certificate they generate,   *)
(* of a Garden or of a Seed, whatever fails in between and however often   *)
(* the source changes while it is read and written:                        *)
(*   - the Certificate in use has what the only source was read to say in  *)
(*     one piece, never a mixture of two states of it;                     *)
(*   - it is written after the credentials it needs, and for a controller  *)
(*     that is there; credentials are taken away only when it is not in    *)
(*     use;                                                                *)
(*   - its controller leaves after it, unless it may outlive it.           *)
(***************************************************************************)
CONSTANT Outlives \* the Certificate may stay when its controller goes

VARIABLES
  source,      \* what the sources say: a set of [names, needs]
  read,        \* what was read: {} or {[names, needs]}
  held,        \* the Certificate in use: {} or {its names}
  credentials, \* credentials that are there
  controller   \* "absent", "present", "deleting"

Init ==
  /\ read = {} /\ held = {} /\ credentials = {}
  /\ controller = "absent"

\* The source is somebody else's.
ChangeSource == UNCHANGED <<read, held, credentials, controller>>

Read ==
  /\ \E c \in source : source = {c} /\ read' = {c}
  /\ UNCHANGED <<source, held, credentials, controller>>

Forget ==
  /\ read' = {}
  /\ UNCHANGED <<source, held, credentials, controller>>

Provide ==
  /\ \E c \in read : credentials' = c.needs
  /\ UNCHANGED <<source, read, held, controller>>

Write ==
  /\ controller = "present"
  /\ \E c \in read : c.needs \subseteq credentials /\ held' = {c.names}
  /\ UNCHANGED <<source, read, credentials, controller>>

Withdraw ==
  /\ held' = {}
  /\ UNCHANGED <<source, read, credentials, controller>>

Discard ==
  /\ held = {} /\ credentials' = {}
  /\ UNCHANGED <<source, read, held, controller>>

Deploy ==
  /\ controller = "absent" /\ controller' = "present"
  /\ UNCHANGED <<source, read, held, credentials>>

Leave ==
  /\ \/ controller = "present" /\ controller' = "deleting" /\ (Outlives \/ held = {})
     \/ controller = "deleting" /\ controller' = "absent"
  /\ UNCHANGED <<source, read, held, credentials>>

Next == \/ ChangeSource \/ Read \/ Forget \/ Provide \/ Write \/ Withdraw
        \/ Discard \/ Deploy \/ Leave

Spec == Init /\ [][Next]_<<source, read, held, credentials, controller>>
=============================================================================
