---------------------------- MODULE RelationLab ----------------------------
(***************************************************************************)
(* The relation laboratory (`dev relations'): diagnostics that run over a  *)
(* frozen graph without labels (RelationSelection to RelationPackaging),   *)
(* and the protocol that makes the labels (Review).  They share nothing    *)
(* but files whose digests the review checks, which are constants of both: *)
(* a behaviour is of one of the two, and the other part stays as it is.    *)
(***************************************************************************)
EXTENDS Review, RelationPackaging

VARIABLE part

diagnosticsVars == <<vars, packagingVars>>
labVars == <<reviewVars, diagnosticsVars, part>>

DiagnosticsIdle ==
    /\ input = None /\ stage = "idle" /\ group = <<>> /\ facts = {}
    /\ bundle = Nothing /\ related = {} /\ labelled = None
    /\ completed = None /\ replay = None

LabInit ==
    \/ part = "review" /\ ReviewInit /\ DiagnosticsIdle
    \/ part = "diagnostics" /\ ReviewInit /\ DiagnosticsInit

LabNext ==
    \/ part = "review" /\ ReviewNext /\ UNCHANGED <<diagnosticsVars, part>>
    \/ part = "diagnostics" /\ DiagnosticsNext /\ UNCHANGED <<reviewVars, part>>

LabSpec == LabInit /\ [][LabNext]_labVars
=============================================================================
