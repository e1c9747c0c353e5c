------------------------------ MODULE MCParts ------------------------------
(***************************************************************************)
(* Instances for TLC of the parts of the launcher that share no state with *)
(* one another: which part runs is chosen at first, and the others stay in *)
(* one initial state.                                                      *)
(***************************************************************************)
EXTENDS MCRecord, MCUpdate, Launch, Handshake, Java, Acceptance, MCDocuments, Signals

VARIABLE part

partsVars == <<part, recordVars, updateVars, launchVars, handshakeVars, javaVars,
               acceptanceVars, documentVars, vars>>

-----------------------------------------------------------------------------
\* A base and two layers whose hashes begin alike, a layer to come, and a stranger.
Chain == <<<<1, 1>>, <<2, 1>>, <<2, 2>>>>
NewerLayers == {<<3, 1>>}
ForeignBase == <<9, 9>>

-----------------------------------------------------------------------------
PartsInit ==
    /\ part \in {"record", "update", "launch", "handshake", "java", "acceptance", "documents",
                 "signals"}
    /\ RecordInit /\ UpdateInit /\ LaunchInit /\ HandshakeInit /\ JavaInit /\ AcceptanceInit
    /\ DocumentsInit /\ (part # "documents" => theirs = 1 /\ ours = 1)
    /\ Init

RecordPart ==
    /\ part = "record" /\ RecordNext
    /\ UNCHANGED <<part, updateVars, launchVars, handshakeVars, javaVars, acceptanceVars,
                   documentVars, vars>>

UpdatePart ==
    /\ part = "update" /\ UpdateNext
    /\ UNCHANGED <<part, recordVars, launchVars, handshakeVars, javaVars, acceptanceVars,
                   documentVars, vars>>

LaunchPart ==
    /\ part = "launch" /\ LaunchNext
    /\ UNCHANGED <<part, recordVars, updateVars, handshakeVars, javaVars, acceptanceVars,
                   documentVars, vars>>

HandshakePart ==
    /\ part = "handshake" /\ HandshakeNext
    /\ UNCHANGED <<part, recordVars, updateVars, launchVars, javaVars, acceptanceVars,
                   documentVars, vars>>

JavaPart ==
    /\ part = "java" /\ JavaNext
    /\ UNCHANGED <<part, recordVars, updateVars, launchVars, handshakeVars, acceptanceVars,
                   documentVars, vars>>

AcceptancePart ==
    /\ part = "acceptance" /\ AcceptanceNext
    /\ UNCHANGED <<part, recordVars, updateVars, launchVars, handshakeVars, javaVars,
                   documentVars, vars>>

DocumentsPart ==
    /\ part = "documents" /\ DocumentsNext
    /\ UNCHANGED <<part, recordVars, updateVars, launchVars, handshakeVars, javaVars,
                   acceptanceVars, vars>>

SignalsPart ==
    /\ part = "signals" /\ Next
    /\ UNCHANGED <<part, recordVars, updateVars, launchVars, handshakeVars, javaVars,
                   acceptanceVars, documentVars>>

PartsNext ==
    \/ RecordPart \/ UpdatePart \/ LaunchPart \/ HandshakePart \/ JavaPart \/ AcceptancePart
    \/ DocumentsPart \/ SignalsPart

\* The fairness of Signals alone: the other parts are asked for safety.
PartsSpec == PartsInit /\ [][PartsNext]_partsVars /\ Fairness
=============================================================================
