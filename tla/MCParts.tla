------------------------------ MODULE MCParts ------------------------------
(***************************************************************************)
(* Instances for TLC of the parts that share no state, side by side: each  *)
(* behaviour is one of a single part, which `part` names, while the        *)
(* variables of the others keep their initial values.                      *)
(***************************************************************************)
EXTENDS Parts, RuleSamples

CONSTANTS
    SigmaDirs, SigmaEvents, MaxExprDepth,  (* SigmaRules *)
    YaraFiles, Buffers, ScanCap            (* YaraRules *)

VARIABLES
    part,
    sigmaDir, sigmaRead, sigmaRules, sigmaErrs, sigmaIndex, sigmaEvent, sigmaHits,
    yaraMeant, yaraLine, yaraRules, yaraErrs, yaraBuffer, yaraHits

Sigma == INSTANCE SigmaRules
Yara  == INSTANCE YaraRules

sigmaVars == <<sigmaDir, sigmaRead, sigmaRules, sigmaErrs, sigmaIndex, sigmaEvent, sigmaHits>>
yaraVars  == <<yaraMeant, yaraLine, yaraRules, yaraErrs, yaraBuffer, yaraHits>>
partVars  == <<part, commandVars, sigmaVars, yaraVars, isoVars, dbVars, libVars>>

SomeDir  == CHOOSE d \in SigmaDirs : TRUE
SomeFile == CHOOSE f \in YaraFiles : TRUE

\* Only the part that moves has more than one initial state.
PartsInit ==
    /\ part \in {"command", "sigma", "yara", "isolation", "store", "library"}
    /\ CommandInit /\ Iso!Init /\ Lib!Init
    /\ (part # "command" => mode = "file")
    /\ Sigma!Init /\ (part # "sigma" => sigmaDir = SomeDir)
    /\ Yara!Init  /\ (part # "yara" => yaraMeant = SomeFile)
    /\ Db!Init    /\ (part # "store" => tables = {})

PartsNext ==
    \/ /\ part = "command" /\ CommandNext
       /\ UNCHANGED <<part, sigmaVars, yaraVars, isoVars, dbVars, libVars>>
    \/ /\ part = "sigma" /\ Sigma!Next
       /\ UNCHANGED <<part, commandVars, yaraVars, isoVars, dbVars, libVars>>
    \/ /\ part = "yara" /\ Yara!Next
       /\ UNCHANGED <<part, commandVars, sigmaVars, isoVars, dbVars, libVars>>
    \/ /\ part = "isolation" /\ Iso!Next
       /\ UNCHANGED <<part, commandVars, sigmaVars, yaraVars, dbVars, libVars>>
    \/ /\ part = "store" /\ Db!Next
       /\ UNCHANGED <<part, commandVars, sigmaVars, yaraVars, isoVars, libVars>>
    \/ /\ part = "library" /\ Lib!Next
       /\ UNCHANGED <<part, commandVars, sigmaVars, yaraVars, isoVars, dbVars>>

PartsSpec == PartsInit /\ [][PartsNext]_partVars

-----------------------------------------------------------------------------
(* The properties of the rule engines, by their names there; those of the  *)
(* other parts are in scope as they are.                                   *)

\* The hits are those of the Sigma rules as their authors meant them
\* (sigma_loader.go).
SigmaAgrees == Sigma!SigmaAgrees

\* The hits are those of the YARA rules as their authors meant them
\* (yara_loader.go).
YaraAgrees == Yara!YaraAgrees
=============================================================================
