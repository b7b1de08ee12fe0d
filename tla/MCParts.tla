------------------------------- MODULE MCParts -------------------------------
(***************************************************************************)
(* The parts that stand on their own, for TLC: a behaviour is one of the   *)
(* bucket, of the table of buckets or of the list of mirrors, or it is one *)
(* input of a function.                                                    *)
(***************************************************************************)
EXTENDS RateWindow, PerHostLimits, MirrorList, InputCases

CONSTANT Parts   \* what is looked at

VARIABLE part   \* which of them

partsVars == <<part, bucketVars, hostVars, mirrorVars, inputVars>>

MCHosts    == {<<"a", "com">>, <<"com">>}
MCPatterns == {<<"a", "com">>, <<"com">>, <<"*", "com">>}

(* Two mirrors of different priority, the better one second. *)
MCPriority == <<0, 1>>

PartsInit ==
  /\ part \in Parts
  /\ WindowInit /\ HostInit
  /\ MirrorInit /\ (part # "mirrors" => strategy = "random")
  /\ IF part = "inputs" THEN InputInit ELSE Is("none", {<<>>})

PartsNext ==
  /\ UNCHANGED <<part, inputVars>>
  /\ \/ part = "bucket" /\ WindowNext /\ UNCHANGED <<hostVars, mirrorVars>>
     \/ part = "hosts" /\ HostNext /\ UNCHANGED <<bucketVars, mirrorVars>>
     \/ part = "mirrors" /\ MirrorNext /\ UNCHANGED <<bucketVars, hostVars>>

PartsSpec == PartsInit /\ [][PartsNext]_partsVars

-----------------------------------------------------------------------------
(* The types of the parts that keep state. *)
TypesOK == TypeOK /\ MirrorTypeOK
=============================================================================
