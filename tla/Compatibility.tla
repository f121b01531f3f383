---------------------------- MODULE Compatibility ----------------------------
(***************************************************************************)
(* CompatibilityChecker of the analysis service                            *)
(* (apps/analysis-service/src/analysis_service/compatibility/checker.py):  *)
(* the verdict on a release whose API was described by the schemas before  *)
(* and is described by the schemas after.                                  *)
(*                                                                         *)
(* The schemas of an API map names to object schemas; one has the types of *)
(* its properties and the names that are required, whether or not they are *)
(* properties.                                                             *)
(*                                                                         *)
(* The checker keeps no state.  What is kept here is what a user of it has *)
(* released: the first description of an API, and the latest.              *)
(***************************************************************************)
EXTENDS FiniteSets

CONSTANT Api   \* the schemas of the releases that are compared

VARIABLE released   \* the first release and the latest, or << >> before the first

\* after_schemas.get(name, {}): an object without properties.
NoObject == [properties |-> [f \in {} |-> {}], required |-> {}]

Get(schemas, name) == IF name \in DOMAIN schemas THEN schemas[name] ELSE NoObject

\* compare_objects
CompareObjects(before, after) ==
  LET kept == DOMAIN before.properties \cap DOMAIN after.properties
  IN  [removed |-> DOMAIN before.properties \ DOMAIN after.properties,
       type_changed |-> {f \in kept : before.properties[f] # after.properties[f]},
       required_to_optional |-> {f \in kept \cap before.required : f \notin after.required},
       optional_to_required |-> {f \in kept \cap after.required : f \notin before.required},
       added |-> DOMAIN after.properties \ DOMAIN before.properties]

\* Mutant: a property that was removed is a safe change.
BreakingKindsKeepingRemoved == {"type_changed", "optional_to_required"}

BreakingKinds == {"removed", "type_changed", "optional_to_required"}

\* breaking_changes of evaluate: the schemas and the kinds of their differences.
BreakingChanges(before, after) ==
  {change \in (DOMAIN before) \X BreakingKinds :
     LET name == change[1]
     IN  CompareObjects(before[name], Get(after, name))[change[2]] # {}}

Verdict(before, after) ==
  IF BreakingChanges(before, after) # {} THEN "breaking" ELSE "compatible"

Compatible(before, after) == Verdict(before, after) = "compatible"

------------------------------------------------------------------------------
ReleaseInit == released = << >>

FirstRelease(api) == released = << >> /\ released' = <<api, api>>

\* POST /compatibility/check with the latest description and the new one.
Release(api) ==
  /\ released # << >> /\ Compatible(released[2], api)
  /\ released' = <<released[1], api>>

ReleaseNext == \E api \in Api : FirstRelease(api) \/ Release(api)

ReleaseSpec == ReleaseInit /\ [][ReleaseNext]_released

\* The checker compares two releases (checker.py:40), and a client may be many
\* releases behind: steps that are each called compatible add up to a release
\* that is compatible with the first, though schemas and fields come and go and
\* required fields become optional on the way.
CompatibleStepsAddUp == released # << >> => Compatible(released[1], released[2])

==============================================================================
