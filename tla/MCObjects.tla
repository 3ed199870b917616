----------------------------- MODULE MCObjects ------------------------------
(***************************************************************************)
(* Libraries that read objects: field paths and paved objects,             *)
(* unstructured resources with their conditions, packages, management      *)
(* policies, and the metrics.  A behaviour uses one of them.               *)
(***************************************************************************)
EXTENDS FieldPathLexer, Metrics, TLC

VARIABLES
  lib,                                                                  \* the library
  paved, call, returned,                                                \* of PavedCalls
  kind, resource, first, generation, calls, dict, marked, last,         \* of Unstructured
  backend, files, paths, reader, buffer, line, document, pkg, result,   \* of PackageParser
  r                                                                     \* of PolicyEdits

PI == INSTANCE PavedInputs WITH MaxText <- 4, MaxDepth <- 3, maxFieldPathIndex <- 1
UI == INSTANCE UnstructuredInputs WITH maxFieldPathIndex <- 1024
KI == INSTANCE PackageInputs WITH BufferSize <- 8

PavedTexts == PI!AllTexts
PavedObjects == PI!AllObjects
PavedValues == PI!AllInputs
PavedSegments == PI!AllSegments
ResourceObjects == UI!AllObjects
Reported == UI!AllReported
ClaimTypes == UI!AllClaimTypes
Packages == KI!AllPackages
EchoTexts == KI!AllTexts
PackageFilters == KI!AllFilters
Passes(o) == KI!Short(o)

P == INSTANCE PavedCalls
       WITH object <- paved, result <- returned, maxFieldPathIndex <- 1, MaxDepth <- 3,
            Objects <- PavedObjects, Inputs <- PavedValues, Segments <- PavedSegments
U == INSTANCE Unstructured
       WITH object <- resource, maxFieldPathIndex <- 1024, MaxCalls <- 3,
            Kinds <- {"legacy", "modern", "claim", "composed"}, Types <- {"Ready", "Synced", "Custom"},
            Objects <- ResourceObjects, Reported <- Reported, ClaimTypes <- ClaimTypes
K == INSTANCE PackageParser WITH BufferSize <- 8, Texts <- EchoTexts, Packages <- Packages, Filters <- PackageFilters, Passes <- Passes
M == INSTANCE PolicyEdits

\* Resources with the name that tells them apart.
OwnName == [x \in Resources |-> x]

pathVars == <<lexVars, paved, call, returned>>
resourceVars == <<kind, resource, first, generation, calls, dict, marked, last>>
parserVars == <<backend, files, paths, reader, buffer, line, document, pkg, result>>

libraryVars == <<lib, pathVars, resourceVars, parserVars, r, vars>>

\* A library that is not used stays in one of its initial states.
InitLibraries ==
  /\ lib \in {"fieldpath", "unstructured", "parser", "policies", "metrics"}
  /\ lib # "fieldpath" => input = <<>>
  /\ lib # "unstructured" => kind = "composed" /\ resource = UI!Object(<<>>)
  /\ lib # "parser" => backend = "nop"
  /\ lib # "policies" => r = [enabled |-> TRUE, policies |-> {"*"}, deletion |-> "Modern"]
  /\ P!Init /\ U!Init /\ K!Init /\ M!Init /\ Init

UseFieldPath == lib = "fieldpath" /\ P!Next /\ UNCHANGED <<lib, resourceVars, parserVars, r, vars>>
UseUnstructured == lib = "unstructured" /\ U!Next /\ UNCHANGED <<lib, pathVars, parserVars, r, vars>>
UseParser == lib = "parser" /\ K!Next /\ UNCHANGED <<lib, pathVars, resourceVars, r, vars>>
UsePolicies == lib = "policies" /\ M!EditPolicies /\ UNCHANGED <<lib, pathVars, resourceVars, parserVars, vars>>
UseMetrics == lib = "metrics" /\ Next /\ UNCHANGED <<lib, pathVars, resourceVars, parserVars, r>>

NextLibrary == UseFieldPath \/ UseUnstructured \/ UseParser \/ UsePolicies \/ UseMetrics

\* Go schedules the lexer and Parse, nothing that the parser calls blocks, the ticker of the
\* state recorder ticks and informers catch up.
Libraries ==
  /\ InitLibraries /\ [][NextLibrary]_libraryVars
  /\ WF_libraryVars(lib = "fieldpath" /\ P!Lexing /\ UNCHANGED <<lib, resourceVars, parserVars, r, vars>>)
  /\ WF_libraryVars(UseParser)
  /\ WF_vars(lib = "metrics" /\ Start)
  /\ \A m \in Resources : WF_vars(lib = "metrics" /\ CacheSync(m))

-----------------------------------------------------------------------------
(* The properties of the libraries that are instantiated, and liveness for *)
(* the behaviours that use the library; each is stated where the library   *)
(* is.                                                                     *)

\* Parse returns, whatever the text.
PathsAreParsed == lib = "fieldpath" => ParseReturns

\* The operations of paved.go do what is asked at their path and nothing elsewhere: SetValue is all
\* or nothing, within bounds, and able to set what a getter does not find; DeleteField removes one
\* value; and ExpandWildcards returns the paths that match and no others, whose text is read back.
PavedIsPrecise ==
  lib = "fieldpath" => /\ P!SetIsPrecise /\ P!IndexesAreBounded /\ P!NotFoundCanBeSet
                       /\ P!DeleteIsPrecise /\ P!ExpandsToMatches /\ P!PrintsBack

\* MergeValue keeps what its options say, and merging a value again changes nothing.
MergesAreStable == lib = "fieldpath" => P!MergeKeeps /\ P!MergeIsIdempotent

\* The accessors of composites, claims and composed resources read back what they were last given,
\* one condition of each type included, and do not get into each other's way nor the user's.
AccessorsReadBack ==
  lib = "unstructured" => U!AccessorsAgree /\ U!UserFieldsKept /\ U!ConditionsReadBack /\ U!ClaimTypesAreUsers

\* SetConditions is a no-op for conditions that are the same but for the time.
NoOpKeepsTime == U!NoOpKeepsTime

\* However files fall into reads and buffers, a package is the documents of its files; it is
\* refused for one near the file that the error names, and accepted only if the linters pass it.
PackageIsFiles == lib = "parser" => K!PackageIsFiles /\ K!ErrorsAreNearby /\ K!AcceptedPasses

\* Parsing a package ends.
ParseEnds == lib = "parser" => K!ParseEnds

\* Whether to delete follows from the policies, and for the default from the deletion policy; a
\* paused resolver is valid; policies that gain actions withdraw none, and those that lose actions
\* grant none.
PoliciesDecide == [](lib = "policies" => M!DeletionDecision /\ M!PauseIsValid) /\ M!GrantsFollowPolicies

\* The gauges follow the resources.
ResourcesAreCounted == lib = "metrics" => GaugesFollow
=============================================================================
