SPECIFICATION MCSpec
CONSTANTS
    Samplers = {"temperature", "top_p"}
    Unknown = "unknown"
    Catalog <- MCCatalog
    Inputs <- MCInputs
    Objects <- MCObjects
    Bodies <- MCBodies
    MaxEventBytes = 4
    MaxJSONBytes = 4
    MaxChoices = 2
    MaxInt = 2
    MaxCount = 3
    Candidates <- MCCandidates
    Supported = {"ma", "mb"}
    Others = {"mx"}
    Statuses <- MCStatuses
    Invalid <- MCInvalid
    ChildStates = {"unloaded", "loaded"}
    MaxListed = 2
INVARIANTS
    PolicyExact CompletionExact CountsExact ReportTruthful
CHECK_DEADLOCK FALSE
