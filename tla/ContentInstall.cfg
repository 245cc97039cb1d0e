SPECIFICATION Spec
CONSTANTS
    PlainFile = PlainFile
    MemberFile = MemberFile
    OneArchive = OneArchive
    None = None
    Artifacts = {PlainFile, MemberFile}
    Archives = {OneArchive}
    ArchiveOf <- PlainAndMember
    Risky = {PlainFile}
    Installers = {i1, i2}
    Requests <- MixedRequests
    MaxStarts = 2
    MaxKills = 1
    MaxEdits = 1
SYMMETRY MCSymmetry
VIEW MCView
INVARIANTS
    ReadyIsGood OneStagingWriter SuccessLasts
PROPERTIES
    NothingLost
CHECK_DEADLOCK FALSE
