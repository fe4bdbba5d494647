SPECIFICATION CommandSpec
CONSTANTS
    Services = {1, 2, 3, 4}
    Manifests <- MCManifests
    CommandLines <- MCCommandLines
    Candidates = 4
    AnswerLength = 2
CHECK_DEADLOCK FALSE
INVARIANTS
    GroupsAreDetermined
    RoutesStartFirst
    TerminalGivenBack
PROPERTIES
    ExpansionExact
    PlanAsAgreed
    PlanEnds
