SPECIFICATION Spec
CONSTANTS
    owner = owner
    bob = bob
    team = team
    solo = solo
    aide = aide
    capped = capped
    t1 = t1
    t2 = t2
    t3 = t3
    a = a
    b = b
    url = url
    prod = prod
    ai = ai
    Labels = {prod}
    ProviderIds = {ai}
    ProviderForms <- MCProviderForms
    Endpoints = {url}
    Invalid = Invalid
    fileDef = fileDef
    def = def
    Users <- MCUsers
    Guest = bob
    Groups = {team}
    AgentIds = {solo, aide, capped}
    Tokens = {t1, t2, t3}
    Ids = {a, b}
    Definitions = {fileDef, def}
    ConfigSpace <- MCConfigSpace
    None = None
    Wildcard = Wildcard
    Calls = {i1}
    Texts <- MCTexts
    functionPermissions <- MCFunctionPermissions
    Malformed = Malformed
CHECK_DEADLOCK FALSE
INVARIANTS GovernedStates PeopleAnswerForTheirOwn AnsweredIsAudited
PROPERTIES GovernedSteps
