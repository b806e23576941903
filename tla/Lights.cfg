SPECIFICATION Spec
CONSTANTS
    HueLights = {hue1}
    TelldusLights = {telldus1}
    Devices = {phone}
    Questions = {q1, q2}
    None = None
    MaxInputs = 1
INVARIANTS
    TypeOK
    LampsFollowLastWrite
    AnswerShowsWrite
CHECK_DEADLOCK FALSE
