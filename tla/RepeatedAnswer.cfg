CONSTANTS
    Devices = {d1}
    Commands = {c1, c2}
    Keys = {key1}
    Operators = {o1, o2}
    NoKey = NoKey
    Nobody = Nobody
    Types = {"SET_VOLUME", "MUTE", "FORCE_SYNC"}
    Results = {"EXECUTED"}
    BatchSize = 1
SPECIFICATION Spec
INVARIANT AcknowledgementIsIdempotent
