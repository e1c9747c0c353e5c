\* One thread takes every signal, and an answer may come after it is given up.
SPECIFICATION Spec
CONSTANTS
    Handlers = {"main"}
    Kinds = {"INT", "WINCH"}
    Foregrounds = {TRUE, FALSE}
    Signals = 2
INVARIANT OwnAnswer
