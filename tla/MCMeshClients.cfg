CONSTANTS
    Ns = {n}
    Name = {a, b}
    Value = {v, w}
    Nil = Nil
CHECK_DEADLOCK FALSE
SPECIFICATION Spec
INVARIANT RespondsWithProvidedObjects
