SPECIFICATION VectorSpec
CONSTANT Together = {{"A", "ssru"}}
PROPERTIES WrapIsCounted
