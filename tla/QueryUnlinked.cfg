CONSTANT MaxVanish = 0
SPECIFICATION Spec
INVARIANT PhraseIsFound
CHECK_DEADLOCK FALSE
