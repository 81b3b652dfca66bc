\* Spec 4.2: one released sample during a press must not end the press.
CONSTANTS
  k1 = k1
  k2 = k2
  Keys <- MC_Keys
  DEBOUNCE_BUFFER_SIZE = 3
  MaxTicksPerRead = 1
SPECIFICATION Spec
INVARIANT ReleaseDebounced
