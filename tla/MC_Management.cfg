\* Two clients of up to three bytes each, over a buffer of five bytes
\* (four usable): one read can hold a line and the start of the next, and
\* a second connection can follow a closed one.  The clients stop, hence
\* no deadlock check.
CONSTANTS
    BUF_SZ = 5
    NL = 0
    Chars = {1, 2}
    Scripts <- MC_Scripts
SPECIFICATION Spec
CHECK_DEADLOCK FALSE
INVARIANT
    LinesIntact
